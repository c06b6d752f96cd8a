----------------------------- MODULE GroupsProofs -----------------------------
(***************************************************************************)
(* Proofs about Groups, for any number of users, projects, budgets,        *)
(* contributions and requests.                                             *)
(***************************************************************************)
EXTENDS Groups, FiniteSetTheorems, TLAPS

(* Rows have numbers of their own; before the chama there is none. *)
RowsNumbered ==
    /\ \A m \in members : m.id <= rows
    /\ \A m, n \in members : m.id = n.id => m = n
    /\ owner = NoUser => members = {}

(* What a request holds is of the kind it needs, and a removal is not of the *)
(* owner's row.                                                             *)
Holds(h) ==
    /\ h.op \in {"join", "contribute"} => h.user \in User
    /\ h.op \in {"join", "remove"} => owner # NoUser
    /\ h.op = "remove" =>
          /\ h.row \in 1..rows
          /\ \A m \in members : m.id = h.row => m.user # owner
    /\ h.op \in {"update", "delete", "unlinked", "contribute"} =>
          h.project \in Project /\ project[h.project] # "none"
    /\ h.op = "update" => h.status \in ProjectStatus

RequestsHold == \A r \in Request : Holds(req[r])

(* One handler at most is past the gate, and its user is under the cap until *)
(* it inserts: the contributions of the last 24 hours only grow fewer.      *)
GateHolds ==
    /\ \A q, r \in Request : req[q].op = "contribute" /\ req[r].op = "contribute" => q = r
    /\ \A r \in Request : req[r].op = "contribute" => UnderDailyCap(req[r].user)

(* They can be counted. *)
ContributionsCounted == IsFiniteSet(contributions)

(* What has not been created is on no record. *)
RecordsFollow ==
    /\ \A i \in 1..MaxRows : i > rows =>
         ~On("created", "chama_members", i) /\ ~On("deleted", "chama_members", i)
    /\ \A p \in Project : project[p] = "none" =>
         ~On("created", "projects", p) /\ ~On("deleted", "projects", p)
    /\ \A b \in Budget : trail[b] # NoProject => project[trail[b]] # "none"

(* What a deletion has set to NULL is linked to its project until it commits, *)
(* and locked against other deletions.                                      *)
NullsHold ==
    /\ \A r \in Request : \A b \in req[r].nulled :
         req[r].op = "unlinked" /\ linked[b] = req[r].project
    /\ \A q, r \in Request : req[q].nulled \cap req[r].nulled # {} => q = r

(* The inductive invariant. *)
GroupsInvariant ==
    /\ TypeOK
    /\ MembershipSound /\ RowsNumbered /\ RequestsHold
    /\ ReferencesHold
    /\ GateHolds
    /\ DailyCapHolds /\ ContributionsCounted
    /\ AuditExplainsRows /\ RecordsFollow /\ NullsHold
-----------------------------------------------------------------------------
(* Types *)

LEMMA TypeStep == TypeOK /\ RequestsHold /\ [Next]_vars => TypeOK'
  <1> SUFFICES ASSUME TypeOK, RequestsHold, [Next]_vars PROVE TypeOK'
    OBVIOUS
  <1> USE GroupsAssumption DEF TypeOK
  <1>0. Idle \in [op : {"idle"}, user : User \cup {NoUser}, row : 0..MaxRows,
                  project : Project \cup {NoProject}, status : {"none"}, nulled : SUBSET Budget]
    BY DEF Idle
  <1>1. ASSUME NEW r \in Request, ChamaStep(r) PROVE TypeOK'
    <2>1. ASSUME NEW u \in User, create_chama(u) PROVE TypeOK'
      BY <2>1 DEF create_chama, InsertMember, capture_changes, Member
    <2>2. ASSUME NEW u \in User, NEW k \in 0..MaxCode, JoinReads(r, u, k) PROVE TypeOK'
      BY <2>2 DEF JoinReads, Begins, Idle
    <2>3. ASSUME NEW m \in members, NEW u \in User \cup {NoUser}, FindsMember(r, u, m)
          PROVE  TypeOK'
      <3>1. m.id \in 0..MaxRows
        BY DEF Member
      <3>2. [Idle EXCEPT !.op = "remove", !.user = u, !.row = m.id] \in
               [op : {"remove"}, user : User \cup {NoUser}, row : 0..MaxRows,
                project : Project \cup {NoProject}, status : {"none"}, nulled : SUBSET Budget]
        BY <3>1, <1>0
      <3> QED
        BY <2>3, <3>2 DEF FindsMember, Begins
    <2>4. CASE JoinCommits(r)
      BY <2>4, <1>0 DEF JoinCommits, InsertMember, capture_changes, Member, Ends, RequestsHold, Holds
    <2>5. CASE JoinAborts(r)
      BY <2>5, <1>0 DEF JoinAborts, Aborts, Ends
    <2>6. CASE RemoveCommits(r)
      BY <2>6, <1>0 DEF RemoveCommits, capture_changes, Ends
    <2>7. CASE regenerate_invite_code
      BY <2>7 DEF regenerate_invite_code, capture_changes
    <2> QED
      <3>1. ASSUME NEW m \in members, leave_chama(r, m) \/ remove_member(r, m) PROVE TypeOK'
        BY <3>1, <2>3 DEF leave_chama, remove_member, Member
      <3> QED
        BY <1>1, <2>1, <2>2, <2>4, <2>5, <2>6, <2>7, <3>1 DEF ChamaStep
  <1>2. ASSUME NEW r \in Request, ProjectStep(r) PROVE TypeOK'
    <2>1. ASSUME NEW p \in Project, create_chama_project(p) PROVE TypeOK'
      BY <2>1 DEF create_chama_project, capture_changes, ProjectStatus
    <2>2. ASSUME NEW p \in Project, DeleteReads(r, p) PROVE TypeOK'
      BY <2>2 DEF DeleteReads, Begins, Idle
    <2>3. ASSUME NEW p \in Project, NEW s \in ProjectStatus, UpdateReads(r, p, s) PROVE TypeOK'
      BY <2>3 DEF UpdateReads, Begins, Idle
    <2>4. CASE UpdateCommits(r)
      BY <2>4, <1>0 DEF UpdateCommits, capture_changes, Ends
    <2>5. CASE UpdateAborts(r) \/ DeleteAborts(r)
      BY <2>5, <1>0 DEF UpdateAborts, DeleteAborts, Aborts, Ends
    <2>6. CASE DeleteUnlinks(r)
      <3>1. PICK links \in SUBSET Budget :
               req' = [req EXCEPT ![r] = [req[r] EXCEPT !.op = "unlinked", !.nulled = links]]
        BY <2>6 DEF DeleteUnlinks
      <3> DEFINE h == [req[r] EXCEPT !.op = "unlinked", !.nulled = links]
      <3>2. h \in [op : {"unlinked"}, user : User \cup {NoUser}, row : 0..MaxRows,
                   project : Project \cup {NoProject}, status : ProjectStatus \cup {"none"},
                   nulled : SUBSET Budget]
        OBVIOUS
      <3>3. req' = [req EXCEPT ![r] = h]
        BY <3>1
      <3> HIDE DEF h
      <3>4. UNCHANGED <<owner, members, rows, invite_code, project, linked, trail, contributions,
                        audit, now>>
        BY <2>6 DEF DeleteUnlinks
      <3> QED
        BY <3>2, <3>3, <3>4
    <2>7. CASE DeleteCommits(r)
      BY <2>7, <1>0 DEF DeleteCommits, capture_changes, Ends
    <2> QED
      BY <1>2, <2>1, <2>2, <2>3, <2>4, <2>5, <2>6, <2>7 DEF ProjectStep
  <1>3. ASSUME NEW r \in Request, ContributeStep(r) PROVE TypeOK'
    <2>1. ASSUME NEW u \in User, NEW p \in Project, PassGate(r, u, p) PROVE TypeOK'
      BY <2>1 DEF PassGate, Begins, Idle
    <2>2. ASSUME NEW id \in Contribution, InsertContribution(r, id) PROVE TypeOK'
      <3>1. /\ req[r].user \in User /\ req[r].project \in Project
        BY <2>2 DEF InsertContribution, RequestsHold, Holds
      <3>2. contributions' \subseteq ContributionRow
        BY <2>2, <3>1 DEF InsertContribution, ContributionRow
      <3> QED
        BY <2>2, <3>2, <1>0 DEF InsertContribution, Ends
    <2>3. CASE InsertAborts(r)
      BY <2>3, <1>0 DEF InsertAborts, Aborts, Ends
    <2> QED
      BY <1>3, <2>1, <2>2, <2>3 DEF ContributeStep
  <1>4. ASSUME NEW b \in Budget, NEW p \in Project \cup {NoProject}, LinkBudget(b, p)
        PROVE TypeOK'
    BY <1>4 DEF LinkBudget, capture_link
  <1>5. CASE Tick
    BY <1>5 DEF Tick
  <1>6. CASE UNCHANGED vars
    BY <1>6 DEF vars
  <1>7. ASSUME NEW r \in Request, Dies(r) PROVE TypeOK'
    BY <1>7, <1>0 DEF Dies, Aborts, Ends
  <1> QED
    BY <1>1, <1>2, <1>3, <1>4, <1>5, <1>6, <1>7 DEF Next

-----------------------------------------------------------------------------
(* Memberships *)

(* Only three handlers write chama_members or the owner. *)
LEMMA MembersWritten ==
    ASSUME [Next]_vars
    PROVE  \/ \E u \in User : create_chama(u)
           \/ \E r \in Request : JoinCommits(r) \/ RemoveCommits(r)
           \/ UNCHANGED <<owner, members, rows>>
  <1>1. ASSUME NEW r \in Request, ChamaStep(r)
        PROVE  \/ \E u \in User : create_chama(u)
               \/ JoinCommits(r) \/ RemoveCommits(r)
               \/ UNCHANGED <<owner, members, rows>>
    BY <1>1 DEF ChamaStep, JoinReads, leave_chama, remove_member, FindsMember, JoinAborts,
       Aborts, regenerate_invite_code
  <1>2. ASSUME NEW r \in Request, ProjectStep(r) PROVE UNCHANGED <<owner, members, rows>>
    BY <1>2 DEF ProjectStep, create_chama_project, DeleteReads, UpdateReads, UpdateCommits,
       UpdateAborts, DeleteUnlinks, DeleteCommits, DeleteAborts, Aborts
  <1>3. ASSUME NEW r \in Request, ContributeStep(r) PROVE UNCHANGED <<owner, members, rows>>
    BY <1>3 DEF ContributeStep, PassGate, InsertContribution, InsertAborts, Aborts
  <1>4. ASSUME NEW b \in Budget, NEW p \in Project \cup {NoProject}, LinkBudget(b, p)
        PROVE  UNCHANGED <<owner, members, rows>>
    BY <1>4 DEF LinkBudget
  <1> QED
    BY <1>1, <1>2, <1>3, <1>4 DEF Next, Dies, Aborts, Tick, vars

(* One owner, nobody twice, and numbers that grow. *)
LEMMA MembershipStep ==
    ASSUME TypeOK, MembershipSound, RowsNumbered, RequestsHold, [Next]_vars
    PROVE  MembershipSound' /\ RowsNumbered'
  <1>0. rows \in Nat /\ \A m \in members : m.id \in Nat /\ m.user \in User
    BY GroupsAssumption DEF TypeOK, Member
  <1>1. ASSUME NEW u \in User, create_chama(u) PROVE MembershipSound' /\ RowsNumbered'
    <2> DEFINE new == [id |-> rows + 1, user |-> u, role |-> "owner"]
    <2>1. /\ owner' = u /\ rows' = rows + 1 /\ u # NoUser
          /\ members' = {new}
      BY <1>1, GroupsAssumption DEF create_chama, InsertMember, RowsNumbered
    <2>2. new.id = rows + 1 /\ new.user = u /\ new.role = "owner"
      OBVIOUS
    <2> HIDE DEF new
    <2> QED
      BY <1>0, <2>1, <2>2 DEF MembershipSound, RowsNumbered, IsMember
  <1>2. ASSUME NEW r \in Request, JoinCommits(r) PROVE MembershipSound' /\ RowsNumbered'
    <2>1. /\ owner # NoUser /\ req[r].user # owner
          /\ \A m \in members : m.user # req[r].user
      BY <1>2 DEF JoinCommits, RequestsHold, Holds, MembershipSound, IsMember
    <2> DEFINE new == [id |-> rows + 1, user |-> req[r].user, role |-> "member"]
    <2>2. /\ owner' = owner /\ rows' = rows + 1
          /\ members' = members \cup {new}
      BY <1>2 DEF JoinCommits, InsertMember
    <2>3. new.id = rows + 1 /\ new.user = req[r].user /\ new.role # "owner"
      OBVIOUS
    <2> HIDE DEF new
    <2>4. MembershipSound'
      BY <2>1, <2>2, <2>3 DEF MembershipSound, IsMember
    <2>5. RowsNumbered'
      BY <1>0, <2>1, <2>2, <2>3 DEF RowsNumbered
    <2> QED
      BY <2>4, <2>5
  <1>3. ASSUME NEW r \in Request, RemoveCommits(r) PROVE MembershipSound' /\ RowsNumbered'
    BY <1>3 DEF RemoveCommits, RequestsHold, Holds, MembershipSound, RowsNumbered, IsMember
  <1>4. CASE UNCHANGED <<owner, members, rows>>
    BY <1>4 DEF MembershipSound, RowsNumbered, IsMember
  <1> QED
    BY <1>1, <1>2, <1>3, <1>4, MembersWritten

-----------------------------------------------------------------------------
(* Requests *)

(* What a step may do to the rows that requests refer to. *)
LEMMA RowsStay ==
    ASSUME TypeOK, RowsNumbered, RequestsHold, MembershipSound, [Next]_vars
    PROVE  /\ owner # NoUser => owner' = owner
           /\ rows \in Nat /\ rows' \in Nat /\ rows <= rows'
           /\ \A m \in members' : m \in members \/ m.id > rows
           /\ \A p \in Project : project[p] # "none" => project'[p] # "none"
  <1>0. rows \in Nat
    BY GroupsAssumption DEF TypeOK
  <1>1. /\ owner # NoUser => owner' = owner
        /\ rows' \in Nat /\ rows <= rows'
        /\ \A m \in members' : m \in members \/ m.id > rows
    <2>1. ASSUME NEW u \in User, create_chama(u) PROVE <1>1!:
      BY <1>0, <2>1 DEF create_chama, InsertMember
    <2>2. ASSUME NEW r \in Request, JoinCommits(r) PROVE <1>1!:
      BY <1>0, <2>2 DEF JoinCommits, InsertMember
    <2>3. ASSUME NEW r \in Request, RemoveCommits(r) PROVE <1>1!:
      BY <1>0, <2>3 DEF RemoveCommits
    <2> QED
      BY <1>0, <2>1, <2>2, <2>3, MembersWritten
  <1>2. ASSUME NEW p \in Project, project[p] # "none" PROVE project'[p] # "none"
    <2>1. ASSUME NEW r \in Request, ChamaStep(r) PROVE project' = project
      BY <2>1 DEF ChamaStep, create_chama, JoinReads, leave_chama, remove_member, FindsMember,
         JoinCommits, JoinAborts, Aborts, RemoveCommits, regenerate_invite_code
    <2>2. ASSUME NEW r \in Request, ProjectStep(r) PROVE project'[p] # "none"
      <3>1. CASE UpdateCommits(r)
        BY <1>2, <3>1 DEF UpdateCommits, RequestsHold, Holds, TypeOK, ProjectStatus
      <3>2. ASSUME NEW q \in Project, create_chama_project(q) PROVE project'[p] # "none"
        BY <1>2, <3>2 DEF create_chama_project, TypeOK
      <3>3. CASE DeleteCommits(r)
        BY <1>2, <3>3 DEF DeleteCommits, TypeOK
      <3> QED
        BY <1>2, <2>2, <3>1, <3>2, <3>3 DEF ProjectStep, DeleteReads, UpdateReads, UpdateAborts,
           DeleteUnlinks, DeleteAborts, Aborts
    <2>3. ASSUME NEW r \in Request, ContributeStep(r) PROVE project' = project
      BY <2>3 DEF ContributeStep, PassGate, InsertContribution, InsertAborts, Aborts
    <2> QED
      BY <1>2, <2>1, <2>2, <2>3 DEF Next, Dies, Aborts, LinkBudget, Tick, vars
  <1> QED
    BY <1>0, <1>1, <1>2

(* The requests that did not take the step hold what they held. *)
LEMMA OthersHold ==
    ASSUME TypeOK, NEW r \in Request,
           ChamaStep(r) \/ ProjectStep(r) \/ ContributeStep(r) \/ Dies(r)
    PROVE  \A q \in Request \ {r} : req'[q] = req[q]
  <1>1. CASE ChamaStep(r)
    BY <1>1 DEF ChamaStep, create_chama, JoinReads, leave_chama, remove_member, FindsMember,
       JoinCommits, JoinAborts, Aborts, RemoveCommits, regenerate_invite_code, Begins, Ends, TypeOK
  <1>2. CASE ProjectStep(r)
    BY <1>2 DEF ProjectStep, create_chama_project, DeleteReads, UpdateReads, UpdateCommits,
       UpdateAborts, DeleteUnlinks, DeleteCommits, DeleteAborts, Aborts, Begins, Ends, TypeOK
  <1>3. CASE ContributeStep(r)
    BY <1>3 DEF ContributeStep, PassGate, InsertContribution, InsertAborts, Aborts, Begins, Ends, TypeOK
  <1>4. CASE Dies(r)
    BY <1>4 DEF Dies, Aborts, Ends, TypeOK
  <1> QED
    BY <1>1, <1>2, <1>3, <1>4

LEMMA StillHolds ==
    ASSUME TypeOK, RowsNumbered, RequestsHold, MembershipSound, [Next]_vars
    PROVE  \A h : Holds(h) => Holds(h)'
  <1>1. \A m \in members : m.id \in Nat
    BY DEF TypeOK, Member
  <1> QED
    BY <1>1, RowsStay DEF Holds

(* What a step leaves in the hands of the request that took it. *)
LEMMA NewHolds ==
    ASSUME TypeOK, RowsNumbered, RequestsHold, MembershipSound, [Next]_vars,
           NEW r \in Request,
           ChamaStep(r) \/ ProjectStep(r) \/ ContributeStep(r) \/ Dies(r)
    PROVE  Holds(req[r])'
  <1> USE DEF TypeOK
  <1>0. ~(Idle.op \in {"join", "remove", "update", "delete", "unlinked", "contribute"})
    BY DEF Idle
  <1>1. ASSUME req'[r] = req[r] PROVE Holds(req[r])'
    BY <1>1, StillHolds DEF RequestsHold, Holds
  <1>2. ASSUME req'[r] = Idle PROVE Holds(req[r])'
    BY <1>0, <1>2 DEF Holds
  <1>3. CASE ChamaStep(r)
    <2>1. ASSUME NEW u \in User, NEW k \in 0..MaxCode, JoinReads(r, u, k)
          PROVE  Holds(req[r])'
      BY <2>1 DEF JoinReads, Begins, Holds, Idle
    <2>2. ASSUME NEW m \in members, NEW u, FindsMember(r, u, m) PROVE Holds(req[r])'
      <3>1. /\ req'[r].op = "remove" /\ req'[r].row = m.id
            /\ owner' = owner /\ members' = members /\ rows' = rows /\ m.user # owner
        BY <2>2 DEF FindsMember, Begins, Idle
      <3>2. m.id \in 1..rows /\ owner # NoUser
        BY GroupsAssumption DEF RowsNumbered, Member
      <3> QED
        BY <3>1, <3>2 DEF Holds, RowsNumbered
    <2> QED
      BY <1>1, <1>2, <1>3, <2>1, <2>2 DEF ChamaStep, create_chama, leave_chama, remove_member,
         JoinCommits, JoinAborts, Aborts, RemoveCommits, regenerate_invite_code, Ends
  <1>4. CASE ProjectStep(r)
    <2>1. ASSUME NEW p \in Project, DeleteReads(r, p) PROVE Holds(req[r])'
      BY <2>1 DEF DeleteReads, Begins, Holds, Idle, Exists, ProjectStatus
    <2>2. ASSUME NEW p \in Project, NEW s \in ProjectStatus, UpdateReads(r, p, s)
          PROVE  Holds(req[r])'
      BY <2>2 DEF UpdateReads, Begins, Holds, Idle, Exists, ProjectStatus
    <2>3. CASE DeleteUnlinks(r)
      <3>1. /\ req'[r].op = "unlinked" /\ req'[r].project = req[r].project
            /\ project' = project /\ req[r].op = "delete"
        BY <2>3 DEF DeleteUnlinks
      <3> QED
        BY <3>1 DEF RequestsHold, Holds
    <2> QED
      BY <1>1, <1>2, <1>4, <2>1, <2>2, <2>3 DEF ProjectStep, create_chama_project, UpdateCommits,
         UpdateAborts, DeleteCommits, DeleteAborts, Aborts, Ends
  <1>5. CASE ContributeStep(r)
    <2>1. ASSUME NEW u \in User, NEW p \in Project, PassGate(r, u, p) PROVE Holds(req[r])'
      BY <2>1 DEF PassGate, Begins, Holds, Idle
    <2> QED
      BY <1>2, <1>5, <2>1 DEF ContributeStep, InsertContribution, InsertAborts, Aborts, Ends
  <1>6. CASE Dies(r)
    BY <1>2, <1>6 DEF Dies, Aborts, Ends
  <1> QED
    BY <1>3, <1>4, <1>5, <1>6

LEMMA RequestsStep ==
    ASSUME TypeOK, RowsNumbered, RequestsHold, MembershipSound, [Next]_vars
    PROVE  RequestsHold'
  <1> SUFFICES ASSUME NEW q \in Request PROVE Holds(req[q])'
    BY DEF RequestsHold
  <1>1. ASSUME req'[q] = req[q] PROVE Holds(req[q])'
    BY <1>1, StillHolds DEF RequestsHold, Holds
  <1>2. ASSUME NEW r \in Request,
               ChamaStep(r) \/ ProjectStep(r) \/ ContributeStep(r) \/ Dies(r)
        PROVE  Holds(req[q])'
    BY <1>1, <1>2, NewHolds, OthersHold
  <1>3. ASSUME req' = req PROVE Holds(req[q])'
    BY <1>1, <1>3
  <1> QED
    BY <1>2, <1>3 DEF Next, LinkBudget, Tick, vars

-----------------------------------------------------------------------------
(* References *)

(* What a deletion has set to NULL, and all else that it leaves, refers to   *)
(* another project.                                                         *)
LEMMA ReferencesStep ==
    ASSUME TypeOK, RequestsHold, ReferencesHold, [Next]_vars
    PROVE  ReferencesHold'
  <1> USE DEF TypeOK
  <1>1. CASE UNCHANGED <<project, linked, contributions>>
    BY <1>1 DEF ReferencesHold, Exists
  <1>2. ASSUME NEW r \in Request, ChamaStep(r) PROVE ReferencesHold'
    BY <1>1, <1>2 DEF ChamaStep, create_chama, JoinReads, leave_chama, remove_member,
       FindsMember, JoinCommits, JoinAborts, Aborts, RemoveCommits, regenerate_invite_code
  <1>3. ASSUME NEW r \in Request, ProjectStep(r) PROVE ReferencesHold'
    <2>1. ASSUME NEW p \in Project, create_chama_project(p) PROVE ReferencesHold'
      BY <2>1 DEF create_chama_project, ReferencesHold, Exists, ProjectStatus, ContributionRow
    <2>2. CASE UpdateCommits(r)
      BY <2>2 DEF UpdateCommits, ReferencesHold, Exists, ContributionRow, RequestsHold, Holds
    <2>3. CASE DeleteCommits(r)
      <3> DEFINE p == req[r].project
      <3>1. /\ \A k \in contributions : k.project # p
            /\ \A b \in Budget : linked[b] = p => b \in req[r].nulled
        BY <2>3 DEF DeleteCommits, Unreferenced, HasPayments
      <3>2. \A x \in Project \ {p} : Exists(x)' <=> Exists(x)
        BY <2>3 DEF DeleteCommits, Exists
      <3>3. contributions' = contributions
        BY <2>3 DEF DeleteCommits
      <3>4. \A b \in Budget : linked'[b] # NoProject => linked'[b] = linked[b] /\ linked[b] # p
        BY <2>3, <3>1 DEF DeleteCommits
      <3> QED
        BY <3>1, <3>2, <3>3, <3>4 DEF ReferencesHold, ContributionRow
    <2> QED
      BY <1>1, <1>3, <2>1, <2>2, <2>3 DEF ProjectStep, DeleteReads, UpdateReads, UpdateAborts,
         DeleteUnlinks, DeleteAborts, Aborts
  <1>4. ASSUME NEW r \in Request, ContributeStep(r) PROVE ReferencesHold'
    <2>1. ASSUME NEW id \in Contribution, InsertContribution(r, id) PROVE ReferencesHold'
      BY <2>1 DEF InsertContribution, ReferencesHold, Exists
    <2> QED
      BY <1>1, <1>4, <2>1 DEF ContributeStep, PassGate, InsertAborts, Aborts
  <1>5. ASSUME NEW b \in Budget, NEW p \in Project \cup {NoProject}, LinkBudget(b, p)
        PROVE  ReferencesHold'
    BY <1>5 DEF LinkBudget, ReferencesHold, Exists
  <1> QED
    BY <1>1, <1>2, <1>3, <1>4, <1>5 DEF Next, Dies, Aborts, Tick, vars

-----------------------------------------------------------------------------
(* The gate and the daily cap *)

(* A step that neither passes the gate nor inserts. *)
GateKept ==
    /\ \A q \in Request : req'[q].op = "contribute" => req'[q] = req[q]
    /\ contributions' = contributions /\ now <= now'

LEMMA GateWritten ==
    ASSUME TypeOK, [Next]_vars
    PROVE  \/ \E r \in Request, u \in User, p \in Project : PassGate(r, u, p)
           \/ \E r \in Request, id \in Contribution : InsertContribution(r, id)
           \/ \E r \in Request : InsertAborts(r)
           \/ GateKept
  <1> USE DEF TypeOK
  <1>0. now \in Nat /\ Idle.op # "contribute"
    BY GroupsAssumption DEF Idle
  <1>1. ASSUME NEW r \in Request, ChamaStep(r) PROVE GateKept
    <2>1. CASE \E u \in User : create_chama(u)
      BY <1>0, <2>1 DEF create_chama, InsertMember, GateKept
    <2>2. ASSUME NEW u \in User, NEW k \in 0..MaxCode, JoinReads(r, u, k) PROVE GateKept
      BY <1>0, <2>2 DEF JoinReads, Begins, Idle, GateKept
    <2>3. ASSUME NEW m \in members, NEW u, FindsMember(r, u, m) PROVE GateKept
      BY <1>0, <2>3 DEF FindsMember, Begins, Idle, GateKept
    <2>4. CASE JoinCommits(r) \/ RemoveCommits(r)
      BY <1>0, <2>4 DEF JoinCommits, RemoveCommits, Ends, GateKept
    <2>5. CASE JoinAborts(r) \/ regenerate_invite_code
      BY <1>0, <2>5 DEF JoinAborts, Aborts, Ends, regenerate_invite_code, GateKept
    <2> QED
      BY <1>1, <2>1, <2>2, <2>3, <2>4, <2>5 DEF ChamaStep, leave_chama, remove_member
  <1>2. ASSUME NEW r \in Request, ProjectStep(r) PROVE GateKept
    <2>1. ASSUME NEW p \in Project, create_chama_project(p) PROVE GateKept
      BY <1>0, <2>1 DEF create_chama_project, GateKept
    <2>2. ASSUME NEW p \in Project, DeleteReads(r, p) PROVE GateKept
      BY <1>0, <2>2 DEF DeleteReads, Begins, Idle, GateKept
    <2>3. ASSUME NEW p \in Project, NEW s \in ProjectStatus, UpdateReads(r, p, s) PROVE GateKept
      BY <1>0, <2>3 DEF UpdateReads, Begins, Idle, GateKept
    <2>4. CASE UpdateCommits(r) \/ DeleteCommits(r)
      BY <1>0, <2>4 DEF UpdateCommits, DeleteCommits, Ends, GateKept
    <2>5. CASE UpdateAborts(r) \/ DeleteAborts(r)
      BY <1>0, <2>5 DEF UpdateAborts, DeleteAborts, Aborts, Ends, GateKept
    <2>6. CASE DeleteUnlinks(r)
      <3>1. PICK links \in SUBSET Budget :
               req' = [req EXCEPT ![r] = [req[r] EXCEPT !.op = "unlinked", !.nulled = links]]
        BY <2>6 DEF DeleteUnlinks
      <3> DEFINE h == [req[r] EXCEPT !.op = "unlinked", !.nulled = links]
      <3>2. h.op = "unlinked"
        OBVIOUS
      <3>3. req' = [req EXCEPT ![r] = h]
        BY <3>1
      <3> HIDE DEF h
      <3>4. UNCHANGED <<owner, members, rows, invite_code, project, linked, trail, contributions,
                        audit, now>>
        BY <2>6 DEF DeleteUnlinks
      <3>5. \A q \in Request : req'[q].op = "contribute" => req'[q] = req[q]
        BY <3>2, <3>3
      <3> QED
        BY <1>0, <3>4, <3>5 DEF GateKept
    <2> QED
      BY <1>2, <2>1, <2>2, <2>3, <2>4, <2>5, <2>6 DEF ProjectStep
  <1>3. ASSUME NEW b \in Budget, NEW p \in Project \cup {NoProject}, LinkBudget(b, p)
        PROVE  GateKept
    BY <1>0, <1>3 DEF LinkBudget, GateKept
  <1>4. CASE Tick \/ UNCHANGED vars
    BY <1>0, <1>4 DEF Tick, vars, GateKept
  <1>5. ASSUME NEW r \in Request, Dies(r) PROVE GateKept
    BY <1>0, <1>5 DEF Dies, Aborts, Ends, GateKept
  <1> QED
    BY <1>1, <1>2, <1>3, <1>4, <1>5 DEF Next, ContributeStep

(* Recent contributions do not increase but by an insertion. *)
LEMMA RecentShrinks ==
    ASSUME TypeOK, ContributionsCounted, NEW u,
           contributions' = contributions, now <= now', now' \in Nat
    PROVE  UnderDailyCap(u) => UnderDailyCap(u)'
  <1>1. now \in Nat /\ Day \in Nat /\ \A k \in contributions : k.at \in Nat
    BY GroupsAssumption DEF TypeOK, ContributionRow
  <1>2. Recent(u)' \subseteq Recent(u)
    BY <1>1 DEF Recent
  <1>3. IsFiniteSet(Recent(u))
    BY FS_Subset DEF ContributionsCounted, Recent
  <1>4. Cardinality(Recent(u)') <= Cardinality(Recent(u))
    BY <1>2, <1>3, FS_Subset
  <1>5. Cardinality(Recent(u)') \in Nat /\ Cardinality(Recent(u)) \in Nat
    BY <1>2, <1>3, FS_Subset, FS_CardinalityType
  <1> QED
    BY <1>4, <1>5, GroupsAssumption DEF UnderDailyCap

(* One coroutine at a time is past the gate, and the cap allows it one more. *)
LEMMA GateStep ==
    ASSUME TypeOK, TypeOK', ContributionsCounted, RequestsHold, GateHolds, [Next]_vars
    PROVE  GateHolds'
  <1> USE DEF TypeOK
  <1>0. now \in Nat /\ now' \in Nat /\ Idle.op # "contribute"
    BY GroupsAssumption DEF Idle
  <1>1. ASSUME NEW r \in Request, NEW u \in User, NEW p \in Project, PassGate(r, u, p)
        PROVE  GateHolds'
    <2>1. /\ req'[r].user = u
          /\ \A q \in Request \ {r} : req'[q] = req[q] /\ req[q].op # "contribute"
      BY <1>1 DEF PassGate, Begins, Idle, Contributing
    <2>2. UnderDailyCap(u)'
      BY <1>1 DEF PassGate, UnderDailyCap, Recent
    <2> QED
      BY <2>1, <2>2 DEF GateHolds
  <1>2. ASSUME NEW r \in Request,
               (\E id \in Contribution : InsertContribution(r, id)) \/ InsertAborts(r)
        PROVE  GateHolds'
    <2>1. \A q \in Request : req'[q].op # "contribute"
      BY <1>0, <1>2 DEF InsertContribution, InsertAborts, Aborts, Ends, GateHolds
    <2> QED
      BY <2>1 DEF GateHolds
  <1>3. CASE GateKept
    <2>1. \A q \in Request : req'[q].op = "contribute" => req'[q] = req[q]
      BY <1>3 DEF GateKept
    <2>2. \A u : UnderDailyCap(u) => UnderDailyCap(u)'
      BY <1>0, <1>3, RecentShrinks DEF GateKept
    <2> QED
      BY <2>1, <2>2 DEF GateHolds
  <1> QED
    BY <1>1, <1>2, <1>3, GateWritten

(* The contributions that share a window of 24 hours with a new one are      *)
(* those that the gate counted.                                             *)
LEMMA CapStep ==
    ASSUME TypeOK, ContributionsCounted, RequestsHold, GateHolds, DailyCapHolds, [Next]_vars
    PROVE  DailyCapHolds' /\ ContributionsCounted'
  <1>0. /\ now \in Nat /\ Day \in Nat /\ DAILY_CONTRIBUTION_CAP \in Nat
        /\ \A k \in contributions : k.at \in Nat
    BY GroupsAssumption DEF TypeOK, ContributionRow
  <1>1. CASE contributions' = contributions
    BY <1>1 DEF DailyCapHolds, ContributionsCounted
  <1>2. ASSUME NEW r \in Request, NEW id \in Contribution, InsertContribution(r, id)
        PROVE  DailyCapHolds' /\ ContributionsCounted'
    <2> DEFINE new == [id |-> id, payer |-> req[r].user, project |-> req[r].project, at |-> now]
               W(u, a) == {k \in contributions : k.payer = u /\ k.at \in a..(a + Day)}
    <2>1. contributions' = contributions \cup {new}
      BY <1>2 DEF InsertContribution
    <2>2. new.payer = req[r].user /\ new.at = now
      OBVIOUS
    <2>3. UnderDailyCap(req[r].user)
      BY <1>2 DEF GateHolds, InsertContribution
    <2> HIDE DEF new
    <2>4. ContributionsCounted'
      BY <2>1, FS_AddElement DEF ContributionsCounted
    <2>5. ASSUME NEW u \in User, NEW a \in 0..MaxNow
          PROVE  Cardinality(W(u, a)') <= DAILY_CONTRIBUTION_CAP
      <3>1. CASE new.payer # u \/ ~(new.at \in a..(a + Day))
        <4>1. W(u, a)' = W(u, a)
          BY <2>1, <3>1
        <4> QED
          BY <4>1 DEF DailyCapHolds
      <3>2. CASE new.payer = u /\ new.at \in a..(a + Day)
        <4>1. W(u, a)' \subseteq Recent(u) \cup {new}
          BY <1>0, <2>1, <2>2, <3>2 DEF Recent
        <4>2. IsFiniteSet(Recent(u))
          BY FS_Subset DEF ContributionsCounted, Recent
        <4>3. /\ IsFiniteSet(Recent(u) \cup {new})
              /\ Cardinality(Recent(u)) \in Nat
              /\ Cardinality(Recent(u) \cup {new}) <= Cardinality(Recent(u)) + 1
          <5> DEFINE R == Recent(u)
          <5>1. IsFiniteSet(R) /\ Cardinality(R) \in Nat
            BY <4>2, FS_CardinalityType
          <5> HIDE DEF R
          <5>2. /\ IsFiniteSet(R \cup {new})
                /\ Cardinality(R \cup {new}) =
                     IF new \in R THEN Cardinality(R) ELSE Cardinality(R) + 1
            BY <5>1, FS_AddElement
          <5>3. Cardinality(R \cup {new}) <= Cardinality(R) + 1
            BY <5>1, <5>2
          <5> QED
            BY <5>1, <5>2, <5>3 DEF R
        <4>4. /\ Cardinality(W(u, a)') <= Cardinality(Recent(u) \cup {new})
              /\ Cardinality(W(u, a)') \in Nat /\ Cardinality(Recent(u) \cup {new}) \in Nat
          BY <4>1, <4>3, FS_Subset, FS_CardinalityType
        <4>5. Cardinality(Recent(u)) < DAILY_CONTRIBUTION_CAP
          BY <2>2, <2>3, <3>2 DEF UnderDailyCap
        <4> QED
          BY <1>0, <4>3, <4>4, <4>5
      <3> QED
        BY <3>1, <3>2
    <2> QED
      BY <2>4, <2>5 DEF DailyCapHolds
  <1>3. ASSUME NEW r \in Request, InsertAborts(r) \/ \E u \in User, p \in Project : PassGate(r, u, p)
        PROVE  contributions' = contributions
    BY <1>3 DEF InsertAborts, Aborts, PassGate
  <1> QED
    BY <1>1, <1>2, <1>3, GateWritten DEF GateKept

-----------------------------------------------------------------------------
(* The audit trail *)

(* Whoever changes a row also writes the audit trail. *)
LEMMA AuditWritten ==
    ASSUME [Next]_vars
    PROVE  \/ \E u \in User : create_chama(u)
           \/ \E r \in Request : JoinCommits(r) \/ RemoveCommits(r)
           \/ \E p \in Project : create_chama_project(p)
           \/ \E r \in Request : UpdateCommits(r) \/ DeleteCommits(r)
           \/ \E r \in Request, id \in Contribution : InsertContribution(r, id)
           \/ regenerate_invite_code
           \/ UNCHANGED <<members, rows, project, contributions, audit>>
  <1>1. ASSUME NEW r \in Request, ChamaStep(r)
        PROVE  \/ \E u \in User : create_chama(u)
               \/ JoinCommits(r) \/ RemoveCommits(r) \/ regenerate_invite_code
               \/ UNCHANGED <<members, rows, project, contributions, audit>>
    BY <1>1 DEF ChamaStep, JoinReads, leave_chama, remove_member, FindsMember, JoinAborts, Aborts
  <1>2. ASSUME NEW r \in Request, ProjectStep(r)
        PROVE  \/ \E p \in Project : create_chama_project(p)
               \/ UpdateCommits(r) \/ DeleteCommits(r)
               \/ UNCHANGED <<members, rows, project, contributions, audit>>
    BY <1>2 DEF ProjectStep, DeleteReads, UpdateReads, UpdateAborts, DeleteUnlinks,
       DeleteAborts, Aborts
  <1>3. ASSUME NEW r \in Request, ContributeStep(r)
        PROVE  \/ \E id \in Contribution : InsertContribution(r, id)
               \/ UNCHANGED <<members, rows, project, contributions, audit>>
    BY <1>3 DEF ContributeStep, PassGate, InsertAborts, Aborts
  <1>4. ASSUME NEW b \in Budget, NEW p \in Project \cup {NoProject}, LinkBudget(b, p)
        PROVE  UNCHANGED <<members, rows, project, contributions, audit>>
    BY <1>4 DEF LinkBudget
  <1> QED
    BY <1>1, <1>2, <1>3, <1>4 DEF Next, Dies, Aborts, Tick, vars

(* The trail of each table, as AuditExplainsRows and RecordsFollow have it. *)
MembersRecorded ==
    \A i \in 1..MaxRows :
        /\ (\E m \in members : m.id = i) <=>
              On("created", "chama_members", i) /\ ~On("deleted", "chama_members", i)
        /\ i > rows =>
              ~On("created", "chama_members", i) /\ ~On("deleted", "chama_members", i)

ProjectsRecorded ==
    \A p \in Project :
        /\ Exists(p) <=> On("created", "projects", p) /\ ~On("deleted", "projects", p)
        /\ Exists(p) /\ project[p] # "active" => On("updated", "projects", p)
        /\ project[p] = "none" =>
              ~On("created", "projects", p) /\ ~On("deleted", "projects", p)

ContributionsRecorded ==
    \A c \in Contribution :
        (\E k \in contributions : k.id = c) <=> On("created", "contributions", c)

LinksRecorded ==
    \A b \in Budget :
        /\ linked[b] = LinkOnRecord(b)
        /\ trail[b] # NoProject => project[trail[b]] # "none"

LEMMA Recorded ==
    MembersRecorded /\ ProjectsRecorded /\ ContributionsRecorded /\ LinksRecorded
        <=> AuditExplainsRows /\ RecordsFollow
  BY DEF MembersRecorded, ProjectsRecorded, ContributionsRecorded, LinksRecorded,
     AuditExplainsRows, RecordsFollow

(* A capture adds to the trail of its own table alone. *)
LEMMA Captured ==
    ASSUME NEW action, NEW table, NEW entity, capture_changes(action, table, entity)
    PROVE  \A a, t, e : On(a, t, e)' <=>
               On(a, t, e) \/ (a = action /\ t = table /\ e = entity)
  BY DEF capture_changes, On

(* The rows of chama_members and their trail. *)
LEMMA MembersRecordedStep ==
    ASSUME TypeOK, RowsNumbered, RequestsHold, MembersRecorded, [Next]_vars
    PROVE  MembersRecorded'
  <1>0. rows \in Nat /\ \A m \in members : m.id \in Nat /\ m.id <= rows
    BY GroupsAssumption DEF TypeOK, Member, RowsNumbered
  <1>1. ASSUME NEW u, NEW role, InsertMember(u, role) PROVE MembersRecorded'
    <2> DEFINE new == [id |-> rows + 1, user |-> u, role |-> role]
    <2>1. members' = members \cup {new} /\ rows' = rows + 1
      BY <1>1 DEF InsertMember
    <2>2. new.id = rows + 1
      OBVIOUS
    <2> HIDE DEF new
    <2>3. \A i : /\ On("created", "chama_members", i)' <=>
                      On("created", "chama_members", i) \/ i = rows + 1
                 /\ On("deleted", "chama_members", i)' <=> On("deleted", "chama_members", i)
      BY <1>1, Captured DEF InsertMember
    <2> QED
      BY <1>0, <2>1, <2>2, <2>3 DEF MembersRecorded
  <1>2. ASSUME NEW r \in Request, RemoveCommits(r) PROVE MembersRecorded'
    <2>1. members' = {m \in members : m.id # req[r].row} /\ rows' = rows
      BY <1>2 DEF RemoveCommits
    <2>2. \A i : /\ On("created", "chama_members", i)' <=> On("created", "chama_members", i)
                 /\ On("deleted", "chama_members", i)' <=>
                      On("deleted", "chama_members", i) \/ i = req[r].row
      BY <1>2, Captured DEF RemoveCommits
    <2>3. req[r].row \in 1..rows
      BY <1>2 DEF RemoveCommits, RequestsHold, Holds
    <2> QED
      BY <1>0, <2>1, <2>2, <2>3 DEF MembersRecorded
  <1>3. ASSUME UNCHANGED <<members, rows>>,
               \A i : /\ On("created", "chama_members", i)' <=> On("created", "chama_members", i)
                      /\ On("deleted", "chama_members", i)' <=> On("deleted", "chama_members", i)
        PROVE  MembersRecorded'
    BY <1>3 DEF MembersRecorded
  <1>4. ASSUME UNCHANGED <<members, rows>>, NEW action, NEW table, NEW entity,
               table # "chama_members", capture_changes(action, table, entity)
        PROVE  MembersRecorded'
    BY <1>3, <1>4, Captured
  <1>5. CASE UNCHANGED <<members, rows, audit>>
    BY <1>3, <1>5 DEF On
  <1> QED
    BY <1>1, <1>2, <1>4, <1>5, AuditWritten DEF create_chama, JoinCommits, create_chama_project,
       UpdateCommits, DeleteCommits, InsertContribution, regenerate_invite_code

(* The rows of projects and their trail. *)
LEMMA ProjectsRecordedStep ==
    ASSUME TypeOK, RequestsHold, ProjectsRecorded, [Next]_vars
    PROVE  ProjectsRecorded'
  <1>1. ASSUME NEW q \in Project, NEW s, NEW action, project' = [project EXCEPT ![q] = s],
               capture_changes(action, "projects", q),
               \/ action = "created" /\ project[q] = "none" /\ s = "active"
               \/ action = "updated" /\ Exists(q) /\ s \in ProjectStatus
               \/ action = "deleted" /\ project[q] # "none" /\ s = "deleted"
        PROVE  ProjectsRecorded'
    <2> SUFFICES ASSUME NEW p \in Project
                 PROVE  /\ Exists(p)' <=> On("created", "projects", p)' /\ ~On("deleted", "projects", p)'
                        /\ Exists(p)' /\ project'[p] # "active" => On("updated", "projects", p)'
                        /\ project'[p] = "none" =>
                             ~On("created", "projects", p)' /\ ~On("deleted", "projects", p)'
      BY DEF ProjectsRecorded
    <2>1. \A a : On(a, "projects", p)' <=> On(a, "projects", p) \/ (a = action /\ p = q)
      BY <1>1, Captured
    <2>2. project'[p] = IF p = q THEN s ELSE project[p]
      BY <1>1 DEF TypeOK
    <2>3. CASE p # q
      BY <2>1, <2>2, <2>3 DEF ProjectsRecorded, Exists
    <2>4. CASE p = q
      BY <1>1, <2>1, <2>2, <2>4 DEF ProjectsRecorded, Exists, ProjectStatus
    <2> QED
      BY <2>3, <2>4
  <1>2. ASSUME UNCHANGED project, \A a, p : On(a, "projects", p)' <=> On(a, "projects", p)
        PROVE  ProjectsRecorded'
    BY <1>2 DEF ProjectsRecorded, Exists
  <1>3. ASSUME UNCHANGED project, NEW action, NEW table, NEW entity,
               table # "projects", capture_changes(action, table, entity)
        PROVE  ProjectsRecorded'
    BY <1>2, <1>3, Captured
  <1>4. CASE UNCHANGED <<project, audit>>
    BY <1>2, <1>4 DEF On
  <1>5. ASSUME NEW p \in Project, create_chama_project(p) PROVE ProjectsRecorded'
    BY <1>1, <1>5 DEF create_chama_project
  <1>6. ASSUME NEW r \in Request, UpdateCommits(r) \/ DeleteCommits(r) PROVE ProjectsRecorded'
    BY <1>1, <1>6 DEF UpdateCommits, DeleteCommits, RequestsHold, Holds
  <1>7. ASSUME NEW r \in Request, JoinCommits(r) \/ RemoveCommits(r) PROVE ProjectsRecorded'
    BY <1>3, <1>7 DEF JoinCommits, RemoveCommits, InsertMember
  <1>8. ASSUME NEW u \in User, create_chama(u) PROVE ProjectsRecorded'
    BY <1>3, <1>8 DEF create_chama, InsertMember
  <1>9. ASSUME NEW r \in Request, NEW id \in Contribution, InsertContribution(r, id)
        PROVE  ProjectsRecorded'
    BY <1>3, <1>9 DEF InsertContribution
  <1>10. CASE regenerate_invite_code
    BY <1>3, <1>10 DEF regenerate_invite_code
  <1> QED
    BY <1>4, <1>5, <1>6, <1>7, <1>8, <1>9, <1>10, AuditWritten

(* The rows of contributions and their trail. *)
LEMMA ContributionsRecordedStep ==
    ASSUME ContributionsRecorded, [Next]_vars
    PROVE  ContributionsRecorded'
  <1>1. ASSUME NEW r \in Request, NEW id \in Contribution, InsertContribution(r, id)
        PROVE  ContributionsRecorded'
    <2> DEFINE new == [id |-> id, payer |-> req[r].user, project |-> req[r].project, at |-> now]
    <2>1. contributions' = contributions \cup {new}
      BY <1>1 DEF InsertContribution
    <2>2. new.id = id
      OBVIOUS
    <2> HIDE DEF new
    <2>3. \A c : On("created", "contributions", c)' <=>
                    On("created", "contributions", c) \/ c = id
      BY <1>1, Captured DEF InsertContribution
    <2> QED
      BY <2>1, <2>2, <2>3 DEF ContributionsRecorded
  <1>2. ASSUME UNCHANGED contributions, NEW action, NEW table, NEW entity,
               table # "contributions", capture_changes(action, table, entity)
        PROVE  ContributionsRecorded'
    <2>1. \A c : On("created", "contributions", c)' <=> On("created", "contributions", c)
      BY <1>2, Captured
    <2> QED
      BY <1>2, <2>1 DEF ContributionsRecorded
  <1>3. CASE UNCHANGED <<contributions, audit>>
    BY <1>3 DEF ContributionsRecorded, On
  <1> QED
    BY <1>1, <1>2, <1>3, AuditWritten DEF create_chama, InsertMember, JoinCommits, RemoveCommits,
       create_chama_project, UpdateCommits, DeleteCommits, regenerate_invite_code

(* A step that neither links a budget nor deletes a project. *)
LinksKept ==
    /\ UNCHANGED <<linked, trail>>
    /\ \A p \in Project : project[p] # "none" =>
          project'[p] # "none" /\ (Exists(p)' <=> Exists(p))
    /\ \A q \in Request : req'[q] = req[q] \/ req'[q].nulled = {}

LEMMA LinksWritten ==
    ASSUME TypeOK, RequestsHold, [Next]_vars
    PROVE  \/ \E r \in Request : DeleteUnlinks(r) \/ DeleteCommits(r)
           \/ \E b \in Budget, p \in Project \cup {NoProject} : LinkBudget(b, p)
           \/ LinksKept
  <1> USE DEF TypeOK
  <1>0. Idle.nulled = {}
    BY DEF Idle
  <1>1. ASSUME UNCHANGED <<linked, trail, project>>,
               \A q \in Request : req'[q] = req[q] \/ req'[q].nulled = {}
        PROVE  LinksKept
    BY <1>1 DEF LinksKept, Exists
  <1>6. ASSUME NEW r \in Request, NEW h, h.nulled = {}, req' = [req EXCEPT ![r] = h]
        PROVE  \A q \in Request : req'[q] = req[q] \/ req'[q].nulled = {}
    BY <1>6
  <1>2. ASSUME NEW r \in Request, ChamaStep(r) PROVE LinksKept
    <2>1. UNCHANGED <<linked, trail, project>>
      BY <1>2 DEF ChamaStep, create_chama, JoinReads, leave_chama, remove_member, FindsMember,
         JoinCommits, JoinAborts, Aborts, RemoveCommits, regenerate_invite_code
    <2>2. \A q \in Request : req'[q] = req[q] \/ req'[q].nulled = {}
      <3>1. ASSUME NEW u \in User, NEW k \in 0..MaxCode, JoinReads(r, u, k) PROVE <2>2!:
        BY <1>6, <3>1 DEF JoinReads, Begins, Idle
      <3>2. ASSUME NEW m \in members, NEW u, FindsMember(r, u, m) PROVE <2>2!:
        BY <1>6, <3>2 DEF FindsMember, Begins, Idle
      <3>3. ASSUME Ends(r) PROVE <2>2!:
        BY <1>0, <1>6, <3>3 DEF Ends
      <3> QED
        BY <1>2, <3>1, <3>2, <3>3 DEF ChamaStep, create_chama, leave_chama, remove_member,
           JoinCommits, JoinAborts, Aborts, RemoveCommits, regenerate_invite_code
    <2> QED
      BY <1>1, <2>1, <2>2
  <1>3. ASSUME NEW r \in Request, ProjectStep(r), ~DeleteUnlinks(r), ~DeleteCommits(r)
        PROVE  LinksKept
    <2>1. ASSUME NEW p \in Project, create_chama_project(p) PROVE LinksKept
      BY <2>1 DEF create_chama_project, LinksKept, Exists
    <2>2. ASSUME NEW p \in Project, DeleteReads(r, p) \/ \E s \in ProjectStatus : UpdateReads(r, p, s)
          PROVE  LinksKept
      <3>1. \A q \in Request : req'[q] = req[q] \/ req'[q].nulled = {}
        BY <1>6, <2>2 DEF DeleteReads, UpdateReads, Begins, Idle
      <3> QED
        BY <1>1, <2>2, <3>1 DEF DeleteReads, UpdateReads
    <2>3. CASE UpdateCommits(r)
      BY <1>0, <2>3 DEF UpdateCommits, Ends, LinksKept, Exists, RequestsHold, Holds, ProjectStatus
    <2>4. CASE UpdateAborts(r) \/ DeleteAborts(r)
      BY <1>0, <1>1, <2>4 DEF UpdateAborts, DeleteAborts, Aborts, Ends
    <2> QED
      BY <1>3, <2>1, <2>2, <2>3, <2>4 DEF ProjectStep
  <1>4. ASSUME NEW r \in Request, ContributeStep(r) \/ Dies(r) PROVE LinksKept
    <2>1. \A q \in Request : req'[q] = req[q] \/ req'[q].nulled = {}
      <3>1. ASSUME NEW u \in User, NEW p \in Project, PassGate(r, u, p) PROVE <2>1!:
        BY <1>6, <3>1 DEF PassGate, Begins, Idle
      <3>2. ASSUME Ends(r) PROVE <2>1!:
        BY <1>0, <1>6, <3>2 DEF Ends
      <3> QED
        BY <1>4, <3>1, <3>2 DEF ContributeStep, InsertContribution, InsertAborts, Dies, Aborts
    <2> QED
      BY <1>1, <1>4, <2>1 DEF ContributeStep, PassGate, InsertContribution, InsertAborts, Dies,
         Aborts
  <1>5. CASE Tick \/ UNCHANGED vars
    BY <1>1, <1>5 DEF Tick, vars
  <1> QED
    BY <1>2, <1>3, <1>4, <1>5 DEF Next

(* The links of budgets and their trail: the bulk UPDATE of a deletion, which *)
(* is on no record, is explained by the deletion.                           *)
LEMMA LinksRecordedStep ==
    ASSUME TypeOK, RequestsHold, ReferencesHold, NullsHold, LinksRecorded, [Next]_vars
    PROVE  LinksRecorded' /\ NullsHold'
  <1> USE DEF TypeOK
  <1>1. CASE LinksKept
    <2>1. LinksRecorded'
      BY <1>1 DEF LinksKept, LinksRecorded, LinkOnRecord
    <2>2. NullsHold'
      BY <1>1 DEF LinksKept, NullsHold
    <2> QED
      BY <2>1, <2>2
  <1>2. ASSUME NEW b \in Budget, NEW p \in Project \cup {NoProject}, LinkBudget(b, p)
        PROVE  LinksRecorded' /\ NullsHold'
    <2>1. /\ linked' = [linked EXCEPT ![b] = p] /\ trail' = [trail EXCEPT ![b] = p]
          /\ project' = project /\ req' = req
          /\ p # NoProject => Exists(p)
          /\ \A q \in Request : b \notin req[q].nulled
      BY <1>2 DEF LinkBudget, capture_link, RowLocked
    <2>2. LinksRecorded'
      BY <2>1 DEF LinksRecorded, LinkOnRecord, Exists, ProjectStatus
    <2>3. NullsHold'
      BY <2>1 DEF NullsHold
    <2> QED
      BY <2>2, <2>3
  <1>3. ASSUME NEW r \in Request, DeleteUnlinks(r) PROVE LinksRecorded' /\ NullsHold'
    <2> DEFINE p == req[r].project
               links == {b \in Budget : linked[b] = p}
               h == [req[r] EXCEPT !.op = "unlinked", !.nulled = links]
    <2>1. /\ req' = [req EXCEPT ![r] = h]
          /\ \A b \in links : \A q \in Request : b \notin req[q].nulled
          /\ UNCHANGED <<linked, trail, project>>
      BY <1>3 DEF DeleteUnlinks, RowLocked
    <2>2. h.op = "unlinked" /\ h.nulled = links /\ h.project = p
      OBVIOUS
    <2>3. \A b \in links : linked[b] = p
      OBVIOUS
    <2> HIDE DEF h, links
    <2>4. req'[r] = h /\ \A q \in Request \ {r} : req'[q] = req[q]
      BY <2>1
    <2>5. NullsHold'
      BY <2>1, <2>2, <2>3, <2>4 DEF NullsHold
    <2>6. LinksRecorded'
      BY <2>1 DEF LinksRecorded, LinkOnRecord, Exists
    <2> QED
      BY <2>5, <2>6
  <1>4. ASSUME NEW r \in Request, DeleteCommits(r) PROVE LinksRecorded' /\ NullsHold'
    <2>0. PICK p \in Project : p = req[r].project /\ project[p] # "none"
      BY <1>4 DEF DeleteCommits, RequestsHold, Holds
    <2>1. /\ project' = [project EXCEPT ![p] = "deleted"] /\ trail' = trail
          /\ linked' = [b \in Budget |-> IF b \in req[r].nulled THEN NoProject ELSE linked[b]]
          /\ req' = [req EXCEPT ![r] = Idle]
          /\ \A b \in Budget : linked[b] = p <=> b \in req[r].nulled
      BY <1>4, <2>0 DEF DeleteCommits, Unreferenced, Ends, NullsHold
    <2>2. /\ ~Exists(p)' /\ \A q \in Project \ {p} : Exists(q)' <=> Exists(q)
          /\ \A q \in Project : project[q] # "none" => project'[q] # "none"
      BY <2>1 DEF Exists, ProjectStatus
    <2>3. LinksRecorded'
      <3> SUFFICES ASSUME NEW b \in Budget
                   PROVE  /\ linked'[b] = LinkOnRecord(b)'
                          /\ trail'[b] # NoProject => project'[trail'[b]] # "none"
        BY DEF LinksRecorded
      <3>1. linked[b] = LinkOnRecord(b) /\ (trail[b] # NoProject => project[trail[b]] # "none")
        BY DEF LinksRecorded
      <3>2. CASE trail[b] = p
        <4>1. linked[b] = p \/ linked[b] = NoProject
          BY <3>1, <3>2 DEF LinkOnRecord
        <4>2. linked'[b] = NoProject
          BY <2>1, <4>1
        <4>3. LinkOnRecord(b)' = NoProject
          BY <2>1, <2>2, <3>2 DEF LinkOnRecord
        <4> QED
          BY <2>0, <2>1, <2>2, <3>2, <4>2, <4>3
      <3>3. CASE trail[b] # p
        <4>1. p # NoProject /\ trail[b] \in Project \cup {NoProject}
          BY GroupsAssumption
        <4>2. LinkOnRecord(b)' = LinkOnRecord(b)
          BY <2>1, <2>2, <3>3, <4>1 DEF LinkOnRecord
        <4>3. linked[b] # p
          BY <3>1, <3>3, <4>1 DEF LinkOnRecord
        <4>4. linked'[b] = linked[b]
          BY <2>1, <4>3
        <4> QED
          BY <2>1, <2>2, <3>1, <4>1, <4>2, <4>4
      <3> QED
        BY <3>2, <3>3
    <2>4. NullsHold'
      <3>1. req'[r].nulled = {} /\ \A q \in Request \ {r} : req'[q] = req[q]
        BY <2>1 DEF Idle
      <3>2. \A q \in Request \ {r} : \A b \in req[q].nulled : b \notin req[r].nulled
        BY DEF NullsHold
      <3>3. \A q \in Request \ {r} : \A b \in req[q].nulled : linked'[b] = linked[b]
        BY <2>1, <3>2
      <3> QED
        BY <3>1, <3>3 DEF NullsHold
    <2> QED
      BY <2>3, <2>4
  <1> QED
    BY <1>1, <1>2, <1>3, <1>4, LinksWritten

-----------------------------------------------------------------------------
(* The invariant *)

LEMMA GroupsInit == Init => GroupsInvariant
  <1> SUFFICES ASSUME Init PROVE GroupsInvariant
    OBVIOUS
  <1> USE GroupsAssumption DEF Init
  <1>0. Idle.op = "idle" /\ Idle.nulled = {} /\ ~("none" \in ProjectStatus)
    BY DEF Idle, ProjectStatus
  <1>1. TypeOK
    <2>1. Idle \in
          [op : {"idle", "join", "remove", "update", "delete", "unlinked", "contribute"},
           user : User \cup {NoUser}, row : 0..MaxRows, project : Project \cup {NoProject},
           status : ProjectStatus \cup {"none"}, nulled : SUBSET Budget]
      BY DEF Idle
    <2>2. /\ owner \in User \cup {NoUser}
          /\ project \in [Project -> ProjectStatus \cup {"none", "deleted"}]
          /\ linked \in [Budget -> Project \cup {NoProject}]
      OBVIOUS
    <2>3. rows \in 0..MaxRows /\ invite_code \in 0..MaxCode /\ now \in 0..MaxNow
      OBVIOUS
    <2>4. /\ members \subseteq Member /\ contributions \subseteq ContributionRow
          /\ trail \in [Budget -> Project \cup {NoProject}]
      OBVIOUS
    <2> QED
      BY <2>1, <2>2, <2>3, <2>4 DEF TypeOK
  <1>2. MembershipSound /\ RowsNumbered /\ ReferencesHold
    BY DEF MembershipSound, RowsNumbered, ReferencesHold
  <1>3. RequestsHold /\ GateHolds /\ NullsHold
    BY <1>0 DEF RequestsHold, Holds, GateHolds, NullsHold
  <1>4. DailyCapHolds /\ ContributionsCounted
    <2>1. IsFiniteSet({}) /\ Cardinality({}) = 0
      BY FS_EmptySet
    <2>2. \A u, a : {k \in contributions : k.payer = u /\ k.at \in a..(a + Day)} = {}
      OBVIOUS
    <2> QED
      BY <2>1, <2>2 DEF DailyCapHolds, ContributionsCounted
  <1>5. AuditExplainsRows /\ RecordsFollow
    BY <1>0 DEF AuditExplainsRows, RecordsFollow, On, Exists, LinkOnRecord
  <1> QED
    BY <1>1, <1>2, <1>3, <1>4, <1>5 DEF GroupsInvariant

LEMMA GroupsStep == GroupsInvariant /\ [Next]_vars => GroupsInvariant'
  <1> SUFFICES ASSUME GroupsInvariant, [Next]_vars PROVE GroupsInvariant'
    OBVIOUS
  <1> USE DEF GroupsInvariant
  <1>1. TypeOK'
    BY TypeStep
  <1>2. MembershipSound' /\ RowsNumbered'
    BY MembershipStep
  <1>3. RequestsHold'
    BY RequestsStep
  <1>4. ReferencesHold'
    BY ReferencesStep
  <1>5. GateHolds'
    BY <1>1, GateStep
  <1>6. DailyCapHolds' /\ ContributionsCounted'
    BY CapStep
  <1>7. AuditExplainsRows' /\ RecordsFollow' /\ NullsHold'
    <2>1. MembersRecorded /\ ProjectsRecorded /\ ContributionsRecorded /\ LinksRecorded
      BY Recorded
    <2>2. /\ MembersRecorded' /\ ProjectsRecorded' /\ ContributionsRecorded'
          /\ LinksRecorded' /\ NullsHold'
      BY <2>1, MembersRecordedStep, ProjectsRecordedStep, ContributionsRecordedStep,
         LinksRecordedStep
    <2> QED
      BY <2>2, Recorded, PTL
  <1> QED
    BY <1>1, <1>2, <1>3, <1>4, <1>5, <1>6, <1>7

(* The invariant holds in every reachable state. *)
THEOREM GroupsInvariance == Spec => []GroupsInvariant
  BY GroupsInit, GroupsStep, PTL DEF Spec

(* Every row and every request is what its columns allow, of however many    *)
(* users, projects and requests (models.py, routers/chamas.py, projects.py). *)
THEOREM GroupsTypes == Spec => []TypeOK
  <1>1. GroupsInvariant => TypeOK
    BY DEF GroupsInvariant
  <1> QED
    BY GroupsInvariance, <1>1, PTL

(* A chama keeps its one owner as a member, and nobody is in it twice,       *)
(* however joins, leaves and removals overlap (routers/chamas.py).          *)
THEOREM MembershipIsSound == Spec => []MembershipSound
  <1>1. GroupsInvariant => MembershipSound
    BY DEF GroupsInvariant
  <1> QED
    BY GroupsInvariance, <1>1, PTL

(* delete_project leaves no contribution and no budget that refers to        *)
(* nothing, whatever is opened or linked between its check and its commit.  *)
THEOREM ReferencesStay == Spec => []ReferencesHold
  <1>1. GroupsInvariant => ReferencesHold
    BY DEF GroupsInvariant
  <1> QED
    BY GroupsInvariance, <1>1, PTL

(* _assert_under_daily_cap counts first and its caller inserts later, and no *)
(* window of 24 hours holds more than the cap: one coroutine runs at a time. *)
THEOREM DailyCapIsKept == Spec => []DailyCapHolds
  <1>1. GroupsInvariant => DailyCapHolds
    BY DEF GroupsInvariant
  <1> QED
    BY GroupsInvariance, <1>1, PTL

(* capture_changes leaves a trail from which the rows and links can be told. *)
THEOREM AuditExplains == Spec => []AuditExplainsRows
  <1>1. GroupsInvariant => AuditExplainsRows
    BY DEF GroupsInvariant
  <1> QED
    BY GroupsInvariance, <1>1, PTL
=============================================================================
