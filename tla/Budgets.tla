-------------------------------- MODULE Budgets --------------------------------
(***************************************************************************)
(* One budget, its categories and their expenses (routers/budgets.py): the *)
(* stored total of a category is recomputed from its expenses in the       *)
(* transaction that adds or deletes one.  Handlers are threads, each with  *)
(* a READ COMMITTED session, modelled statement by statement: a statement  *)
(* sees what was committed when it began and the changes of its own        *)
(* transaction; an UPDATE that had to wait for its row still writes what   *)
(* its sub-select found before it waited.                                  *)
(***************************************************************************)
EXTENDS Integers, FiniteSetsExt

CONSTANTS
    Category,       \* categories that can ever be added
    NoCategory,
    Expense,        \* expenses that can ever be added
    NoExpense,
    AmountOf,       \* the amount of each, more than 0
    Request         \* requests in progress at one time

ASSUME BudgetAssumption ==
    /\ IsFiniteSet(Expense)
    /\ NoCategory \notin Category /\ NoExpense \notin Expense
    /\ AmountOf \in [Expense -> Nat \ {0}]

VARIABLES
    budget,         \* whether the row exists: "none", "open", "deleted"
    used,           \* categories ever added
    categories,     \* committed rows of budget_categories
    spent_amount,   \* of each category
    expenses,       \* committed rows of budget_expenses
    category_id,    \* the category of an expense, NoCategory before it is added
    req,            \* what each request holds
    missed          \* history: categories whose last recompute missed a commit

vars == <<budget, used, categories, spent_amount, expenses, category_id, req, missed>>
rowVars == <<budget, used, categories, spent_amount, expenses, category_id>>

Idle == [op |-> "none", at |-> "idle", category |-> NoCategory, expense |-> NoExpense,
         total |-> 0, rows |-> {}, cats |-> {}, outdated |-> FALSE]

Of(c) == {e \in expenses : category_id[e] = c}
Total(es) == MapThenSumSet(LAMBDA e : AmountOf[e], es)

(* Every row is what its columns allow; a total is never negative. *)
TypeOK ==
    /\ budget \in {"none", "open", "deleted"}
    /\ categories \subseteq used /\ used \subseteq Category
    /\ spent_amount \in [Category -> Nat]
    /\ expenses \subseteq Expense
    /\ category_id \in [Expense -> Category \cup {NoCategory}]
    /\ req \in [Request ->
          [op : {"none", "add", "delete", "drop"},
           at : {"idle", "write", "recompute", "update", "cascade", "commit"},
           category : Category \cup {NoCategory}, expense : Expense \cup {NoExpense},
           total : Nat, rows : SUBSET Expense, cats : SUBSET Category, outdated : BOOLEAN]]
    /\ missed \subseteq Category

Init ==
    /\ budget = "none" /\ used = {} /\ categories = {}
    /\ spent_amount = [c \in Category |-> 0]
    /\ expenses = {} /\ category_id = [e \in Expense |-> NoCategory]
    /\ req = [r \in Request |-> Idle]
    /\ missed = {}

-----------------------------------------------------------------------------
Begins(r, held) ==
    /\ req[r] = Idle
    /\ req' = [req EXCEPT ![r] = held]
    /\ UNCHANGED <<rowVars, missed>>

Is(r, op, at) == req[r].op = op /\ req[r].at = at

(* Row locks.  The INSERT of an expense shares its category's row, the       *)
(* recompute locks it for an update and lets others share it, a deletion     *)
(* locks it alone.  A deleted expense is locked.                            *)
Recomputes(r, c) == req[r].op \in {"add", "delete"} /\ req[r].category = c
Shares(r, c) == Recomputes(r, c) /\ req[r].op = "add" /\ req[r].at \in {"recompute", "update", "commit"}
Updates(r, c) == Recomputes(r, c) /\ req[r].at = "commit"
Drops(r, c) == Is(r, "drop", "cascade") /\ c \in req[r].cats
Deletes(r, e) ==
    \/ req[r].op = "delete" /\ req[r].at \in {"recompute", "update", "commit"} /\ req[r].expense = e
    \/ Is(r, "drop", "cascade") /\ e \in req[r].rows

(* The transaction is rolled back: a constraint refuses a statement, the     *)
(* connection is lost, or PostgreSQL breaks a deadlock.                     *)
Aborts(r) ==
    /\ req[r] # Idle
    /\ req' = [req EXCEPT ![r] = Idle]
    /\ UNCHANGED <<rowVars, missed>>

-----------------------------------------------------------------------------
create_budget(cs) ==
    /\ budget = "none"
    /\ budget' = "open"
    /\ used' = cs /\ categories' = cs
    /\ UNCHANGED <<spent_amount, expenses, category_id, req, missed>>

(* It waits for a deletion of the budget, and then finds no budget. *)
add_category(c) ==
    /\ budget = "open" /\ c \notin used
    /\ \A r \in Request : ~(Is(r, "drop", "cascade") /\ req[r].category = NoCategory)
    /\ used' = used \cup {c} /\ categories' = categories \cup {c}
    /\ UNCHANGED <<budget, spent_amount, expenses, category_id, req, missed>>

(* delete_category of c, delete_budget of NoCategory: the ORM loads the      *)
(* expenses it cascades to.                                                 *)
DropReads(r, c) ==
    /\ budget = "open" /\ c \in categories \cup {NoCategory}
    /\ Begins(r, [Idle EXCEPT !.op = "drop", !.at = "write", !.category = c,
                      !.rows = IF c = NoCategory THEN expenses ELSE Of(c)])

(* It deletes them, waiting for each, and then the categories. *)
DropDeletes(r) ==
    LET c == req[r].category
        doomed == IF c = NoCategory THEN categories ELSE {c}
    IN
    /\ Is(r, "drop", "write")
    /\ \A q \in Request \ {r} :
         /\ \A e \in req[r].rows : ~Deletes(q, e)
         /\ \A d \in doomed : ~(Shares(q, d) \/ Updates(q, d) \/ Drops(q, d))
    /\ req' = [req EXCEPT ![r] = [@ EXCEPT !.at = "cascade", !.cats = doomed]]
    /\ UNCHANGED <<rowVars, missed>>

(* Mutant: no ON DELETE CASCADE, only what the ORM had loaded goes. *)
DropCommits_loaded_only(r) ==
    LET gone == req[r].cats IN
    /\ Is(r, "drop", "cascade")
    /\ categories' = categories \ gone
    /\ expenses' = expenses \ req[r].rows
    /\ budget' = IF req[r].category = NoCategory THEN "deleted" ELSE budget
    /\ req' = [req EXCEPT ![r] = Idle]
    /\ UNCHANGED <<used, spent_amount, category_id, missed>>

(* ON DELETE CASCADE: expenses added in the meantime go too. *)
DropCommits(r) ==
    LET gone == req[r].cats IN
    /\ Is(r, "drop", "cascade")
    /\ \A q \in Request \ {r}, d \in gone : \A e \in Of(d) : ~Deletes(q, e)
    /\ categories' = categories \ gone
    /\ expenses' = {e \in expenses : category_id[e] \notin gone}
    /\ budget' = IF req[r].category = NoCategory THEN "deleted" ELSE budget
    /\ req' = [req EXCEPT ![r] = Idle]
    /\ UNCHANGED <<used, spent_amount, category_id, missed>>

-----------------------------------------------------------------------------
(* Expenses *)

AddReads(r, c, e) ==
    /\ c \in categories /\ category_id[e] = NoCategory
    /\ \A q \in Request : req[q].expense # e
    /\ Begins(r, [Idle EXCEPT !.op = "add", !.at = "write", !.category = c, !.expense = e])

(* Mutant: the INSERT does not wait for a deletion of its category. *)
InsertExpense_unlocked(r) ==
    /\ Is(r, "add", "write") /\ req[r].category \in categories
    /\ req' = [req EXCEPT ![r].at = "recompute"]
    /\ UNCHANGED <<rowVars, missed>>

(* The foreign key waits for a deletion of the category; without a category  *)
(* the INSERT fails.                                                        *)
InsertExpense(r) ==
    LET c == req[r].category IN
    /\ Is(r, "add", "write") /\ c \in categories
    /\ \A q \in Request : ~Drops(q, c)
    /\ req' = [req EXCEPT ![r].at = "recompute"]
    /\ UNCHANGED <<rowVars, missed>>

DeleteReads(r, c, e) ==
    /\ c \in categories /\ e \in Of(c)
    /\ Begins(r, [Idle EXCEPT !.op = "delete", !.at = "write", !.category = c, !.expense = e])

(* That the row is gone by now is only a warning. *)
DeleteExpense(r) ==
    /\ Is(r, "delete", "write")
    /\ \A q \in Request \ {r} : ~Deletes(q, req[r].expense)
    /\ req' = [req EXCEPT ![r].at = "recompute"]
    /\ UNCHANGED <<rowVars, missed>>

(* Mutant: the recompute comes before the flush. *)
Resulting_unflushed(r) == Of(req[r].category)

(* The expenses of its category as its own transaction would leave them. *)
Resulting(r) ==
    IF req[r].op = "add" THEN Of(req[r].category) \cup {req[r].expense}
                         ELSE Of(req[r].category) \ {req[r].expense}

(* _recompute_spent_amount begins: the sub-select.                           *)
Recompute(r) ==
    /\ req[r].at = "recompute"
    /\ req' = [req EXCEPT ![r] = [@ EXCEPT !.at = "update", !.total = Total(Resulting(r)),
                                          !.outdated = FALSE]]
    /\ UNCHANGED <<rowVars, missed>>

(* The UPDATE has the row, or has found that there is none. *)
UpdateTotal(r) ==
    LET c == req[r].category IN
    /\ req[r].at = "update"
    /\ \A q \in Request \ {r} : ~Updates(q, c) /\ ~Drops(q, c)
    /\ req' = [req EXCEPT ![r].at = "commit"]
    /\ UNCHANGED <<rowVars, missed>>

(* Requests that have taken their sub-select and did not see this commit. *)
Outdates(r) ==
    [q \in Request |->
        IF q = r THEN Idle
        ELSE [req[q] EXCEPT !.outdated = @ \/ Recomputes(q, req[r].category)]]

CommitExpense(r) ==
    LET c == req[r].category
        e == req[r].expense
    IN
    /\ req[r].op \in {"add", "delete"} /\ req[r].at = "commit"
    /\ expenses' = IF req[r].op = "add" THEN expenses \cup {e} ELSE expenses \ {e}
    /\ category_id' = [category_id EXCEPT ![e] = c]
    /\ spent_amount' = IF c \in categories THEN [spent_amount EXCEPT ![c] = req[r].total]
                                           ELSE spent_amount
    /\ req' = Outdates(r)
    /\ missed' = IF req[r].outdated THEN missed \cup {c} ELSE missed \ {c}
    /\ UNCHANGED <<budget, used, categories>>

add_expense(r) == \/ \E c \in categories, e \in Expense : AddReads(r, c, e)
                  \/ InsertExpense(r)
delete_expense(r) == \/ \E c \in categories, e \in expenses : DeleteReads(r, c, e)
                     \/ DeleteExpense(r)
delete_category(r) == \/ \E c \in Category \cup {NoCategory} : DropReads(r, c)
                      \/ DropDeletes(r) \/ DropCommits(r)

Next ==
    \/ \E cs \in SUBSET Category : create_budget(cs)
    \/ \E c \in Category : add_category(c)
    \/ \E r \in Request :
         \/ add_expense(r) \/ delete_expense(r) \/ delete_category(r)
         \/ Recompute(r) \/ UpdateTotal(r) \/ CommitExpense(r) \/ Aborts(r)

Spec == Init /\ [][Next]_vars

-----------------------------------------------------------------------------
(* The stored total of a category is the sum of its expenses, unless the     *)
(* last recompute took its sub-select before another request committed to    *)
(* the same category; the next recompute that no other overlaps repairs it. *)
SpentIsSum == \A c \in categories \ missed : spent_amount[c] = Total(Of(c))

(* The same without the exception: two requests on one category "race and    *)
(* lose one update" is what recomputing in one UPDATE is there to prevent.  *)
SpentAlwaysSum == \A c \in categories : spent_amount[c] = Total(Of(c))

(* No expense outlives its category, and no category its budget, though an   *)
(* expense may be added while a deletion is under way.                      *)
NoOrphans ==
    /\ \A e \in expenses : category_id[e] \in categories
    /\ budget # "open" => categories = {}
-----------------------------------------------------------------------------
(* The inductive invariant: why the total is right and nothing is orphaned.  *)

(* A request is at a step of its own operation, on a category that exists or *)
(* did, or on the budget; before there is a budget there is neither.        *)
RequestsAreSound ==
    /\ \A r \in Request :
         /\ req[r].op = "none" => req[r] = Idle
         /\ req[r].op \in {"add", "delete"} =>
              /\ req[r].at \in {"write", "recompute", "update", "commit"}
              /\ req[r].category \in used /\ req[r].expense \in Expense
         /\ req[r].op = "drop" => req[r].at \in {"write", "cascade"} /\ budget # "none"
    /\ budget = "none" => used = {}
    /\ \A c \in Category \ used : spent_amount[c] = 0

(* Who adds an expense is the only one to, and it has no category before;    *)
(* who deletes one read the category it keeps.                              *)
ExpenseInHand ==
    /\ \A r \in Request :
         /\ req[r].op = "add" => category_id[req[r].expense] = NoCategory
         /\ req[r].op = "delete" => category_id[req[r].expense] = req[r].category
    /\ \A q, r \in Request :
         req[q].op = "add" /\ req[r].op = "add" /\ req[q].expense = req[r].expense => q = r

(* The lock an INSERT shares keeps its category, and a deletion of the       *)
(* budget holds every category there is.                                    *)
LocksKeepCategories ==
    /\ \A r \in Request, c \in Category : Shares(r, c) =>
         c \in categories /\ \A q \in Request : ~Drops(q, c)
    /\ \A r \in Request :
         Is(r, "drop", "cascade") /\ req[r].category = NoCategory => categories \subseteq req[r].cats

(* A sub-select that no commit has outdated still counts what its request    *)
(* will leave behind.                                                       *)
TotalIsCurrent ==
    \A r \in Request :
        /\ req[r].op \in {"add", "delete"} /\ req[r].at \in {"update", "commit"}
        /\ req[r].category \in categories /\ ~req[r].outdated
        => req[r].total = Total(Resulting(r))

BudgetInvariant ==
    /\ TypeOK /\ RequestsAreSound /\ ExpenseInHand /\ LocksKeepCategories /\ TotalIsCurrent
    /\ SpentIsSum /\ NoOrphans
=============================================================================
