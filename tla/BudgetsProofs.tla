---------------------------- MODULE BudgetsProofs ----------------------------
(***************************************************************************)
(* Proofs about Budgets, for any number of categories, expenses and        *)
(* requests: the stored total of a category is the sum of its expenses     *)
(* unless its last recompute missed a commit, and nothing is orphaned.     *)
(***************************************************************************)
EXTENDS Budgets, FiniteSums

USE BudgetAssumption
USE DEF rowVars, Is, Recomputes, Shares, Updates, Drops

(* What a request may hold. *)
Held == [op : {"none", "add", "delete", "drop"},
         at : {"idle", "write", "recompute", "update", "cascade", "commit"},
         category : Category \cup {NoCategory}, expense : Expense \cup {NoExpense},
         total : Nat, rows : SUBSET Expense, cats : SUBSET Category, outdated : BOOLEAN]

(* The expenses of a category as a request that holds h would leave them.    *)
Leaves(h) == IF h.op = "add" THEN Of(h.category) \cup {h.expense}
                             ELSE Of(h.category) \ {h.expense}

-----------------------------------------------------------------------------
(* Totals *)

(* A total is a sum of FiniteSums. *)
LEMMA TotalIsSum == ASSUME NEW es PROVE Total(es) = Sum(AmountOf, es)
  BY DEF Total, Sum

(* No expenses, no total; and every total fits its column. *)
LEMMA TotalType ==
    /\ Total({}) = 0
    /\ \A es \in SUBSET Expense : Total(es) \in Nat
  <1>1. Total({}) = 0
    BY TotalIsSum, SumEmpty
  <1>2. ASSUME NEW es \in SUBSET Expense
        PROVE  Total(es) \in Nat
    <2>1. IsFiniteSet(es) /\ \A e \in es : AmountOf[e] \in Nat
      BY FS_Subset
    <2>2. Sum(AmountOf, es) \in Nat
      BY <2>1, SumType
    <2> QED
      BY <2>2, TotalIsSum
  <1> QED
    BY <1>1, <1>2

(* To write what is there changes nothing. *)
LEMMA SameWrite ==
    ASSUME NEW f, NEW x, f = [y \in DOMAIN f |-> f[y]]
    PROVE  [f EXCEPT ![x] = f[x]] = f
  BY Zenon

(* A request between operations. *)
LEMMA IdleHeld ==
    /\ Idle \in Held /\ Idle.op = "none" /\ Idle.at = "idle"
    /\ [Idle EXCEPT !.outdated = FALSE] = Idle
  <1>1. Idle \in Held /\ Idle.op = "none" /\ Idle.at = "idle" /\ Idle.outdated = FALSE
    BY DEF Idle, Held
  <1>2. Idle = [y \in DOMAIN Idle |-> Idle[y]]
    BY DEF Idle
  <1>3. [Idle EXCEPT !["outdated"] = Idle["outdated"]] = Idle
    BY <1>2, SameWrite
  <1> QED
    BY <1>1, <1>3

-----------------------------------------------------------------------------
(* The statements that change no committed row. *)

(* What request r may come to hold, the others and the rows as they are.     *)
MayHold(r, h) ==
    /\ h \in Held
    /\ h.op = "none" => h = Idle
    /\ h.op \in {"add", "delete"} =>
         /\ h.at \in {"write", "recompute", "update", "commit"}
         /\ h.category \in used /\ h.expense \in Expense
    /\ h.op = "drop" => h.at \in {"write", "cascade"} /\ budget # "none"
    /\ h.op = "add" =>
         /\ category_id[h.expense] = NoCategory
         /\ \A q \in Request \ {r} : req[q].op = "add" => req[q].expense # h.expense
    /\ h.op = "delete" => category_id[h.expense] = h.category
    /\ h.op = "add" /\ h.at \in {"recompute", "update", "commit"} =>
         /\ h.category \in categories
         /\ \A q \in Request \ {r} : ~Drops(q, h.category)
    /\ h.op = "drop" /\ h.at = "cascade" =>
         /\ \A c \in h.cats, q \in Request \ {r} : ~Shares(q, c)
         /\ h.category = NoCategory => categories \subseteq h.cats
    /\ /\ h.op \in {"add", "delete"} /\ h.at \in {"update", "commit"}
       /\ h.category \in categories /\ ~h.outdated
       => h.total = Total(Leaves(h))

(* To come to hold something admissible keeps the invariant.                 *)
LEMMA HoldingKeeps ==
    ASSUME BudgetInvariant, NEW r \in Request, NEW h, MayHold(r, h),
           req' = [req EXCEPT ![r] = h], UNCHANGED <<rowVars, missed>>
    PROVE  BudgetInvariant'
  <1>1. /\ TypeOK /\ RequestsAreSound /\ ExpenseInHand /\ LocksKeepCategories
        /\ TotalIsCurrent /\ SpentIsSum /\ NoOrphans
    BY DEF BudgetInvariant
  <1>2. h \in Held /\ req \in [Request -> Held]
    BY <1>1 DEF TypeOK, MayHold, Held
  <1>3. /\ req' \in [Request -> Held] /\ req'[r] = h
        /\ \A q \in Request \ {r} : req'[q] = req[q]
    BY <1>2
  <1>4. TypeOK'
    BY <1>1, <1>3 DEF TypeOK, Held
  <1>5. RequestsAreSound'
    BY <1>1, <1>3 DEF RequestsAreSound, MayHold
  <1>6. ExpenseInHand'
    BY <1>1, <1>3 DEF ExpenseInHand, MayHold
  <1>7. LocksKeepCategories'
    BY <1>1, <1>3 DEF LocksKeepCategories, MayHold
  <1>8. TotalIsCurrent'
    <2>1. \A q \in Request \ {r} : Resulting(q)' = Resulting(q)
      BY <1>3 DEF Resulting, Of
    <2>2. Resulting(r)' = Leaves(h)
      BY <1>3 DEF Resulting, Leaves, Of
    <2> QED
      BY <1>1, <1>3, <2>1, <2>2 DEF TotalIsCurrent, MayHold
  <1>9. SpentIsSum' /\ NoOrphans'
    BY <1>1 DEF SpentIsSum, NoOrphans, Of
  <1> QED
    BY <1>4, <1>5, <1>6, <1>7, <1>8, <1>9 DEF BudgetInvariant

(* A request that begins has read committed rows and holds no lock; one that *)
(* is rolled back holds nothing.                                            *)
LEMMA BeginsKeeps ==
    ASSUME BudgetInvariant, NEW r \in Request,
           \/ \E c \in categories, e \in Expense : AddReads(r, c, e)
           \/ \E c \in categories, e \in expenses : DeleteReads(r, c, e)
           \/ \E c \in Category \cup {NoCategory} : DropReads(r, c)
           \/ Aborts(r)
    PROVE  BudgetInvariant'
  <1>1. TypeOK /\ categories \subseteq used /\ used \subseteq Category /\ expenses \subseteq Expense
    BY DEF BudgetInvariant, TypeOK
  <1>2. ASSUME NEW c \in categories, NEW e \in Expense, AddReads(r, c, e)
        PROVE  BudgetInvariant'
    <2> DEFINE h == [Idle EXCEPT !.op = "add", !.at = "write", !.category = c, !.expense = e]
    <2>1. h \in Held /\ h.op = "add" /\ h.at = "write" /\ h.category = c /\ h.expense = e
      BY <1>1 DEF Idle, Held
    <2>2. /\ req' = [req EXCEPT ![r] = h] /\ UNCHANGED <<rowVars, missed>>
          /\ category_id[e] = NoCategory /\ \A q \in Request : req[q].expense # e
      BY <1>2 DEF AddReads, Begins
    <2> HIDE DEF h
    <2>3. MayHold(r, h)
      BY <1>1, <2>1, <2>2 DEF MayHold
    <2> QED
      BY <2>2, <2>3, HoldingKeeps
  <1>3. ASSUME NEW c \in categories, NEW e \in expenses, DeleteReads(r, c, e)
        PROVE  BudgetInvariant'
    <2> DEFINE h == [Idle EXCEPT !.op = "delete", !.at = "write", !.category = c, !.expense = e]
    <2>1. h \in Held /\ h.op = "delete" /\ h.at = "write" /\ h.category = c /\ h.expense = e
      BY <1>1 DEF Idle, Held
    <2>2. /\ req' = [req EXCEPT ![r] = h] /\ UNCHANGED <<rowVars, missed>>
          /\ category_id[e] = c
      BY <1>3 DEF DeleteReads, Begins, Of
    <2> HIDE DEF h
    <2>3. MayHold(r, h)
      BY <1>1, <2>1, <2>2 DEF MayHold
    <2> QED
      BY <2>2, <2>3, HoldingKeeps
  <1>4. ASSUME NEW c \in Category \cup {NoCategory}, DropReads(r, c)
        PROVE  BudgetInvariant'
    <2> DEFINE es == IF c = NoCategory THEN expenses ELSE Of(c)
               h == [Idle EXCEPT !.op = "drop", !.at = "write", !.category = c, !.rows = es]
    <2>0. es \in SUBSET Expense
      BY <1>1 DEF Of
    <2>1. h \in Held /\ h.op = "drop" /\ h.at = "write"
      <3> HIDE DEF es
      <3> QED
        BY <2>0 DEF Idle, Held
    <2>2. /\ req' = [req EXCEPT ![r] = h] /\ UNCHANGED <<rowVars, missed>> /\ budget = "open"
      BY <1>4 DEF DropReads, Begins
    <2> HIDE DEF h
    <2>3. MayHold(r, h)
      BY <2>1, <2>2 DEF MayHold
    <2> QED
      BY <2>2, <2>3, HoldingKeeps
  <1>5. CASE Aborts(r)
    <2>1. MayHold(r, Idle)
      BY IdleHeld DEF MayHold
    <2> QED
      BY <1>5, <2>1, HoldingKeeps DEF Aborts
  <1> QED
    BY <1>2, <1>3, <1>4, <1>5

(* A statement advances its request once nobody holds a lock against it.     *)
LEMMA StatementKeeps ==
    ASSUME BudgetInvariant, NEW r \in Request,
           InsertExpense(r) \/ DeleteExpense(r) \/ UpdateTotal(r)
    PROVE  BudgetInvariant'
  <1> DEFINE to == IF req[r].at = "write" THEN "recompute" ELSE "commit"
             h == [req[r] EXCEPT !.at = to]
  <1>1. /\ RequestsAreSound /\ ExpenseInHand /\ LocksKeepCategories /\ TotalIsCurrent
        /\ req[r] \in Held /\ used \subseteq Category
    BY DEF BudgetInvariant, TypeOK, Held
  <1>2. /\ req' = [req EXCEPT ![r] = h] /\ UNCHANGED <<rowVars, missed>>
        /\ req[r].op \in {"add", "delete"} /\ req[r].at \in {"write", "update"}
        /\ req[r].op = "add" /\ req[r].at = "write" =>
             /\ req[r].category \in categories
             /\ \A q \in Request : ~Drops(q, req[r].category)
    BY <1>1 DEF InsertExpense, DeleteExpense, UpdateTotal, RequestsAreSound, Held, Idle
  <1>3. /\ h \in Held /\ h.at = to /\ h.op = req[r].op /\ h.category = req[r].category
        /\ h.expense = req[r].expense /\ h.total = req[r].total
        /\ h.outdated = req[r].outdated
    BY <1>1, <1>2 DEF Held
  <1>4. h.category \in Category
    BY <1>1, <1>2, <1>3 DEF RequestsAreSound
  <1> HIDE DEF h
  <1>5. /\ h.op \in {"add", "delete"} /\ h.at \in {"recompute", "commit"}
        /\ h.category \in used /\ h.expense \in Expense
    BY <1>1, <1>2, <1>3 DEF RequestsAreSound
  <1>6. /\ h.op = "add" =>
             /\ category_id[h.expense] = NoCategory
             /\ \A q \in Request \ {r} : req[q].op = "add" => req[q].expense # h.expense
        /\ h.op = "delete" => category_id[h.expense] = h.category
    BY <1>1, <1>3 DEF ExpenseInHand
  <1>7. h.op = "add" => h.category \in categories /\ \A q \in Request : ~Drops(q, h.category)
    BY <1>1, <1>2, <1>3, <1>4 DEF LocksKeepCategories
  <1>8. h.at = "commit" /\ h.category \in categories /\ ~h.outdated => h.total = Total(Leaves(h))
    BY <1>1, <1>2, <1>3 DEF TotalIsCurrent, Resulting, Leaves
  <1>9. MayHold(r, h)
    BY <1>3, <1>5, <1>6, <1>7, <1>8 DEF MayHold
  <1> QED
    BY <1>2, <1>9, HoldingKeeps

(* The sub-select counts what the request will leave behind.                 *)
LEMMA RecomputeKeeps ==
    ASSUME BudgetInvariant, NEW r \in Request, Recompute(r)
    PROVE  BudgetInvariant'
  <1> DEFINE t == Total(Resulting(r))
             h == [req[r] EXCEPT !.at = "update", !.total = t, !.outdated = FALSE]
  <1>1. /\ RequestsAreSound /\ ExpenseInHand /\ LocksKeepCategories
        /\ req[r] \in Held /\ used \subseteq Category /\ expenses \subseteq Expense
    BY DEF BudgetInvariant, TypeOK, Held
  <1>2. /\ req' = [req EXCEPT ![r] = h] /\ UNCHANGED <<rowVars, missed>>
        /\ req[r].op \in {"add", "delete"} /\ req[r].at = "recompute"
    BY <1>1 DEF Recompute, RequestsAreSound, Held, Idle
  <1>3. /\ req[r].category \in used /\ req[r].expense \in Expense
        /\ req[r].category \in Category
    BY <1>1, <1>2 DEF RequestsAreSound
  <1>4. t \in Nat
    <2>1. Resulting(r) \in SUBSET Expense
      BY <1>1, <1>3 DEF Resulting, Of
    <2> QED
      BY <2>1, TotalType
  <1>5. /\ h \in Held /\ h.at = "update" /\ h.op = req[r].op /\ h.category = req[r].category
        /\ h.expense = req[r].expense /\ h.total = t /\ ~h.outdated
    <2> HIDE DEF t
    <2> QED
      BY <1>1, <1>4 DEF Held
  <1>6. t = Total(Leaves(h))
    BY <1>5 DEF Resulting, Leaves
  <1> HIDE DEF h, t
  <1>7. /\ h.op = "add" =>
             /\ category_id[h.expense] = NoCategory
             /\ \A q \in Request \ {r} : req[q].op = "add" => req[q].expense # h.expense
        /\ h.op = "delete" => category_id[h.expense] = h.category
    BY <1>1, <1>5 DEF ExpenseInHand
  <1>8. h.op = "add" => h.category \in categories /\ \A q \in Request : ~Drops(q, h.category)
    BY <1>1, <1>2, <1>3, <1>5 DEF LocksKeepCategories
  <1>9. MayHold(r, h)
    BY <1>2, <1>3, <1>5, <1>6, <1>7, <1>8 DEF MayHold
  <1> QED
    BY <1>2, <1>9, HoldingKeeps

(* The statement of a deletion takes every category it is to delete.         *)
LEMMA DropDeletesKeeps ==
    ASSUME BudgetInvariant, NEW r \in Request, DropDeletes(r)
    PROVE  BudgetInvariant'
  <1> DEFINE doomed == IF req[r].category = NoCategory THEN categories ELSE {req[r].category}
             h == [req[r] EXCEPT !.at = "cascade", !.cats = doomed]
  <1>1. /\ RequestsAreSound /\ req[r] \in Held /\ categories \subseteq Category
    BY DEF BudgetInvariant, TypeOK, Held
  <1>2. /\ req' = [req EXCEPT ![r] = h] /\ UNCHANGED <<rowVars, missed>>
        /\ req[r].op = "drop"
        /\ \A q \in Request \ {r}, d \in doomed : ~Shares(q, d)
    BY DEF DropDeletes
  <1>3. doomed \in SUBSET Category /\ (req[r].category = NoCategory => doomed = categories)
    BY <1>1 DEF Held
  <1> HIDE DEF doomed
  <1>4. /\ h \in Held /\ h.at = "cascade" /\ h.op = "drop" /\ h.cats = doomed
        /\ h.category = req[r].category
    BY <1>1, <1>2, <1>3 DEF Held
  <1>5. budget # "none"
    BY <1>1, <1>2 DEF RequestsAreSound
  <1> HIDE DEF h
  <1>6. MayHold(r, h)
    BY <1>2, <1>3, <1>4, <1>5 DEF MayHold
  <1> QED
    BY <1>2, <1>6, HoldingKeeps

-----------------------------------------------------------------------------
(* The commits. *)

(* A budget comes with categories of its own, before which there was nothing. *)
LEMMA CreateKeeps ==
    ASSUME BudgetInvariant, NEW cs \in SUBSET Category, create_budget(cs)
    PROVE  BudgetInvariant'
  <1>1. /\ TypeOK /\ RequestsAreSound /\ ExpenseInHand /\ LocksKeepCategories
        /\ SpentIsSum /\ NoOrphans
    BY DEF BudgetInvariant
  <1>2. /\ budget = "none" /\ budget' = "open" /\ used' = cs /\ categories' = cs
        /\ UNCHANGED <<spent_amount, expenses, category_id, req, missed>>
    BY DEF create_budget
  <1>3. /\ used = {} /\ categories = {} /\ expenses = {}
        /\ \A r \in Request : req[r] = Idle
    <2>1. \A r \in Request : req[r].op \in {"none", "add", "delete", "drop"}
      BY <1>1 DEF TypeOK
    <2> QED
      BY <1>1, <1>2, <2>1 DEF RequestsAreSound, NoOrphans
  <1>4. TypeOK'
    BY <1>1, <1>2 DEF TypeOK
  <1>5. \A r \in Request : req'[r].op = "none" /\ req'[r] = Idle
    BY <1>2, <1>3, IdleHeld
  <1>6. /\ RequestsAreSound' /\ ExpenseInHand' /\ LocksKeepCategories' /\ TotalIsCurrent'
    BY <1>1, <1>2, <1>3, <1>5
    DEF RequestsAreSound, ExpenseInHand, LocksKeepCategories, TotalIsCurrent
  <1>7. SpentIsSum' /\ NoOrphans'
    <2>1. \A c \in Category : Of(c)' = {} /\ spent_amount'[c] = 0
      BY <1>1, <1>2, <1>3 DEF Of, RequestsAreSound
    <2> QED
      BY <1>2, <1>3, <2>1, TotalType DEF SpentIsSum, NoOrphans
  <1> QED
    BY <1>4, <1>6, <1>7 DEF BudgetInvariant

(* A new category has no expenses, and nobody holds it.                      *)
LEMMA AddCategoryKeeps ==
    ASSUME BudgetInvariant, NEW c \in Category, add_category(c)
    PROVE  BudgetInvariant'
  <1>1. /\ TypeOK /\ RequestsAreSound /\ ExpenseInHand /\ LocksKeepCategories
        /\ TotalIsCurrent /\ SpentIsSum /\ NoOrphans
    BY DEF BudgetInvariant
  <1>2. /\ budget = "open" /\ c \notin used
        /\ \A r \in Request : ~(Is(r, "drop", "cascade") /\ req[r].category = NoCategory)
        /\ used' = used \cup {c} /\ categories' = categories \cup {c}
        /\ UNCHANGED <<budget, spent_amount, expenses, category_id, req, missed>>
    BY DEF add_category
  <1>3. TypeOK'
    BY <1>1, <1>2 DEF TypeOK
  <1>4. RequestsAreSound' /\ ExpenseInHand' /\ LocksKeepCategories'
    BY <1>1, <1>2 DEF RequestsAreSound, ExpenseInHand, LocksKeepCategories
  <1>5. TotalIsCurrent'
    <2>1. \A r \in Request : Resulting(r)' = Resulting(r)
      BY <1>2 DEF Resulting, Of
    <2>2. \A r \in Request : req[r].op \in {"add", "delete"} => req[r].category # c
      BY <1>1, <1>2 DEF RequestsAreSound
    <2> QED
      BY <1>1, <1>2, <2>1, <2>2 DEF TotalIsCurrent
  <1>6. SpentIsSum'
    <2>1. \A d \in Category : Of(d)' = Of(d)
      BY <1>2 DEF Of
    <2>2. Of(c) = {} /\ spent_amount[c] = 0
      BY <1>1, <1>2 DEF Of, NoOrphans, RequestsAreSound, TypeOK
    <2> QED
      BY <1>1, <1>2, <2>1, <2>2, TotalType DEF SpentIsSum, TypeOK
  <1>7. NoOrphans'
    BY <1>1, <1>2 DEF NoOrphans
  <1> QED
    BY <1>3, <1>4, <1>5, <1>6, <1>7 DEF BudgetInvariant

(* A deletion takes the expenses of its categories with it, also those added *)
(* since the ORM loaded them, and nobody is left adding to them.            *)
LEMMA DropCommitsKeeps ==
    ASSUME BudgetInvariant, NEW r \in Request, DropCommits(r)
    PROVE  BudgetInvariant'
  <1> DEFINE gone == req[r].cats
  <1>1. /\ TypeOK /\ RequestsAreSound /\ ExpenseInHand /\ LocksKeepCategories
        /\ TotalIsCurrent /\ SpentIsSum /\ NoOrphans
        /\ req \in [Request -> Held]
    BY DEF BudgetInvariant, TypeOK, Held
  <1>2. /\ req[r].op = "drop" /\ req[r].at = "cascade"
        /\ categories' = categories \ gone
        /\ expenses' = {e \in expenses : category_id[e] \notin gone}
        /\ budget' = IF req[r].category = NoCategory THEN "deleted" ELSE budget
        /\ req' = [req EXCEPT ![r] = Idle]
        /\ UNCHANGED <<used, spent_amount, category_id, missed>>
    BY DEF DropCommits
  <1>3. /\ req' \in [Request -> Held] /\ req'[r] = Idle
        /\ \A q \in Request \ {r} : req'[q] = req[q]
    BY <1>1, <1>2, IdleHeld
  <1>4. TypeOK'
    BY <1>1, <1>2, <1>3 DEF TypeOK, Held
  <1>5. RequestsAreSound' /\ ExpenseInHand'
    BY <1>1, <1>2, <1>3, IdleHeld DEF RequestsAreSound, ExpenseInHand
  <1>6. LocksKeepCategories'
    BY <1>1, <1>2, <1>3, IdleHeld DEF LocksKeepCategories
  <1>7. \A c \in Category \ gone : Of(c)' = Of(c)
    BY <1>2 DEF Of
  <1>8. TotalIsCurrent'
    <2>1. ASSUME NEW q \in Request, req'[q].op \in {"add", "delete"},
                 req'[q].category \in categories'
          PROVE  /\ req'[q] = req[q] /\ req[q].category \in categories
                 /\ Resulting(q)' = Resulting(q)
      <3>1. req'[q] = req[q]
        BY <1>3, <2>1, IdleHeld
      <3>2. req[q].category \in Category \ gone /\ req[q].category \in categories
        BY <1>1, <1>2, <2>1, <3>1 DEF TypeOK
      <3> QED
        BY <1>7, <3>1, <3>2 DEF Resulting
    <2> QED
      BY <1>1, <2>1 DEF TotalIsCurrent
  <1>9. SpentIsSum' /\ NoOrphans'
    <2>1. SpentIsSum'
      BY <1>1, <1>2, <1>7 DEF SpentIsSum, TypeOK
    <2>2. req[r].category = NoCategory => categories' = {}
      BY <1>1, <1>2 DEF LocksKeepCategories
    <2> QED
      BY <1>1, <1>2, <2>1, <2>2 DEF NoOrphans
  <1> QED
    BY <1>4, <1>5, <1>6, <1>8, <1>9 DEF BudgetInvariant

(* What a request that adds or deletes an expense leaves in each category.   *)
LEMMA CommitEffect ==
    ASSUME BudgetInvariant, NEW r \in Request, CommitExpense(r),
           NEW c, c = req[r].category, NEW e, e = req[r].expense
    PROVE  /\ Of(c)' = Resulting(r)
           /\ \A d \in Category \ {c} : Of(d)' = Of(d)
           /\ \A x \in Expense \ {e} : category_id'[x] = category_id[x]
           /\ category_id'[e] = c
           /\ c \in used /\ c \in Category /\ e \in Expense /\ c # NoCategory
           /\ req[r].op = "add" => c \in categories
  <1>1. /\ TypeOK /\ RequestsAreSound /\ ExpenseInHand /\ LocksKeepCategories /\ NoOrphans
    BY DEF BudgetInvariant
  <1>2. /\ req[r].op \in {"add", "delete"} /\ req[r].at = "commit"
        /\ expenses' = IF req[r].op = "add" THEN expenses \cup {e} ELSE expenses \ {e}
        /\ category_id' = [category_id EXCEPT ![e] = c]
    BY DEF CommitExpense
  <1>3. c \in used /\ c \in Category /\ e \in Expense /\ c # NoCategory
    BY <1>1, <1>2 DEF RequestsAreSound, TypeOK
  <1>4. /\ \A x \in Expense \ {e} : category_id'[x] = category_id[x]
        /\ category_id'[e] = c
        /\ category_id[e] \in {c, NoCategory}
    BY <1>1, <1>2, <1>3 DEF TypeOK, ExpenseInHand
  <1>5. expenses \subseteq Expense
    BY <1>1 DEF TypeOK
  <1>6. Of(c)' = IF req[r].op = "add" THEN Of(c) \cup {e} ELSE Of(c) \ {e}
    BY <1>2, <1>4, <1>5 DEF Of
  <1>7. \A d \in Category \ {c} : Of(d)' = Of(d)
    BY <1>2, <1>3, <1>4, <1>5 DEF Of
  <1>8. req[r].op = "add" => c \in categories
    BY <1>1, <1>2, <1>3 DEF LocksKeepCategories
  <1> QED
    BY <1>3, <1>4, <1>6, <1>7, <1>8 DEF Resulting

(* A commit stores what its sub-select counted, and outdates every other     *)
(* sub-select on the category.                                              *)
LEMMA CommitKeeps ==
    ASSUME BudgetInvariant, NEW r \in Request, CommitExpense(r)
    PROVE  BudgetInvariant'
  <1>0. PICK c, e : c = req[r].category /\ e = req[r].expense
    OBVIOUS
  <1>1. /\ TypeOK /\ RequestsAreSound /\ ExpenseInHand /\ LocksKeepCategories
        /\ TotalIsCurrent /\ SpentIsSum /\ NoOrphans
        /\ req \in [Request -> Held]
    BY DEF BudgetInvariant, TypeOK, Held
  <1>2. /\ req[r].op \in {"add", "delete"} /\ req[r].at = "commit"
        /\ expenses' = IF req[r].op = "add" THEN expenses \cup {e} ELSE expenses \ {e}
        /\ category_id' = [category_id EXCEPT ![e] = c]
        /\ spent_amount' = IF c \in categories THEN [spent_amount EXCEPT ![c] = req[r].total]
                                                ELSE spent_amount
        /\ req' = Outdates(r)
        /\ missed' = IF req[r].outdated THEN missed \cup {c} ELSE missed \ {c}
        /\ UNCHANGED <<budget, used, categories>>
    BY <1>0 DEF CommitExpense
  <1>3. /\ Of(c)' = Resulting(r)
        /\ \A d \in Category \ {c} : Of(d)' = Of(d)
        /\ \A x \in Expense \ {e} : category_id'[x] = category_id[x]
        /\ category_id'[e] = c
        /\ c \in used /\ c \in Category /\ e \in Expense /\ c # NoCategory
        /\ req[r].op = "add" => c \in categories
    BY <1>0, CommitEffect
  <1>4. req[r].total \in Nat
    BY <1>1 DEF Held
  <1>5. /\ req'[r] = Idle
        /\ \A q \in Request \ {r} :
             /\ req'[q] \in Held
             /\ req'[q].op = req[q].op /\ req'[q].at = req[q].at
             /\ req'[q].category = req[q].category /\ req'[q].expense = req[q].expense
             /\ req'[q].total = req[q].total /\ req'[q].cats = req[q].cats
             /\ req'[q].op = "none" => req'[q] = Idle
             /\ ~req'[q].outdated => ~req[q].outdated /\ ~Recomputes(q, c)
    <2>1. req'[r] = Idle
      BY <1>2 DEF Outdates
    <2>2. ASSUME NEW q \in Request \ {r}
          PROVE  /\ req'[q] \in Held
                 /\ req'[q].op = req[q].op /\ req'[q].at = req[q].at
                 /\ req'[q].category = req[q].category /\ req'[q].expense = req[q].expense
                 /\ req'[q].total = req[q].total /\ req'[q].cats = req[q].cats
                 /\ req'[q].op = "none" => req'[q] = Idle
                 /\ ~req'[q].outdated => ~req[q].outdated /\ ~Recomputes(q, c)
      <3> DEFINE late == req[q].outdated \/ Recomputes(q, c)
      <3>1. req'[q] = [req[q] EXCEPT !.outdated = late]
        BY <1>0, <1>2 DEF Outdates
      <3>2. req[q] \in Held /\ late \in BOOLEAN
        BY <1>1 DEF Held
      <3>3. req[q].op = "none" => req[q] = Idle /\ late = FALSE
        BY <1>1 DEF RequestsAreSound, Idle
      <3>4. ~late => ~req[q].outdated /\ ~Recomputes(q, c)
        OBVIOUS
      <3> HIDE DEF late
      <3>5. req[q].op = "none" => req'[q] = Idle
        BY <3>1, <3>3, IdleHeld
      <3> QED
        BY <3>1, <3>2, <3>4, <3>5 DEF Held
    <2> QED
      BY <2>1, <2>2
  <1>6. TypeOK'
    <2>1. req' \in [Request -> Held]
      BY <1>2, <1>5, IdleHeld DEF Outdates
    <2>2. /\ spent_amount' \in [Category -> Nat] /\ missed' \subseteq Category
          /\ expenses' \subseteq Expense
          /\ category_id' \in [Expense -> Category \cup {NoCategory}]
      BY <1>1, <1>2, <1>3, <1>4 DEF TypeOK
    <2> QED
      BY <1>1, <1>2, <2>1, <2>2 DEF TypeOK, Held
  <1>7. RequestsAreSound'
    <2>1. \A d \in Category \ used : spent_amount'[d] = 0
      BY <1>1, <1>2, <1>3 DEF RequestsAreSound, TypeOK
    <2> QED
      BY <1>1, <1>2, <1>5, <2>1, IdleHeld DEF RequestsAreSound
  <1>8. ExpenseInHand'
    <2>1. \A q \in Request \ {r} :
            /\ req[q].op = "add" => req[q].expense # e
            /\ req[q].op = "delete" /\ req[q].expense = e => req[q].category = c
      <3>1. category_id[e] = c \/ (req[r].op = "add" /\ category_id[e] = NoCategory)
        BY <1>0, <1>1, <1>2 DEF ExpenseInHand
      <3>2. \A q \in Request : req[q].op = "delete" => req[q].category # NoCategory
        BY <1>1 DEF RequestsAreSound, TypeOK
      <3> QED
        BY <1>0, <1>1, <1>3, <3>1, <3>2 DEF ExpenseInHand
    <2>2. \A q \in Request : req[q].op \in {"add", "delete"} => req[q].expense \in Expense
      BY <1>1 DEF RequestsAreSound
    <2> QED
      BY <1>1, <1>3, <1>5, <2>1, <2>2, IdleHeld DEF ExpenseInHand
  <1>9. LocksKeepCategories'
    BY <1>1, <1>2, <1>5, IdleHeld DEF LocksKeepCategories
  <1>10. TotalIsCurrent'
    <2>1. ASSUME NEW q \in Request \ {r}, req[q].op \in {"add", "delete"}, ~req'[q].outdated
          PROVE  Resulting(q)' = Resulting(q) /\ ~req[q].outdated
      <3>1. req[q].category \in Category \ {c} /\ ~req[q].outdated
        BY <1>1, <1>5, <2>1 DEF RequestsAreSound, TypeOK
      <3>2. PICK d \in Category \ {c} : d = req[q].category
        BY <3>1
      <3>3. Of(d)' = Of(d) /\ d = req'[q].category
        BY <1>3, <1>5, <3>2
      <3> QED
        BY <1>5, <3>1, <3>2, <3>3 DEF Resulting
    <2> QED
      BY <1>1, <1>2, <1>5, <2>1, IdleHeld DEF TotalIsCurrent
  <1>11. SpentIsSum'
    <2> SUFFICES ASSUME NEW d \in categories, d \notin missed'
                 PROVE  spent_amount'[d] = Total(Of(d)')
      BY <1>2 DEF SpentIsSum
    <2>1. d \in Category
      BY <1>1 DEF TypeOK
    <2>2. CASE d = c
      <3>1. ~req[r].outdated
        BY <1>2, <2>2
      <3>2. req[r].total = Total(Resulting(r))
        BY <1>0, <1>1, <1>2, <2>2, <3>1 DEF TotalIsCurrent
      <3>3. spent_amount'[c] = req[r].total
        BY <1>1, <1>2, <1>4, <2>2 DEF TypeOK
      <3> QED
        BY <1>3, <2>2, <3>2, <3>3
    <2>3. CASE d # c
      <3>1. spent_amount'[d] = spent_amount[d] /\ d \notin missed
        BY <1>1, <1>2, <2>1, <2>3 DEF TypeOK
      <3>2. Of(d)' = Of(d)
        BY <1>3, <2>1, <2>3
      <3> QED
        BY <1>1, <3>1, <3>2 DEF SpentIsSum
    <2> QED
      BY <2>2, <2>3
  <1>12. NoOrphans'
    BY <1>1, <1>2, <1>3 DEF NoOrphans, TypeOK
  <1> QED
    BY <1>6, <1>7, <1>8, <1>9, <1>10, <1>11, <1>12 DEF BudgetInvariant

-----------------------------------------------------------------------------
(* Before the first budget the invariant holds.                              *)
LEMMA InitBudgets == Init => BudgetInvariant
  <1> SUFFICES ASSUME Init PROVE BudgetInvariant
    OBVIOUS
  <1>1. req \in [Request -> Held] /\ \A r \in Request : req[r] = Idle /\ req[r].op = "none"
    BY IdleHeld DEF Init
  <1>2. TypeOK
    BY <1>1 DEF Init, TypeOK, Held
  <1> QED
    BY <1>1, <1>2 DEF Init, BudgetInvariant, RequestsAreSound, ExpenseInHand,
       LocksKeepCategories, TotalIsCurrent, SpentIsSum, NoOrphans

(* Every step keeps it.                                                      *)
LEMMA StepKeepsBudgets ==
    ASSUME BudgetInvariant, [Next]_vars
    PROVE  BudgetInvariant'
  <1>1. ASSUME NEW cs \in SUBSET Category, create_budget(cs)
        PROVE  BudgetInvariant'
    BY <1>1, CreateKeeps
  <1>2. ASSUME NEW c \in Category, add_category(c)
        PROVE  BudgetInvariant'
    BY <1>2, AddCategoryKeeps
  <1>3. ASSUME NEW r \in Request, add_expense(r) \/ delete_expense(r)
        PROVE  BudgetInvariant'
    BY <1>3, BeginsKeeps, StatementKeeps DEF add_expense, delete_expense
  <1>4. ASSUME NEW r \in Request, delete_category(r)
        PROVE  BudgetInvariant'
    BY <1>4, BeginsKeeps, DropDeletesKeeps, DropCommitsKeeps DEF delete_category
  <1>5. ASSUME NEW r \in Request,
               Recompute(r) \/ UpdateTotal(r) \/ CommitExpense(r) \/ Aborts(r)
        PROVE  BudgetInvariant'
    BY <1>5, RecomputeKeeps, StatementKeeps, CommitKeeps, BeginsKeeps
  <1>6. CASE UNCHANGED vars
    <2>1. /\ \A c : Of(c)' = Of(c)
          /\ \A r : Resulting(r)' = Resulting(r)
      BY <1>6 DEF vars, Of, Resulting
    <2> QED
      BY <1>6, <2>1 DEF vars, BudgetInvariant, TypeOK, RequestsAreSound, ExpenseInHand,
         LocksKeepCategories, TotalIsCurrent, SpentIsSum, NoOrphans
  <1> QED
    BY <1>1, <1>2, <1>3, <1>4, <1>5, <1>6 DEF Next

(* Whatever additions, deletions, cascades and aborts overlap, the invariant *)
(* of Budgets holds.                                                        *)
THEOREM BudgetInvariance == Spec => []BudgetInvariant
  BY InitBudgets, StepKeepsBudgets, PTL DEF Spec

(* Every row and every half-done request of the budget handlers stays in its *)
(* range; no stored total goes negative.                                    *)
THEOREM BudgetTypes == Spec => []TypeOK
  <1>1. BudgetInvariant => TypeOK
    BY DEF BudgetInvariant
  <1> QED
    BY BudgetInvariance, <1>1, PTL

(* _recompute_spent_amount: the stored total is the sum of the expenses of   *)
(* its category unless the last recompute took its sub-select before another *)
(* request committed to the category.                                       *)
THEOREM TotalsAreRecomputed == Spec => []SpentIsSum
  <1>1. BudgetInvariant => SpentIsSum
    BY DEF BudgetInvariant
  <1> QED
    BY BudgetInvariance, <1>1, PTL

(* delete_category, delete_budget: no expense is left without its category,  *)
(* though it was added while the deletion was under way.                    *)
THEOREM NothingIsOrphaned == Spec => []NoOrphans
  <1>1. BudgetInvariant => NoOrphans
    BY DEF BudgetInvariant
  <1> QED
    BY BudgetInvariance, <1>1, PTL
=============================================================================
