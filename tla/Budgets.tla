------------------------------- MODULE Budgets -------------------------------
(***************************************************************************)
(* Monthly budgets: store.UpsertBudget, which updates first and inserts    *)
(* when nothing was updated, and the deletions that race it                *)
(* (store/features.go).  Each statement is one step; requests interleave   *)
(* between their statements.                                               *)
(*                                                                         *)
(* Left out: what has been spent, which is computed when budgets are       *)
(* listed, and requests refused before the first statement.                *)
(***************************************************************************)
EXTENDS Naturals, Sequences

CONSTANTS
  Handlers,   \* request slots: the upserts that may run at the same time
  Periods,    \* month and kind of a budget
  People,     \* ids of people that have existed
  Everyone,   \* person_id NULL: a budget of the whole household
  Amounts,
  Deleted,    \* a row that is no longer there
  MaxRows     \* bound: rows ever inserted

VARIABLES
  budgets,   \* the rows; the id of a row (AUTOINCREMENT) is its position
  people,    \* rows of people
  pc,        \* pc[h]: the next statement of upsert h
  job,       \* job[h]: the budget h was asked to set
  answer,    \* answer[h]: the id h reported, 0 for none
  crossed    \* history: another upsert has written h's key since h's update

vars == <<budgets, people, pc, job, answer, crossed>>

Budget == [period : Periods, person : People \cup {Everyone}, amount : Amounts]

Steps == {"idle", "update", "select", "insert", "answered"}

SameKey(b, c) == b.period = c.period /\ b.person = c.person

Rows == {i \in DOMAIN budgets : budgets[i] # Deleted}

(* WHERE month = ? AND kind = ? AND (person_id = ?, or both are NULL).     *)
EqualNotNull(b) ==
  {i \in Rows : SameKey(budgets[i], b) /\ b.person # Everyone}

MatchingPeriod(b) == {i \in Rows : budgets[i].period = b.period}

Matching(b) == {i \in Rows : SameKey(budgets[i], b)}

(* UNIQUE(month, person_id, kind) counts NULLs as different; the person    *)
(* must exist.                                                             *)
InsertableForAnyone(b) == b.person # Everyone => Matching(b) = {}

Insertable(b) ==
  b.person # Everyone => b.person \in people /\ Matching(b) = {}

(* The upserts whose key h writes are crossed by it.                       *)
Crossing(h) == [g \in Handlers |-> crossed[g] \/ (g # h /\ SameKey(job[g], job[h]))]

Goto(h, from, to) == pc[h] = from /\ pc' = [pc EXCEPT ![h] = to]

----------------------------------------------------------------------------

Init ==
  /\ budgets = <<>>
  /\ people = People
  /\ pc = [h \in Handlers |-> "idle"]
  /\ job \in [Handlers -> Budget]
  /\ answer = [h \in Handlers |-> 0]
  /\ crossed = [h \in Handlers |-> FALSE]

UpsertBudget(h, b) ==
  /\ Goto(h, "idle", "update")
  /\ job' = [job EXCEPT ![h] = b]
  /\ UNCHANGED <<budgets, people, answer, crossed>>

UpdateFirst(h) ==
  /\ pc[h] = "update"
  /\ budgets' = [i \in DOMAIN budgets |->
                   IF i \in Matching(job[h])
                     THEN [budgets[i] EXCEPT !.amount = job[h].amount] ELSE budgets[i]]
  /\ pc' = [pc EXCEPT ![h] = IF Matching(job[h]) # {} THEN "select" ELSE "insert"]
  /\ crossed' = [IF Matching(job[h]) # {} THEN Crossing(h) ELSE crossed EXCEPT ![h] = FALSE]
  /\ UNCHANGED <<people, job, answer>>

(* SELECT id ... ORDER BY id LIMIT 1                                       *)
SelectId(h) ==
  /\ Goto(h, "select", "answered")
  /\ \E i \in Matching(job[h]) :
       /\ \A j \in Matching(job[h]) : i <= j
       /\ answer' = [answer EXCEPT ![h] = i]
  /\ UNCHANGED <<budgets, people, job, crossed>>

Insert(h) ==
  /\ Goto(h, "insert", "answered")
  /\ Len(budgets) < MaxRows
  /\ Insertable(job[h])
  /\ budgets' = Append(budgets, job[h])
  /\ answer' = [answer EXCEPT ![h] = Len(budgets) + 1]
  /\ crossed' = Crossing(h)
  /\ UNCHANGED <<people, job>>

(* A statement fails: the update itself, a selected row that is gone, an   *)
(* insert the database refuses, or any of them for reasons of its own.     *)
UpsertFails(h) ==
  /\ pc[h] \in {"update", "select", "insert"}
  /\ pc' = [pc EXCEPT ![h] = "answered"]
  /\ UNCHANGED <<budgets, people, job, answer, crossed>>

Depart(h) ==
  /\ Goto(h, "answered", "idle")
  /\ answer' = [answer EXCEPT ![h] = 0]
  /\ UNCHANGED <<budgets, people, job, crossed>>

DeleteBudget(i) ==
  /\ i \in Rows
  /\ budgets' = [budgets EXCEPT ![i] = Deleted]
  /\ UNCHANGED <<people, pc, job, answer, crossed>>

(* The row of a person is deleted, and the budgets of that person with it  *)
(* (ON DELETE CASCADE).                                                    *)
DeletePerson(p) ==
  /\ p \in people
  /\ people' = people \ {p}
  /\ budgets' = [i \in DOMAIN budgets |->
                   IF i \in Rows /\ budgets[i].person = p THEN Deleted ELSE budgets[i]]
  /\ UNCHANGED <<pc, job, answer, crossed>>

Restart ==
  /\ pc' = [h \in Handlers |-> "idle"]
  /\ answer' = [h \in Handlers |-> 0]
  /\ crossed' = [h \in Handlers |-> FALSE]
  /\ UNCHANGED <<budgets, people, job>>

Upsert(h) == UpdateFirst(h) \/ SelectId(h) \/ Insert(h) \/ UpsertFails(h)

Next ==
  \/ \E h \in Handlers :
       \/ \E b \in Budget : UpsertBudget(h, b)
       \/ Upsert(h)
       \/ Depart(h)
  \/ \E i \in DOMAIN budgets : DeleteBudget(i)
  \/ \E p \in People : DeletePerson(p)
  \/ Restart

Spec == Init /\ [][Next]_vars

----------------------------------------------------------------------------
(* Assumptions and properties *)

ASSUME BudgetsAssumption ==
  MaxRows \in Nat /\ Everyone \notin People /\ Deleted \notin Budget

TypeOK ==
  /\ budgets \in Seq(Budget \cup {Deleted})
  /\ people \subseteq People
  /\ pc \in [Handlers -> Steps]
  /\ job \in [Handlers -> Budget]
  /\ answer \in [Handlers -> Nat]
  /\ crossed \in [Handlers -> BOOLEAN]

(* What the repository claims: "so a global budget is a true upsert too"   *)
(* (store/features.go:164-165), and "global budget was duplicated" fails   *)
(* features_test.go: a month, kind and person, or no person, has at most   *)
(* one budget.  False of upserts of the household's budget that overlap.   *)
OneBudgetPerKey ==
  \A i, j \in Rows : SameKey(budgets[i], budgets[j]) => i = j

(* What does hold, of any number of overlapping upserts and deletions: a   *)
(* budget is added beside one of the same key only for the household, and  *)
(* only by a request that looked before the other upsert of that key       *)
(* wrote.  Requests that follow each other never make a second budget.     *)
SecondOnlyByRace ==
  [][\A h \in Handlers :
       /\ pc[h] = "insert" /\ budgets' # budgets /\ pc'[h] = "answered"
       /\ \E i \in Rows : SameKey(budgets[i], job[h])
       => job[h].person = Everyone /\ crossed[h]]_vars

(* No budget is left for a person who was deleted, not even by a request   *)
(* that looked for the budget before and inserts it after the deletion.    *)
NoOrphanBudget ==
  \A i \in Rows : budgets[i].person \in people \cup {Everyone}

(* A request answered with an id has set that very row, whichever of the   *)
(* two paths it took: a budget of the key asked for, with the amount asked *)
(* for unless another upsert of the key wrote in between, and then the     *)
(* amount is that of the later writer.                                     *)
AnsweredIsStored ==
  [][\A h \in Handlers : answer[h] = 0 /\ answer'[h] # 0 =>
       /\ answer'[h] \in DOMAIN budgets'
       /\ budgets'[answer'[h]] \in Budget
       /\ SameKey(budgets'[answer'[h]], job[h])
       /\ ~ crossed[h] => budgets'[answer'[h]].amount = job[h].amount]_vars

----------------------------------------------------------------------------
(* The inductive invariant *)

(* What an upsert found out is still so when it acts on it, unless another *)
(* upsert of its key wrote in between: deletions only take rows away.      *)
FoundInv ==
  \A h \in Handlers : ~ crossed[h] =>
    /\ pc[h] = "insert" => Matching(job[h]) = {}
    /\ pc[h] = "select" =>
         \A i \in Matching(job[h]) : budgets[i].amount = job[h].amount

BudgetsInv ==
  /\ TypeOK
  /\ NoOrphanBudget
  /\ FoundInv

=============================================================================
