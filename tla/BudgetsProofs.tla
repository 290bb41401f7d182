---------------------------- MODULE BudgetsProofs ----------------------------
(***************************************************************************)
(* Proofs about Budgets, for any number of upserts at a time, any people,  *)
(* periods and amounts.                                                    *)
(***************************************************************************)
EXTENDS Budgets, TLAPS

(* Init: no budgets. *)
LEMMA BudgetsInit == Init => BudgetsInv
  BY BudgetsAssumption
  DEF Init, BudgetsInv, TypeOK, Steps, NoOrphanBudget, FoundInv, Rows

(* Appending a row keeps the others. *)
LEMMA InsertRows ==
  ASSUME TypeOK, NEW b \in Budget, budgets' = Append(budgets, b)
  PROVE  /\ Rows' = Rows \cup {Len(budgets) + 1}
         /\ Len(budgets) + 1 \notin Rows
         /\ budgets'[Len(budgets) + 1] = b
         /\ \A i \in Rows : budgets'[i] = budgets[i]
  BY BudgetsAssumption DEF TypeOK, Rows

(* Setting the amount of a budget keeps the rest.                          *)
LEMMA SetAmount ==
  ASSUME NEW b \in Budget, NEW a \in Amounts
  PROVE  LET c == [b EXCEPT !.amount = a]
         IN  c \in Budget /\ SameKey(c, b) /\ c.amount = a
  BY DEF Budget, SameKey

LEMMA UpdateRows ==
  ASSUME TypeOK, NEW h \in Handlers, UpdateFirst(h)
  PROVE  /\ DOMAIN budgets' = DOMAIN budgets /\ Rows' = Rows
         /\ budgets' \in Seq(Budget \cup {Deleted})
         /\ \A i \in Rows : SameKey(budgets'[i], budgets[i])
         /\ \A i \in Matching(job[h]) : budgets'[i].amount = job[h].amount
<1> USE BudgetsAssumption
<1>t. budgets \in Seq(Budget \cup {Deleted}) /\ job[h] \in Budget
  BY DEF TypeOK
<1>1. job[h].amount \in Amounts
  BY <1>t DEF Budget
<1>2. DOMAIN budgets' = DOMAIN budgets
  BY DEF UpdateFirst
<1>3. ASSUME NEW i \in Rows
      PROVE  /\ budgets'[i] \in Budget /\ SameKey(budgets'[i], budgets[i])
             /\ i \in Matching(job[h]) => budgets'[i].amount = job[h].amount
  <2>1. budgets[i] \in Budget /\ i \in DOMAIN budgets
    BY <1>t DEF Rows
  <2>2. CASE i \in Matching(job[h])
    <3>1. budgets'[i] = [budgets[i] EXCEPT !.amount = job[h].amount]
      BY <2>1, <2>2 DEF UpdateFirst
    <3> QED
      BY <1>1, <2>1, <3>1, SetAmount
  <2>3. CASE i \notin Matching(job[h])
    BY <2>1, <2>3 DEF UpdateFirst, SameKey
  <2> QED
    BY <2>2, <2>3
<1>4. \A i \in DOMAIN budgets \ Rows : budgets'[i] = Deleted
  BY DEF UpdateFirst, Matching, Rows
<1>5. Rows' = Rows
  BY <1>2, <1>3, <1>4 DEF Rows
<1>6. budgets' \in Seq(Budget \cup {Deleted})
  <2>1. \A i \in DOMAIN budgets : budgets'[i] \in Budget \cup {Deleted}
    BY <1>3, <1>4
  <2>2. budgets' = [i \in DOMAIN budgets |-> budgets'[i]] /\ DOMAIN budgets = 1 .. Len(budgets)
    BY DEF UpdateFirst
  <2> QED
    BY <1>t, <2>1, <2>2
<1> QED
  BY <1>2, <1>3, <1>5, <1>6 DEF Matching

LEMMA CrossingTypes ==
  ASSUME TypeOK, NEW h \in Handlers
  PROVE  Crossing(h) \in [Handlers -> BOOLEAN]
  BY DEF Crossing, TypeOK, SameKey

(* Every step keeps the types. *)
LEMMA BudgetsTypes ==
  ASSUME BudgetsInv, [Next]_vars
  PROVE  TypeOK'
<1> USE BudgetsAssumption DEF BudgetsInv, TypeOK
<1>1. ASSUME NEW h \in Handlers, NEW b \in Budget, UpsertBudget(h, b) PROVE TypeOK'
  BY <1>1 DEF UpsertBudget, Goto, Steps
<1>2. ASSUME NEW h \in Handlers, UpdateFirst(h) PROVE TypeOK'
  <2>1. crossed' \in [Handlers -> BOOLEAN]
    BY <1>2, CrossingTypes DEF UpdateFirst
  <2> QED
    BY <1>2, <2>1, UpdateRows DEF UpdateFirst, Steps
<1>3. ASSUME NEW h \in Handlers, SelectId(h) PROVE TypeOK'
  BY <1>3 DEF SelectId, Goto, Steps, Matching, Rows
<1>4. ASSUME NEW h \in Handlers, Insert(h) PROVE TypeOK'
  <2>1. crossed' \in [Handlers -> BOOLEAN]
    BY <1>4, CrossingTypes DEF Insert
  <2>2. budgets' \in Seq(Budget \cup {Deleted}) /\ answer' \in [Handlers -> Nat]
    <3>1. budgets \in Seq(Budget \cup {Deleted}) /\ job[h] \in Budget /\ answer \in [Handlers -> Nat]
      OBVIOUS
    <3> HIDE DEF TypeOK, BudgetsInv
    <3> QED
      BY <1>4, <3>1 DEF Insert
  <2> QED
    BY <1>4, <2>1, <2>2 DEF Insert, Goto, Steps
<1>5. ASSUME NEW h \in Handlers, UpsertFails(h) \/ Depart(h) PROVE TypeOK'
  <2>1. pc' \in [Handlers -> Steps]
    BY <1>5 DEF UpsertFails, Depart, Goto, Steps
  <2>2. answer' \in [Handlers -> Nat]
    <3>1. answer \in [Handlers -> Nat]
      OBVIOUS
    <3> HIDE DEF TypeOK, BudgetsInv
    <3> QED
      BY <1>5, <3>1 DEF UpsertFails, Depart
  <2> QED
    BY <1>5, <2>1, <2>2 DEF UpsertFails, Depart
<1>6. ASSUME NEW i \in DOMAIN budgets, DeleteBudget(i) PROVE TypeOK'
  BY <1>6 DEF DeleteBudget
<1>7. ASSUME NEW p \in People, DeletePerson(p) PROVE TypeOK'
  BY <1>7 DEF DeletePerson
<1>8. CASE Restart
  BY <1>8 DEF Restart, Steps
<1>9. CASE UNCHANGED vars
  BY <1>9 DEF vars
<1> QED
  BY <1>1, <1>2, <1>3, <1>4, <1>5, <1>6, <1>7, <1>8, <1>9 DEF Next, Upsert

(* A step other than an insert leaves the same rows or fewer, for the same *)
(* keys.                                                                   *)
LEMMA RowsShrink ==
  ASSUME TypeOK, Next, \A h \in Handlers : ~ Insert(h)
  PROVE  /\ Rows' \subseteq Rows
         /\ \A i \in Rows' : SameKey(budgets'[i], budgets[i])
<1> USE BudgetsAssumption DEF TypeOK, Rows, SameKey
<1>1. ASSUME NEW h \in Handlers, UpdateFirst(h)
      PROVE  Rows' \subseteq Rows /\ \A i \in Rows' : SameKey(budgets'[i], budgets[i])
  BY <1>1, UpdateRows
<1>2. ASSUME NEW h \in Handlers, SelectId(h) \/ UpsertFails(h) \/ Depart(h)
      PROVE  budgets' = budgets
  BY <1>2 DEF SelectId, UpsertFails, Depart
<1>3. ASSUME NEW i \in DOMAIN budgets, DeleteBudget(i)
      PROVE  Rows' \subseteq Rows /\ \A j \in Rows' : budgets'[j] = budgets[j]
  BY <1>3 DEF DeleteBudget
<1>4. ASSUME NEW p \in People, DeletePerson(p)
      PROVE  Rows' \subseteq Rows /\ \A j \in Rows' : budgets'[j] = budgets[j]
  BY <1>4 DEF DeletePerson
<1>5. ASSUME Restart \/ \E h \in Handlers, b \in Budget : UpsertBudget(h, b)
      PROVE  budgets' = budgets
  BY <1>5 DEF Restart, UpsertBudget
<1> QED
  BY <1>1, <1>2, <1>3, <1>4, <1>5 DEF Next, Upsert

(* Every step keeps budgets of people who exist. *)
LEMMA OrphanStep ==
  ASSUME BudgetsInv, [Next]_vars
  PROVE  NoOrphanBudget'
<1> USE BudgetsAssumption DEF BudgetsInv, NoOrphanBudget
<1>1. ASSUME NEW h \in Handlers, Insert(h) PROVE NoOrphanBudget'
  <2>1. job[h] \in Budget
    BY DEF TypeOK
  <2>2. job[h].person \in people \cup {Everyone} /\ people' = people
    BY <1>1, <2>1 DEF Insert, Insertable, Budget
  <2> QED
    BY <1>1, <2>1, <2>2, InsertRows DEF Insert
<1>2. ASSUME NEW p \in People, DeletePerson(p) PROVE NoOrphanBudget'
  BY <1>2 DEF DeletePerson, TypeOK, Rows
<1>3. ASSUME Next, \A h \in Handlers : ~ Insert(h), \A p \in People : ~ DeletePerson(p)
      PROVE  NoOrphanBudget'
  <2>1. people' = people
    BY <1>3 DEF Next, Upsert, UpsertBudget, UpdateFirst, SelectId, UpsertFails, Depart,
                DeleteBudget, Restart
  <2> QED
    BY <1>3, <2>1, RowsShrink DEF SameKey
<1>4. CASE UNCHANGED vars
  BY <1>4 DEF vars, Rows
<1> QED
  BY <1>1, <1>2, <1>3, <1>4 DEF Next

----------------------------------------------------------------------------

(* Every step keeps what the upserts have found out, or marks them.        *)
LEMMA FoundStep ==
  ASSUME BudgetsInv, [Next]_vars
  PROVE  FoundInv'
<1> USE BudgetsAssumption DEF BudgetsInv
<1>1. ASSUME NEW h \in Handlers, Insert(h) PROVE FoundInv'
  <2>1. job' = job /\ job \in [Handlers -> Budget]
    BY <1>1 DEF Insert, TypeOK
  <2>2. /\ Rows' = Rows \cup {Len(budgets) + 1}
        /\ budgets'[Len(budgets) + 1] = job[h]
        /\ \A i \in Rows : budgets'[i] = budgets[i]
    BY <1>1, <2>1, InsertRows DEF Insert
  <2>3. SUFFICES ASSUME NEW g \in Handlers, ~ crossed'[g], pc'[g] \in {"insert", "select"}
                 PROVE  /\ pc'[g] = "insert" => Matching(job[g])' = {}
                        /\ pc'[g] = "select" =>
                             \A i \in Matching(job[g])' : budgets'[i].amount = job'[g].amount
    BY DEF FoundInv
  <2>4. g # h /\ pc'[g] = pc[g]
    BY <1>1, <2>3 DEF Insert, Goto, TypeOK
  <2>5. ~ crossed[g] /\ ~ SameKey(job[g], job[h])
    BY <1>1, <2>3, <2>4 DEF Insert, Crossing
  <2>6. Matching(job[g])' = Matching(job[g])
    BY <2>1, <2>2, <2>5 DEF Matching, SameKey
  <2>7. \A i \in Matching(job[g]) : budgets'[i] = budgets[i]
    BY <2>2 DEF Matching
  <2> QED
    BY <2>1, <2>4, <2>5, <2>6, <2>7 DEF FoundInv
<1>2. ASSUME NEW h \in Handlers, UpdateFirst(h) PROVE FoundInv'
  <2>1. job' = job /\ \A g \in Handlers : Matching(job[g])' = Matching(job[g])
    BY <1>2, UpdateRows DEF UpdateFirst, Matching, SameKey
  <2>2. \A i \in Matching(job[h]) : budgets'[i].amount = job[h].amount
    BY <1>2, UpdateRows
  <2>3. pc'[h] = "insert" => Matching(job[h]) = {}
    BY <1>2 DEF UpdateFirst, TypeOK
  <2>4. ASSUME NEW g \in Handlers \ {h}, ~ crossed'[g]
        PROVE  /\ pc'[g] = "insert" => Matching(job[g]) = {}
               /\ pc'[g] = "select" =>
                    \A i \in Matching(job[g]) : budgets'[i].amount = job[g].amount
    <3>1. pc'[g] = pc[g]
      BY <1>2, <2>4 DEF UpdateFirst, TypeOK
    <3>2. CASE Matching(job[h]) = {}
      <4>1. ~ crossed[g]
        BY <1>2, <2>4, <3>2 DEF UpdateFirst, TypeOK
      <4>2. \A i \in Rows : budgets'[i] = budgets[i]
        BY <1>2, <3>2 DEF UpdateFirst, Rows
      <4> QED
        BY <3>1, <4>1, <4>2 DEF FoundInv, Matching
    <3>3. CASE Matching(job[h]) # {}
      <4>1. ~ crossed[g] /\ ~ SameKey(job[g], job[h])
        BY <1>2, <2>4, <3>3 DEF UpdateFirst, Crossing, TypeOK
      <4>2. \A i \in Matching(job[g]) : i \notin Matching(job[h])
        BY <4>1 DEF Matching, SameKey
      <4>3. \A i \in Matching(job[g]) : budgets'[i] = budgets[i]
        BY <1>2, <4>2 DEF UpdateFirst, Matching, Rows
      <4> QED
        BY <3>1, <4>1, <4>3 DEF FoundInv
    <3> QED
      BY <3>2, <3>3
  <2> QED
    BY <2>1, <2>2, <2>3, <2>4 DEF FoundInv
<1>3. ASSUME NEW h \in Handlers,
             (\E b \in Budget : UpsertBudget(h, b)) \/ SelectId(h) \/ UpsertFails(h) \/ Depart(h)
      PROVE  FoundInv'
  <2>1. budgets' = budgets /\ crossed' = crossed
    BY <1>3 DEF UpsertBudget, SelectId, UpsertFails, Depart
  <2>2. \A g \in Handlers : pc'[g] \in {"insert", "select"} => pc'[g] = pc[g] /\ job'[g] = job[g]
    BY <1>3 DEF UpsertBudget, SelectId, UpsertFails, Depart, Goto, TypeOK
  <2> QED
    BY <2>1, <2>2 DEF FoundInv, Matching, Rows
<1>4. ASSUME \/ \E i \in DOMAIN budgets : DeleteBudget(i)
             \/ \E p \in People : DeletePerson(p)
      PROVE  FoundInv'
  <2>1. Rows' \subseteq Rows /\ \A j \in Rows' : budgets'[j] = budgets[j]
    BY <1>4 DEF DeleteBudget, DeletePerson, Rows, TypeOK
  <2>2. UNCHANGED <<pc, job, crossed>>
    BY <1>4 DEF DeleteBudget, DeletePerson
  <2> QED
    BY <2>1, <2>2 DEF FoundInv, Matching
<1>5. ASSUME Restart PROVE FoundInv'
  <2>1. \A h \in Handlers : pc'[h] = "idle"
    BY <1>5 DEF Restart
  <2> QED
    BY <2>1 DEF FoundInv
<1>6. CASE UNCHANGED vars
  BY <1>6 DEF vars, FoundInv, Matching, Rows
<1> QED
  BY <1>1, <1>2, <1>3, <1>4, <1>5, <1>6 DEF Next, Upsert

(* The invariant is inductive. *)
THEOREM BudgetsInductive == Spec => []BudgetsInv
<1>1. BudgetsInv /\ [Next]_vars => BudgetsInv'
  BY BudgetsTypes, OrphanStep, FoundStep DEF BudgetsInv
<1> QED
  BY BudgetsInit, <1>1, PTL DEF Spec

(* No budget names a person who was deleted, however requests interleave.  *)
THEOREM NoBudgetIsOrphaned == Spec => []NoOrphanBudget
<1>1. BudgetsInv => NoOrphanBudget
  BY DEF BudgetsInv
<1> QED
  BY BudgetsInductive, <1>1, PTL

(* However upserts overlap and budgets are deleted, a person never gets a  *)
(* second budget of a key, and the household only from a request crossed   *)
(* by another of that key.                                                 *)
THEOREM SecondBudgetsAreRaces == Spec => SecondOnlyByRace
<1> DEFINE ByRace == \A h \in Handlers :
       /\ pc[h] = "insert" /\ budgets' # budgets /\ pc'[h] = "answered"
       /\ \E i \in Rows : SameKey(budgets[i], job[h])
       => job[h].person = Everyone /\ crossed[h]
<1>1. ASSUME BudgetsInv, Next PROVE ByRace
  <2>1. SUFFICES ASSUME NEW h \in Handlers, pc[h] = "insert", budgets' # budgets,
                        pc'[h] = "answered", Matching(job[h]) # {}
                 PROVE  job[h].person = Everyone /\ crossed[h]
    BY DEF Matching
  <2>2. Insert(h)
    BY <1>1, <2>1
       DEF Next, Upsert, UpsertBudget, UpdateFirst, SelectId, Insert, UpsertFails, Depart,
           DeleteBudget, DeletePerson, Restart, Goto, BudgetsInv, TypeOK
  <2> QED
    BY <1>1, <2>1, <2>2 DEF Insert, Insertable, BudgetsInv, FoundInv
<1>2. BudgetsInv /\ [Next]_vars => [ByRace]_vars
  BY <1>1
<1> QED
  BY BudgetsInductive, <1>2, PTL DEF Spec, SecondOnlyByRace

(* An answered budget is the stored one, but for the amount when another   *)
(* upsert of its key has written since.                                    *)
THEOREM AnswersAreStored == Spec => AnsweredIsStored
<1> DEFINE Set(h) == /\ answer'[h] \in DOMAIN budgets'
                     /\ budgets'[answer'[h]] \in Budget
                     /\ SameKey(budgets'[answer'[h]], job[h])
                     /\ ~ crossed[h] => budgets'[answer'[h]].amount = job[h].amount
<1> DEFINE Stored == \A h \in Handlers : answer[h] = 0 /\ answer'[h] # 0 => Set(h)
<1>1. ASSUME BudgetsInv, Next PROVE Stored
  <2> USE BudgetsAssumption DEF BudgetsInv
  <2>1. ASSUME NEW h \in Handlers, SelectId(h) PROVE Stored
    <3>1. PICK i \in Matching(job[h]) : answer' = [answer EXCEPT ![h] = i]
      BY <2>1 DEF SelectId
    <3>2. answer'[h] = i /\ budgets' = budgets /\ \A g \in Handlers \ {h} : answer'[g] = answer[g]
      BY <1>1, <2>1, <3>1 DEF SelectId, TypeOK
    <3>3. /\ i \in DOMAIN budgets /\ budgets[i] \in Budget
          /\ SameKey(budgets[i], job[h])
          /\ ~ crossed[h] => budgets[i].amount = job[h].amount
      BY <1>1, <2>1, <3>1 DEF SelectId, Goto, FoundInv, Matching, Rows, TypeOK
    <3> QED
      BY <3>2, <3>3
  <2>2. ASSUME NEW h \in Handlers, Insert(h) PROVE Stored
    <3>1. job[h] \in Budget /\ SameKey(job[h], job[h])
      BY <1>1 DEF TypeOK, SameKey
    <3>2. /\ answer'[h] \in DOMAIN budgets' /\ budgets'[answer'[h]] = job[h]
          /\ \A g \in Handlers \ {h} : answer'[g] = answer[g]
      BY <1>1, <2>2, <3>1, InsertRows DEF Insert, TypeOK, Rows
    <3> QED
      BY <3>1, <3>2
  <2>3. ASSUME \A h \in Handlers : ~ SelectId(h) /\ ~ Insert(h) PROVE Stored
    BY <1>1, <2>3 DEF Next, Upsert, UpsertBudget, UpdateFirst, UpsertFails, Depart,
                      DeleteBudget, DeletePerson, Restart, TypeOK
  <2> QED
    BY <2>1, <2>2, <2>3
<1>2. BudgetsInv /\ [Next]_vars => [Stored]_vars
  BY <1>1
<1> QED
  BY BudgetsInductive, <1>2, PTL DEF Spec, AnsweredIsStored

=============================================================================
