---------------------------- MODULE LabelsProofs ----------------------------
(***************************************************************************)
(* Proofs about Labels, for any handlers, transactions, people, tags and   *)
(* rules: type correctness, and that no transaction, rule or tag link ever *)
(* refers to a person or tag that does not exist.                          *)
(***************************************************************************)
EXTENDS Labels, TLAPS

LEMMA ForgetTypes ==
  ASSUME TypeOK, NEW h \in Handlers, Forget(h)
  PROVE  /\ job' \in [Handlers -> ApplyJob \cup DeleteJob \cup BulkJob \cup NoJob]
         /\ seen' \in [Handlers -> [owner : People \cup {None}, tags : SUBSET Tags]]
         /\ edit' \in [Handlers -> [person : People \cup {Keep}, tags : SUBSET Tags]]
  BY DEF TypeOK, Forget, NothingSeen, NoEdit, NoJob

(* What UpdateTransactionLabels accepts keeps types and references.        *)
LEMMA AcceptedKeeps ==
  ASSUME LabelsInv, NEW x \in Txns, NEW u, Accepted(x, u), SetLabels(x, u),
         u.tags # Keep => u.tags \subseteq Tags,
         UNCHANGED <<people, tags, rules>>
  PROVE  /\ owner' \in [Txns -> People \cup {None}]
         /\ links' \in [Txns -> SUBSET Tags]
         /\ ReferencesLive'
  BY DEF LabelsInv, TypeOK, ReferencesLive, Accepted, SetLabels, Exists

(* A rule update names people rules name and tags that were seen or named. *)
LEMMA RuleUpdateTypes ==
  ASSUME TypeOK, NEW x \in Txns, NEW h \in Handlers
  PROVE  /\ RulePersons(x, seen[h]) \subseteq People \cup {Keep}
         /\ RuleUpdateTags(x, seen[h]) \subseteq Tags
  <1>1. Matching(x) \subseteq Rules /\ \A k \in Matching(x) : rules[k] \in Rule
    BY DEF TypeOK, Matching
  <1>2. RuleTags(x) \subseteq Tags
    BY <1>1 DEF RuleTags, Rule
  <1>3. \A k \in FirstOwnerRule(x) : rules[k].person \in People
    BY <1>1 DEF FirstOwnerRule, OwnerRules, Rule
  <1>4. seen[h].tags \subseteq Tags
    BY DEF TypeOK
  <1> QED
    BY <1>2, <1>3, <1>4 DEF RulePersons, RuleUpdateTags

LEMMA LabelsInit == Init => LabelsInv
  <1> SUFFICES ASSUME Init PROVE LabelsInv
    OBVIOUS
  <1>1. TypeOK
    BY DEF Init, TypeOK, Life, Steps, NoJob, NothingSeen, NoEdit
  <1>2. JobInv
    BY DEF Init, JobInv
  <1>3. ReferencesLive
    BY DEF Init, ReferencesLive, Exists
  <1>4. EditInv
    BY DEF Init, EditInv
  <1> QED
    BY <1>1, <1>2, <1>3, <1>4 DEF LabelsInv

(* Every step of a handler leaves it with the arguments of what it does.   *)
LEMMA JobStep ==
  ASSUME LabelsInv, [Next]_vars
  PROVE  JobInv'
  <1> USE DEF LabelsInv, TypeOK, JobInv, Goto, Finish, Forget, localVars, dbVars
  <1>1. ASSUME NEW h \in Handlers, NEW x \in Txns, Book(h, x) PROVE JobInv'
    BY <1>1 DEF Book, ApplyJob
  <1>2. ASSUME NEW h \in Handlers, NEW p \in People, DeletePerson(h, p) PROVE JobInv'
    BY <1>2 DEF DeletePerson
  <1>3. ASSUME NEW h \in Handlers, NEW t \in Tags, DeleteTag(h, t) PROVE JobInv'
    BY <1>3 DEF DeleteTag
  <1>4. ASSUME NEW h \in Handlers, NEW b \in BulkRequests, BulkLabel(h, b) PROVE JobInv'
    BY <1>4, LabelsAssumption DEF BulkLabel
  <1>5. ASSUME NEW h \in Handlers, Apply(h) PROVE JobInv'
    <2>1. CASE ReadOwner(h)
      BY <2>1 DEF ReadOwner
    <2>2. CASE ReadTags(h)
      BY <2>2 DEF ReadTags
    <2>3. CASE ReadRules(h)
      <3>1. \/ Finish(h, "readRules")
            \/ Goto(h, "readRules", "write") /\ UNCHANGED job
        BY <2>3 DEF ReadRules
      <3> QED
        BY <3>1
    <2>4. CASE ApplyRules(h) \/ ApplyRefused(h)
      BY <2>4 DEF ApplyRules, ApplyRefused
    <2> QED
      BY <1>5, <2>1, <2>2, <2>3, <2>4 DEF Apply
  <1>6. ASSUME NEW h \in Handlers, Remove(h) PROVE JobInv'
    <2>1. Finish(h, "removePerson") \/ Finish(h, "removeTag")
      BY <1>6 DEF Remove, RemovePerson, RemoveTag
    <2> QED
      BY <2>1
  <1>7. ASSUME NEW h \in Handlers, Bulk(h) PROVE JobInv'
    BY <1>7 DEF Bulk, CheckPerson, SetOwners, CheckTag, AddTag
  <1>8. ASSUME NEW h \in Handlers, Abort(h) PROVE JobInv'
    BY <1>8 DEF Abort
  <1>9. CASE Restart
    BY <1>9 DEF Restart
  <1>10. CASE UNCHANGED <<pc, job>>
    BY <1>10
  <1> QED
    BY <1>1, <1>2, <1>3, <1>4, <1>5, <1>6, <1>7, <1>8, <1>9, <1>10
       DEF Next, Request, CreatePerson, CreateTag, CreateRule, DeleteRule, LabelTransaction, vars

(* An update is computed from what was just read, and is then left alone.  *)
LEMMA EditStep ==
  ASSUME LabelsInv, [Next]_vars
  PROVE  EditInv'
  <1> USE DEF LabelsInv, TypeOK, EditInv, Goto, Finish, Forget, localVars, dbVars
  <1>1. ASSUME NEW h \in Handlers, ReadRules(h) PROVE EditInv'
    <2>1. CASE Finish(h, "readRules")
      BY <2>1
    <2>2. CASE ~ Finish(h, "readRules")
      <3>1. PICK p \in RulePersons(job[h].txn, seen[h]) :
              /\ Goto(h, "readRules", "write")
              /\ edit' = [edit EXCEPT ![h] =
                   [person |-> p, tags |-> RuleUpdateTags(job[h].txn, seen[h])]]
              /\ UNCHANGED <<dbVars, job, seen>>
        BY <1>1, <2>2 DEF ReadRules
      <3>2. /\ seen[h].tags \subseteq RuleUpdateTags(job[h].txn, seen[h])
            /\ seen[h].owner # None => p = Keep
        BY <3>1 DEF RuleUpdateTags, RulePersons
      <3>3. edit'[h].tags = RuleUpdateTags(job[h].txn, seen[h]) /\ edit'[h].person = p
        BY <3>1
      <3> QED
        BY <3>1, <3>2, <3>3
    <2> QED
      BY <2>1, <2>2
  <1>2. ASSUME NEW h \in Handlers, ReadOwner(h) \/ ReadTags(h) PROVE EditInv'
    BY <1>2 DEF ReadOwner, ReadTags
  <1>3. ASSUME NEW h \in Handlers, NEW s \in Steps, Finish(h, s) PROVE EditInv'
    BY <1>3
  <1>4. ASSUME NEW h \in Handlers, pc' = [pc EXCEPT ![h] = pc'[h]], pc'[h] # "write",
               UNCHANGED <<seen, edit>>
        PROVE  EditInv'
    BY <1>4
  <1>5. CASE Restart
    BY <1>5 DEF Restart
  <1>6. CASE UNCHANGED <<pc, seen, edit>>
    BY <1>6
  <1>7. ASSUME NEW h \in Handlers, Request(h) PROVE EditInv'
    BY <1>4, <1>7 DEF Request, Book, DeletePerson, DeleteTag, BulkLabel
  <1>8. ASSUME NEW h \in Handlers, Apply(h) PROVE EditInv'
    BY <1>1, <1>2, <1>3, <1>8 DEF Apply, ApplyRules, ApplyRefused, Steps
  <1>9. ASSUME NEW h \in Handlers, Remove(h) PROVE EditInv'
    <2>1. Finish(h, "removePerson") \/ Finish(h, "removeTag")
      BY <1>9 DEF Remove, RemovePerson, RemoveTag
    <2> QED
      BY <1>3, <2>1 DEF Steps
  <1>10. ASSUME NEW h \in Handlers, Bulk(h) PROVE EditInv'
    <2>1. CASE SetOwners(h)
      BY <2>1 DEF SetOwners
    <2>2. CASE CheckPerson(h) \/ CheckTag(h)
      BY <1>4, <2>2 DEF CheckPerson, CheckTag
    <2>3. CASE AddTag(h)
      BY <1>3, <2>3 DEF AddTag, Steps
    <2> QED
      BY <1>10, <2>1, <2>2, <2>3 DEF Bulk
  <1>11. ASSUME NEW h \in Handlers, Abort(h) PROVE EditInv'
    BY <1>3, <1>11 DEF Abort
  <1> QED
    BY <1>5, <1>6, <1>7, <1>8, <1>9, <1>10, <1>11
       DEF Next, CreatePerson, CreateTag, CreateRule, DeleteRule, LabelTransaction, vars

(* Types and references, one step of the proof for each kind of step.      *)
Good == TypeOK' /\ ReferencesLive'

LEMMA DataStep ==
  ASSUME LabelsInv, [Next]_vars
  PROVE  Good
  <1> USE DEF LabelsInv, Goto, Finish, localVars, dbVars
  <1>1. ASSUME NEW p \in People, CreatePerson(p) PROVE Good
    BY <1>1 DEF Good, CreatePerson, TypeOK, ReferencesLive, Exists, Life
  <1>2. ASSUME NEW t \in Tags, CreateTag(t) PROVE Good
    BY <1>2 DEF Good, CreateTag, TypeOK, ReferencesLive, Exists, Life
  <1>3. ASSUME NEW k \in Rules, NEW r \in RuleBodies, CreateRule(k, r) PROVE Good
    <2>1. r \in Rule
      BY LabelsAssumption
    <2> QED
      BY <1>3, <2>1 DEF Good, CreateRule, TypeOK, ReferencesLive, Exists
  <1>4. ASSUME NEW k \in Rules, DeleteRule(k) PROVE Good
    BY <1>4 DEF Good, DeleteRule, TypeOK, ReferencesLive, Exists
  <1>5. ASSUME NEW x \in Txns, NEW u \in Update, LabelTransaction(x, u) PROVE Good
    <2>0. u.tags \in (SUBSET Tags) \cup {Keep}
      BY DEF Update
    <2>1. u.tags # Keep => u.tags \subseteq Tags
      BY <2>0
    <2>2. /\ owner' \in [Txns -> People \cup {None}]
          /\ links' \in [Txns -> SUBSET Tags]
          /\ ReferencesLive'
      BY <1>5, <2>1, AcceptedKeeps DEF LabelTransaction
    <2> QED
      BY <1>5, <2>2 DEF Good, LabelTransaction, TypeOK
  <1>6. ASSUME NEW h \in Handlers, Request(h) PROVE Good
    <2>1. ASSUME NEW x \in Txns, Book(h, x) PROVE Good
      BY <2>1 DEF Good, Book, TypeOK, ReferencesLive, Exists, ApplyJob, Steps
    <2>2. ASSUME NEW p \in People, DeletePerson(h, p) PROVE Good
      BY <2>2 DEF Good, DeletePerson, TypeOK, ReferencesLive, Exists, DeleteJob, Steps
    <2>3. ASSUME NEW t \in Tags, DeleteTag(h, t) PROVE Good
      BY <2>3 DEF Good, DeleteTag, TypeOK, ReferencesLive, Exists, DeleteJob, Steps
    <2>4. ASSUME NEW b \in BulkRequests, BulkLabel(h, b) PROVE Good
      BY <2>4, LabelsAssumption DEF Good, BulkLabel, TypeOK, ReferencesLive, Exists, Steps
    <2> QED
      BY <1>6, <2>1, <2>2, <2>3, <2>4 DEF Request
  <1>7. ASSUME NEW h \in Handlers, Apply(h) PROVE Good
    <2>0. pc[h] \in {"readOwner", "readTags", "readRules", "write"} => job[h].txn \in Txns
      BY DEF JobInv, ApplyJob
    <2>1. CASE ReadOwner(h)
      BY <2>0, <2>1 DEF Good, ReadOwner, TypeOK, ReferencesLive, Exists, Steps
    <2>2. CASE ReadTags(h)
      BY <2>0, <2>2 DEF Good, ReadTags, TypeOK, ReferencesLive, Exists, Steps
    <2>3. CASE ReadRules(h)
      <3>1. CASE Finish(h, "readRules") /\ UNCHANGED dbVars
        BY <3>1, ForgetTypes DEF Good, TypeOK, ReferencesLive, Exists, Steps
      <3>2. CASE ~ (Finish(h, "readRules") /\ UNCHANGED dbVars)
        <4>1. PICK p \in RulePersons(job[h].txn, seen[h]) :
                /\ Goto(h, "readRules", "write")
                /\ edit' = [edit EXCEPT ![h] =
                     [person |-> p, tags |-> RuleUpdateTags(job[h].txn, seen[h])]]
                /\ UNCHANGED <<dbVars, job, seen>>
          BY <2>3, <3>2 DEF ReadRules
        <4>2. p \in People \cup {Keep} /\ RuleUpdateTags(job[h].txn, seen[h]) \subseteq Tags
          BY <2>0, <4>1, RuleUpdateTypes
        <4>3. edit' \in [Handlers -> [person : People \cup {Keep}, tags : SUBSET Tags]]
          BY <4>1, <4>2 DEF TypeOK
        <4> QED
          BY <4>1, <4>3 DEF Good, TypeOK, ReferencesLive, Exists, Steps
      <3> QED
        BY <3>1, <3>2
    <2>4. CASE ApplyRules(h)
      <3>1. edit[h].tags # Keep => edit[h].tags \subseteq Tags
        BY DEF TypeOK
      <3>2. /\ owner' \in [Txns -> People \cup {None}]
            /\ links' \in [Txns -> SUBSET Tags]
            /\ ReferencesLive'
        BY <2>0, <2>4, <3>1, AcceptedKeeps DEF ApplyRules
      <3> QED
        BY <2>4, <3>2, ForgetTypes DEF Good, ApplyRules, TypeOK, Steps
    <2>5. CASE ApplyRefused(h)
      BY <2>5, ForgetTypes DEF Good, ApplyRefused, TypeOK, ReferencesLive, Exists, Steps
    <2> QED
      BY <1>7, <2>1, <2>2, <2>3, <2>4, <2>5 DEF Apply
  <1>8. ASSUME NEW h \in Handlers, Remove(h) PROVE Good
    <2>1. CASE RemovePerson(h)
      <3>1. job[h].person \in People
        BY <2>1 DEF RemovePerson, JobInv
      <3>2. rules' \in [Rules -> Rule \cup {NoRule}]
        BY <2>1 DEF RemovePerson, TypeOK, Rule
      <3>3. TypeOK'
        BY <2>1, <3>1, <3>2, ForgetTypes DEF RemovePerson, TypeOK, Life, Steps
      <3>4. ReferencesLive'
        BY <2>1, <3>1, <3>2, LabelsAssumption
           DEF RemovePerson, TypeOK, ReferencesLive, Exists, Rule
      <3> QED
        BY <3>3, <3>4 DEF Good
    <2>2. CASE RemoveTag(h)
      <3>1. job[h].tag \in Tags
        BY <2>2 DEF RemoveTag, JobInv
      <3>2. rules' \in [Rules -> Rule \cup {NoRule}]
        BY <2>2 DEF RemoveTag, TypeOK, Rule
      <3>3. TypeOK'
        BY <2>2, <3>1, <3>2, ForgetTypes DEF RemoveTag, TypeOK, Life, Steps
      <3>4. ReferencesLive'
        BY <2>2, <3>1, <3>2, LabelsAssumption
           DEF RemoveTag, TypeOK, ReferencesLive, Exists, Rule
      <3> QED
        BY <3>3, <3>4 DEF Good
    <2> QED
      BY <1>8, <2>1, <2>2 DEF Remove
  <1>9. ASSUME NEW h \in Handlers, Bulk(h) PROVE Good
    <2>1. CASE CheckPerson(h) \/ CheckTag(h)
      BY <2>1 DEF Good, CheckPerson, CheckTag, TypeOK, ReferencesLive, Exists, Steps
    <2>2. CASE SetOwners(h)
      <3>1. /\ job[h].person \in People \cup {None}
            /\ Selected(job[h]) # {} => Exists(people, job[h].person)
            /\ Selected(job[h]) \subseteq Txns
        BY <2>2 DEF SetOwners, Selected, JobInv, BulkJob, TypeOK
      <3>2. /\ owner' \in [Txns -> People \cup {None}]
            /\ \A x \in Txns : Exists(people, owner'[x])
        BY <2>2, <3>1 DEF SetOwners, TypeOK, ReferencesLive
      <3>3. pc' \in [Handlers -> Steps]
        BY <2>2 DEF SetOwners, TypeOK, Steps
      <3>4. /\ job' \in [Handlers -> ApplyJob \cup DeleteJob \cup BulkJob \cup NoJob]
            /\ seen' \in [Handlers -> [owner : People \cup {None}, tags : SUBSET Tags]]
            /\ edit' \in [Handlers -> [person : People \cup {Keep}, tags : SUBSET Tags]]
        <4>1. CASE Forget(h)
          BY <4>1, ForgetTypes
        <4>2. CASE UNCHANGED <<job, seen, edit>>
          BY <4>2 DEF TypeOK
        <4> QED
          BY <2>2, <4>1, <4>2 DEF SetOwners
      <3> QED
        BY <2>2, <3>2, <3>3, <3>4 DEF Good, SetOwners, TypeOK, ReferencesLive, Exists
    <2>3. CASE AddTag(h)
      <3>1. job[h].tag \in Tags \cup {None} /\ job[h].tag # None
        BY <2>3 DEF AddTag, JobInv, BulkJob
      <3>2. /\ links' \in [Txns -> SUBSET Tags]
            /\ \A x \in Txns : \A t \in links'[x] : Exists(tags, t)
        BY <2>3, <3>1 DEF AddTag, TypeOK, ReferencesLive
      <3> QED
        BY <2>3, <3>2, ForgetTypes DEF Good, AddTag, TypeOK, ReferencesLive, Exists, Steps
    <2> QED
      BY <1>9, <2>1, <2>2, <2>3 DEF Bulk
  <1>10. ASSUME NEW h \in Handlers, Abort(h) PROVE Good
    BY <1>10, ForgetTypes DEF Good, Abort, TypeOK, ReferencesLive, Exists, Steps
  <1>11. CASE Restart
    BY <1>11
       DEF Good, Restart, Reseeded, TypeOK, ReferencesLive, Exists, Life, Steps, NoJob, NothingSeen, NoEdit
  <1>12. CASE UNCHANGED vars
    BY <1>12 DEF Good, vars, TypeOK, ReferencesLive, Exists
  <1> QED
    BY <1>1, <1>2, <1>3, <1>4, <1>5, <1>6, <1>7, <1>8, <1>9, <1>10, <1>11, <1>12 DEF Next

(* A handler in the middle of an operation has the arguments of that       *)
(* operation, values have their types and references point to rows.        *)
THEOREM LabelsInductive == Spec => []LabelsInv
  <1>1. LabelsInv /\ [Next]_vars => LabelsInv'
    BY JobStep, EditStep, DataStep DEF LabelsInv, Good
  <1> QED
    BY <1>1, LabelsInit, PTL DEF Spec

(* No transaction, tag link or rule refers to a missing person or tag.     *)
THEOREM ReferencesStayLive == Spec => []ReferencesLive
  <1>1. LabelsInv => ReferencesLive
    BY DEF LabelsInv
  <1> QED
    BY <1>1, LabelsInductive, PTL

(* Whoever edits meanwhile, the write of the rules keeps the tags that     *)
(* were read and are still there, and touches no owner if it read one.     *)
THEOREM RulesAlwaysAdd == Spec => RulesOnlyAdd
  <1> DEFINE Adds(h) == LET x == job[h].txn
                        IN  /\ links[x] \cap seen[h].tags \subseteq links'[x]
                            /\ seen[h].owner # None => owner'[x] = owner[x]
  <1>1. ASSUME LabelsInv, NEW h \in Handlers, ApplyRules(h) PROVE Adds(h)
    <2>1. job[h].txn \in Txns
      BY <1>1 DEF LabelsInv, JobInv, ApplyJob, ApplyRules, Finish, Goto
    <2>2. /\ seen[h].tags \subseteq edit[h].tags
          /\ seen[h].owner # None => edit[h].person = Keep
      BY <1>1 DEF LabelsInv, EditInv, ApplyRules, Finish, Goto
    <2>3. edit[h].tags \subseteq Tags
      BY <1>1 DEF LabelsInv, TypeOK
    <2>4. edit[h].tags # Keep
      BY <2>3, LabelsAssumption
    <2> QED
      BY <1>1, <2>1, <2>2, <2>4 DEF ApplyRules, SetLabels, LabelsInv, TypeOK
  <1>2. LabelsInv /\ [Next]_vars => [\A h \in Handlers : ApplyRules(h) => Adds(h)]_vars
    BY <1>1
  <1> QED
    BY <1>2, LabelsInductive, PTL DEF Spec, RulesOnlyAdd

(* The rows and the requests always have the types of Labels.              *)
THEOREM LabelsTypeCorrect == Spec => []TypeOK
<1>1. LabelsInv => TypeOK
  BY DEF LabelsInv
<1> QED
  BY LabelsInductive, <1>1, PTL

=============================================================================
