------------------------------- MODULE Labels -------------------------------
(***************************************************************************)
(* Labelling: who a transaction belongs to and which tags it carries, as   *)
(* changed by single edits, bulk edits, deletions and label rules          *)
(* (store/labels.go, the rules of store/features.go, service.BulkLabel).   *)
(*                                                                         *)
(* One database connection serialises statements and transactions, so a    *)
(* statement, and a database transaction as a whole, is one step; a        *)
(* handler that needs several is interrupted between them by the others,   *)
(* by a failure or by a restart.                                           *)
(*                                                                         *)
(* Left out: names, colours and display order of people and tags, listing, *)
(* and requests refused before they change anything.                       *)
(***************************************************************************)
EXTENDS Naturals, FiniteSets

CONSTANTS
  Handlers,    \* request slots: the handlers that may run at the same time
  Txns,        \* transactions ingestion may book
  People,      \* ids of people; AUTOINCREMENT never uses one twice
  Tags,        \* ids of tags
  Rules,       \* places in the order rules are listed, by priority then id
  Matches,     \* Matches[k]: transactions the condition of a rule at k meets
  Seeded,      \* people the first start creates
  SeededTags,  \* tags the first start creates
  RuleBodies,  \* the targets a rule may be created with
  BulkRequests,\* the bulk edits that may be requested
  None,        \* SQL NULL
  Keep,        \* a field the request leaves unchanged
  NoRule       \* rules[k] when there is no rule at k

VARIABLES
  born,     \* transactions that have been booked
  people,   \* people[p]: "new", "live" or "gone"
  tags,     \* tags[t]: likewise
  owner,    \* owner[x]: transactions.person_id
  links,    \* links[x]: transaction_tags
  rules,    \* rules[k]: label_rules
  pc,       \* pc[h]: the next statement of handler h
  job,      \* job[h]: what handler h was asked to do
  seen,     \* seen[h]: the owner and tags ApplyRulesToTxn has read
  edit      \* edit[h]: the update ApplyRulesToTxn is about to write

dbVars    == <<born, people, tags, owner, links, rules>>
localVars == <<job, seen, edit>>
vars == <<born, people, tags, owner, links, rules, pc, job, seen, edit>>

----------------------------------------------------------------------------

Life == {"new", "live", "gone"}

(* Foreign keys: an INSERT or UPDATE naming a missing row fails.           *)
Exists(m, ref) == ref \in {None} \cup {i \in DOMAIN m : m[i] = "live"}

Rule == [person : People \cup {None}, tag : Tags \cup {None}]

(* LabelUpdate: person may be set, cleared or kept, tags replaced or kept. *)
Update == [person : People \cup {None, Keep}, tags : (SUBSET Tags) \cup {Keep}]

NothingSeen == [owner |-> None, tags |-> {}]
NoEdit == [person |-> Keep, tags |-> {}]

ApplyJob  == [txn : Txns]
DeleteJob == [person : People] \cup [tag : Tags]
BulkJob   == [person : People \cup {None, Keep}, tag : Tags \cup {None},
              sel : SUBSET Txns, only : BOOLEAN]
NoJob     == [none : {TRUE}]

Steps == {"idle", "readOwner", "readTags", "readRules", "write", "removePerson",
          "removeTag", "checkPerson", "setOwners", "checkTag", "addTag"}

Goto(h, from, to) == pc[h] = from /\ pc' = [pc EXCEPT ![h] = to]

Forget(h) ==
  /\ job' = [job EXCEPT ![h] = [none |-> TRUE]]
  /\ seen' = [seen EXCEPT ![h] = NothingSeen]
  /\ edit' = [edit EXCEPT ![h] = NoEdit]

Finish(h, from) == Goto(h, from, "idle") /\ Forget(h)

(* The transaction of UpdateTransactionLabels: every person and tag named  *)
(* must exist, otherwise all of it is rolled back.                         *)
Accepted(x, u) ==
  /\ x \in born
  /\ u.person # Keep => Exists(people, u.person)
  /\ u.tags # Keep => \A t \in u.tags : Exists(tags, t)

SetLabels(x, u) ==
  /\ owner' = [owner EXCEPT ![x] = IF u.person = Keep THEN @ ELSE u.person]
  /\ links' = [links EXCEPT ![x] = IF u.tags = Keep THEN @ ELSE u.tags]

----------------------------------------------------------------------------

Init ==
  /\ born = {}
  /\ people = [p \in People |-> IF p \in Seeded THEN "live" ELSE "new"]
  /\ tags = [t \in Tags |-> IF t \in SeededTags THEN "live" ELSE "new"]
  /\ owner = [x \in Txns |-> None]
  /\ links = [x \in Txns |-> {}]
  /\ rules = [k \in Rules |-> NoRule]
  /\ pc = [h \in Handlers |-> "idle"]
  /\ job = [h \in Handlers |-> [none |-> TRUE]]
  /\ seen = [h \in Handlers |-> NothingSeen]
  /\ edit = [h \in Handlers |-> NoEdit]

(* Requests of one statement or one transaction. *)
CreatePerson(p) ==
  /\ people[p] = "new"
  /\ people' = [people EXCEPT ![p] = "live"]
  /\ UNCHANGED <<born, tags, owner, links, rules, pc, localVars>>

CreateTag(t) ==
  /\ tags[t] = "new"
  /\ tags' = [tags EXCEPT ![t] = "live"]
  /\ UNCHANGED <<born, people, owner, links, rules, pc, localVars>>

(* A rule needs a person or a tag.                                         *)
CreateRule(k, r) ==
  /\ rules[k] = NoRule
  /\ r.person # None \/ r.tag # None
  /\ Exists(people, r.person) /\ Exists(tags, r.tag)
  /\ rules' = [rules EXCEPT ![k] = r]
  /\ UNCHANGED <<born, people, tags, owner, links, pc, localVars>>

DeleteRule(k) ==
  /\ rules[k] # NoRule
  /\ rules' = [rules EXCEPT ![k] = NoRule]
  /\ UNCHANGED <<born, people, tags, owner, links, pc, localVars>>

(* PATCH /transactions/{id}/labels: sets a person, tags or both.           *)
LabelTransaction(x, u) ==
  /\ u.person # Keep \/ u.tags # Keep
  /\ Accepted(x, u)
  /\ SetLabels(x, u)
  /\ UNCHANGED <<born, people, tags, rules, pc, localVars>>

----------------------------------------------------------------------------
(* A booked transaction is visible from its commit; ApplyRulesToTxn then   *)
(* reads its row, its tags and the rules, and writes at the end.           *)

Book(h, x) ==
  /\ x \notin born
  /\ Goto(h, "idle", "readOwner")
  /\ born' = born \cup {x}
  /\ job' = [job EXCEPT ![h] = [txn |-> x]]
  /\ UNCHANGED <<people, tags, owner, links, rules, seen, edit>>

ReadOwner(h) ==
  /\ Goto(h, "readOwner", "readTags")
  /\ seen' = [seen EXCEPT ![h].owner = owner[job[h].txn]]
  /\ UNCHANGED <<dbVars, job, edit>>

ReadTags(h) ==
  /\ Goto(h, "readTags", "readRules")
  /\ seen' = [seen EXCEPT ![h].tags = links[job[h].txn]]
  /\ UNCHANGED <<dbVars, job, edit>>

Matching(x) == {k \in Rules : rules[k] # NoRule /\ x \in Matches[k]}

OwnerRules(x) == {k \in Matching(x) : rules[k].person # None}

RuleTags(x) == {rules[k].tag : k \in Matching(x)} \ {None}

(* The first matching rule with a person, for a transaction without one;   *)
(* the tags it has and those of every matching rule.                       *)
FirstOwnerRule(x) == {k \in OwnerRules(x) : \A l \in OwnerRules(x) : k <= l}

RulePersons(x, s) ==
  IF s.owner = None /\ OwnerRules(x) # {} THEN {rules[k].person : k \in FirstOwnerRule(x)}
                                          ELSE {Keep}

TagsFromRules(x, s) == RuleTags(x)
RuleUpdateTags(x, s) == s.tags \cup RuleTags(x)

Unchanging(s) == [person |-> Keep, tags |-> s.tags]

ReadRules(h) ==
  /\ pc[h] = "readRules"
  /\ LET x == job[h].txn
     IN  \E p \in RulePersons(x, seen[h]) :
           LET u == [person |-> p, tags |-> RuleUpdateTags(x, seen[h])]
           IN  IF u = Unchanging(seen[h])
                 THEN Finish(h, "readRules")
                 ELSE /\ Goto(h, "readRules", "write")
                      /\ edit' = [edit EXCEPT ![h] = u]
                      /\ UNCHANGED <<job, seen>>
  /\ UNCHANGED dbVars

ApplyRules(h) ==
  /\ Finish(h, "write")
  /\ Accepted(job[h].txn, edit[h])
  /\ SetLabels(job[h].txn, edit[h])
  /\ UNCHANGED <<born, people, tags, rules>>

(* A person or tag has vanished since: nothing is written, and the caller  *)
(* ignores the error.                                                      *)
ApplyRefused(h) ==
  /\ Finish(h, "write")
  /\ ~ Accepted(job[h].txn, edit[h])
  /\ UNCHANGED dbVars

----------------------------------------------------------------------------
(* Deletions clear the references first, ignoring a failure of that, and   *)
(* then delete the row, which clears the references that are left.         *)

DeletePerson(h, p) ==
  /\ Goto(h, "idle", "removePerson")
  /\ \/ owner' = [x \in Txns |-> IF owner[x] = p THEN None ELSE owner[x]]
     \/ UNCHANGED owner
  /\ job' = [job EXCEPT ![h] = [person |-> p]]
  /\ UNCHANGED <<born, people, tags, links, rules, seen, edit>>

RowOnly(h) ==
  /\ Finish(h, "removePerson")
  /\ people[job[h].person] = "live"
  /\ people' = [people EXCEPT ![job[h].person] = "gone"]
  /\ UNCHANGED <<born, tags, owner, links, rules>>

RemovePerson(h) ==
  /\ Finish(h, "removePerson")
  /\ people[job[h].person] = "live"
  /\ people' = [people EXCEPT ![job[h].person] = "gone"]
  /\ owner' = [x \in Txns |-> IF owner[x] = job[h].person THEN None ELSE owner[x]]
  /\ rules' = [k \in Rules |->
                 IF rules[k] # NoRule /\ rules[k].person = job[h].person
                   THEN [rules[k] EXCEPT !.person = None] ELSE rules[k]]
  /\ UNCHANGED <<born, tags, links>>

DeleteTag(h, t) ==
  /\ Goto(h, "idle", "removeTag")
  /\ \/ links' = [x \in Txns |-> links[x] \ {t}]
     \/ UNCHANGED links
  /\ job' = [job EXCEPT ![h] = [tag |-> t]]
  /\ UNCHANGED <<born, people, tags, owner, rules, seen, edit>>

RemoveTag(h) ==
  /\ Finish(h, "removeTag")
  /\ tags[job[h].tag] = "live"
  /\ tags' = [tags EXCEPT ![job[h].tag] = "gone"]
  /\ links' = [x \in Txns |-> links[x] \ {job[h].tag}]
  /\ rules' = [k \in Rules |->
                 IF rules[k] # NoRule /\ rules[k].tag = job[h].tag
                   THEN [rules[k] EXCEPT !.tag = None] ELSE rules[k]]
  /\ UNCHANGED <<born, people, owner>>

----------------------------------------------------------------------------
(* BulkLabel: BulkUpdatePerson and then BulkAddTag, each a check and then  *)
(* an update that evaluates the filter again.  A write of no rows refers   *)
(* to nothing, so it succeeds whoever has vanished.                        *)

BulkLabel(h, b) ==
  /\ b.person # Keep \/ b.tag # None
  /\ Goto(h, "idle", IF b.person # Keep THEN "checkPerson" ELSE "checkTag")
  /\ job' = [job EXCEPT ![h] = b]
  /\ UNCHANGED <<dbVars, seen, edit>>

Selected(b) == {x \in born \cap b.sel : b.only => owner[x] = None}

CheckPerson(h) ==
  /\ Goto(h, "checkPerson", "setOwners")
  /\ Exists(people, job[h].person)
  /\ UNCHANGED <<dbVars, localVars>>

SetOwners(h) ==
  /\ pc[h] = "setOwners"
  /\ Selected(job[h]) # {} => Exists(people, job[h].person)
  /\ pc' = [pc EXCEPT ![h] = IF job[h].tag = None THEN "idle" ELSE "checkTag"]
  /\ owner' = [x \in Txns |-> IF x \in Selected(job[h]) THEN job[h].person ELSE owner[x]]
  /\ IF job[h].tag = None THEN Forget(h) ELSE UNCHANGED localVars
  /\ UNCHANGED <<born, people, tags, links, rules>>

CheckTag(h) ==
  /\ Goto(h, "checkTag", "addTag")
  /\ Exists(tags, job[h].tag)
  /\ UNCHANGED <<dbVars, localVars>>

AddTag(h) ==
  /\ Finish(h, "addTag")
  /\ Selected(job[h]) # {} => Exists(tags, job[h].tag)
  /\ links' = [x \in Txns |->
                 IF x \in Selected(job[h]) THEN links[x] \cup {job[h].tag} ELSE links[x]]
  /\ UNCHANGED <<born, people, tags, owner, rules>>

----------------------------------------------------------------------------

(* A check, or any other statement, fails and ends the request: what its   *)
(* earlier statements did stays.                                           *)
Abort(h) ==
  /\ pc[h] # "idle"
  /\ Finish(h, pc[h])
  /\ UNCHANGED dbVars

(* The server starts again: requests are gone; where nobody is left in the *)
(* list of people (or no tag) the defaults are created, one by one, so a   *)
(* start that is cut short creates only some.                              *)
Reseeded(m) ==
  IF \A i \in DOMAIN m : m[i] # "new" \/ \E j \in DOMAIN m : m[j] = "live" THEN {m}
  ELSE {[i \in DOMAIN m |-> IF i \in S THEN "live" ELSE m[i]] :
                   S \in (SUBSET {i \in DOMAIN m : m[i] = "new"}) \ {{}}}

Restart ==
  /\ pc' = [h \in Handlers |-> "idle"]
  /\ job' = [h \in Handlers |-> [none |-> TRUE]]
  /\ seen' = [h \in Handlers |-> NothingSeen]
  /\ edit' = [h \in Handlers |-> NoEdit]
  /\ people' \in Reseeded(people)
  /\ tags' \in Reseeded(tags)
  /\ UNCHANGED <<born, owner, links, rules>>

Apply(h)  == ReadOwner(h) \/ ReadTags(h) \/ ReadRules(h) \/ ApplyRules(h) \/ ApplyRefused(h)
Remove(h) == RemovePerson(h) \/ RemoveTag(h)
Bulk(h)   == CheckPerson(h) \/ SetOwners(h) \/ CheckTag(h) \/ AddTag(h)

Request(h) ==
  \/ \E x \in Txns : Book(h, x)
  \/ \E p \in People : DeletePerson(h, p)
  \/ \E t \in Tags : DeleteTag(h, t)
  \/ \E b \in BulkRequests : BulkLabel(h, b)

Next ==
  \/ \E p \in People : CreatePerson(p)
  \/ \E t \in Tags : CreateTag(t)
  \/ \E k \in Rules, r \in RuleBodies : CreateRule(k, r)
  \/ \E k \in Rules : DeleteRule(k)
  \/ \E x \in Txns, u \in Update : LabelTransaction(x, u)
  \/ \E h \in Handlers : Request(h) \/ Apply(h) \/ Remove(h) \/ Bulk(h) \/ Abort(h)
  \/ Restart

Spec == Init /\ [][Next]_vars

----------------------------------------------------------------------------
(* Assumptions and properties *)

ASSUME LabelsAssumption ==
  /\ Rules \subseteq Nat
  /\ RuleBodies \subseteq Rule
  /\ BulkRequests \subseteq BulkJob
  /\ Matches \in [Rules -> SUBSET Txns]
  /\ None \notin People \cup Tags
  /\ Keep \notin People \cup {None}
  /\ \A T \in SUBSET Tags : Keep # T
  /\ NoRule \notin Rule

TypeOK ==
  /\ born \subseteq Txns
  /\ people \in [People -> Life]
  /\ tags \in [Tags -> Life]
  /\ owner \in [Txns -> People \cup {None}]
  /\ links \in [Txns -> SUBSET Tags]
  /\ rules \in [Rules -> Rule \cup {NoRule}]
  /\ pc \in [Handlers -> Steps]
  /\ job \in [Handlers -> ApplyJob \cup DeleteJob \cup BulkJob \cup NoJob]
  /\ seen \in [Handlers -> [owner : People \cup {None}, tags : SUBSET Tags]]
  /\ edit \in [Handlers -> [person : People \cup {Keep}, tags : SUBSET Tags]]

(* Nothing refers to a person or tag that does not exist, although bulk    *)
(* edits and rules decide on people and tags they read earlier and         *)
(* deletions run in two statements: after "DeletePerson removes a person   *)
(* and clears assignments" no transaction or rule names that person again. *)
ReferencesLive ==
  /\ \A x \in Txns : Exists(people, owner[x]) /\ \A t \in links[x] : Exists(tags, t)
  /\ \A k \in Rules : rules[k] # NoRule =>
       Exists(people, rules[k].person) /\ Exists(tags, rules[k].tag)

(* Rules only add, whoever edits between the reads and the write of        *)
(* ApplyRulesToTxn: of the tags it has read none is lost that is still     *)
(* there, and an owner it has read is never replaced, nor is one somebody  *)
(* set in its place or cleared.  What may be lost is a tag given after the *)
(* read of the tags, or an owner given after a read that found none.       *)
RulesOnlyAdd ==
  [][\A h \in Handlers : ApplyRules(h) =>
       LET x == job[h].txn
       IN  /\ links[x] \cap seen[h].tags \subseteq links'[x]
           /\ seen[h].owner # None => owner'[x] = owner[x]]_vars

----------------------------------------------------------------------------
(* The inductive invariant: a handler in the middle of an operation has    *)
(* the arguments of that operation.                                        *)

JobInv ==
  \A h \in Handlers :
    /\ pc[h] \in {"readOwner", "readTags", "readRules", "write"} => job[h] \in ApplyJob
    /\ pc[h] = "removePerson" => job[h] \in [person : People]
    /\ pc[h] = "removeTag" => job[h] \in [tag : Tags]
    /\ pc[h] \in {"checkPerson", "setOwners", "checkTag", "addTag"} => job[h] \in BulkJob
    /\ pc[h] \in {"checkPerson", "setOwners"} => job[h].person # Keep
    /\ pc[h] \in {"checkTag", "addTag"} => job[h].tag # None

(* What ApplyRulesToTxn is about to write only adds to what it has read.   *)
EditInv ==
  \A h \in Handlers : pc[h] = "write" =>
    /\ seen[h].tags \subseteq edit[h].tags
    /\ seen[h].owner # None => edit[h].person = Keep

LabelsInv == TypeOK /\ JobInv /\ EditInv /\ ReferencesLive

=============================================================================
