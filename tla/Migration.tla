------------------------------ MODULE Migration ------------------------------
(***************************************************************************)
(* Opening the store: the statements by which every start brings the       *)
(* database from whatever an earlier version, or a start that was cut off, *)
(* has left to the present schema (store.Open, migrate, seedLabels,        *)
(* migrateFeatures, backfillKindAndNorm). The server and cmd/import open   *)
(* the same file in processes of their own, perhaps at the same time.      *)
(*                                                                         *)
(* Each statement commits by itself. Tables and indexes are objects that   *)
(* exist or not, those of one statement group and of the other columns     *)
(* standing as one; people and tags are numbered in the order the defaults *)
(* are inserted; of a transaction there is its message and whether its     *)
(* kind has been filled in.                                                *)
(***************************************************************************)
EXTENDS Naturals, Sequences, SequencesExt

CONSTANTS
  Procs,     \* the processes: the server and any imports
  Server,    \* the server
  Messages,  \* ids of raw messages, naturals
  Names,     \* people and tags there may be, naturals
  Defaults,  \* Defaults["people"], Defaults["tags"]: the names seeded
  MaxTxns,   \* bound: transactions
  MaxFaults  \* bound: kills, and errors of the database

VARIABLES
  objects,  \* the tables, columns and indexes that exist
  named,    \* named["people"], named["tags"]: the names there are
  txns,     \* transactions: [raw, kind]
  pc,       \* pc[p]: the statement of Script process p is at; 0: not running
  todo,     \* todo[p]: the writes its statement still has to do
  faults    \* kills and errors so far

vars == <<objects, named, txns, pc, todo, faults>>

Tables == {"people", "tags"}

Script ==
  <<[do |-> "create",   object |-> "tables"],
    [do |-> "column",   object |-> "kind"],
    [do |-> "create",   object |-> "kind_index"],
    [do |-> "seed",     object |-> "people"],
    [do |-> "seed",     object |-> "tags"],
    [do |-> "create",   object |-> "features"],
    [do |-> "column",   object |-> "fingerprint"],
    [do |-> "create",   object |-> "fingerprint_index"],
    [do |-> "count",    object |-> "raw_index"],
    [do |-> "create",   object |-> "raw_index"],
    [do |-> "backfill", object |-> "kind"]>>

Serving == Len(Script) + 1

Made(n)  == {Script[i].object : i \in {j \in 1 .. n : Script[j].do \in {"create", "column"}}}
Objects  == Made(Len(Script))

(* What there must be for an object to be created.                         *)
Needs(o) ==
  CASE o = "kind_index"        -> {"tables", "kind"}
    [] o = "fingerprint_index" -> {"tables", "fingerprint"}
    [] o = "tables"            -> {}
    [] OTHER                   -> {"tables"}

Txn == [raw : Messages, kind : BOOLEAN]

Duplicates == \E i, j \in DOMAIN txns : i # j /\ txns[i].raw = txns[j].raw

Unclassified == {i \in DOMAIN txns : ~ txns[i].kind}

Doing(p, what) == pc[p] \in 1 .. Len(Script) /\ Script[pc[p]].do = what
Object(p)      == Script[pc[p]].object

----------------------------------------------------------------------------

(* An earlier version made what a first part of the script makes, and so   *)
(* does a start that was cut off. Transactions booked by a version without *)
(* kinds have none.                                                        *)
Init ==
  /\ \E n \in 0 .. Len(Script) :
       /\ objects = Made(n)
       /\ named \in [Tables -> SUBSET Names]
       /\ txns \in BoundedSeq(Txn, MaxTxns)
       /\ "tables" \notin objects => txns = <<>> /\ named = [t \in Tables |-> {}]
       /\ "kind" \notin objects => \A i \in DOMAIN txns : ~ txns[i].kind
       /\ "raw_index" \in objects => ~ Duplicates
  /\ pc = [p \in Procs |-> 0]
  /\ todo = [p \in Procs |-> {}]
  /\ faults = 0

Advance(p) == pc' = [pc EXCEPT ![p] = @ + 1]

(* A variant of Start: a database that has its tables is taken as it is.   *)
StartAsIs(p) ==
  /\ pc[p] = 0
  /\ pc' = [pc EXCEPT ![p] = IF "tables" \in objects THEN Serving ELSE 1]
  /\ UNCHANGED <<objects, named, txns, todo, faults>>

Start(p) ==
  /\ pc[p] = 0
  /\ Advance(p)
  /\ UNCHANGED <<objects, named, txns, todo, faults>>

(* A variant of Creatable: the index is not unique. *)
CreatableAnyway(o) == Needs(o) \subseteq objects

(* A unique index wants values that are.                                   *)
Creatable(o) ==
  /\ Needs(o) \subseteq objects
  /\ o = "raw_index" => o \in objects \/ ~ Duplicates

(* CREATE ... IF NOT EXISTS. *)
Create(p) ==
  /\ Doing(p, "create") /\ Creatable(Object(p))
  /\ objects' = objects \cup {Object(p)}
  /\ Advance(p)
  /\ UNCHANGED <<named, txns, todo, faults>>

(* columnExists. *)
LookForColumn(p) ==
  /\ Doing(p, "column") /\ todo[p] = {}
  /\ IF Object(p) \in objects
       THEN Advance(p) /\ UNCHANGED todo
       ELSE todo' = [todo EXCEPT ![p] = {Object(p)}] /\ UNCHANGED pc
  /\ UNCHANGED <<objects, named, txns, faults>>

(* ALTER TABLE ... ADD COLUMN. *)
AddColumn(p) ==
  /\ Doing(p, "column") /\ todo[p] # {}
  /\ Object(p) \notin objects /\ Creatable(Object(p))
  /\ objects' = objects \cup {Object(p)}
  /\ todo' = [todo EXCEPT ![p] = {}]
  /\ Advance(p)
  /\ UNCHANGED <<named, txns, faults>>

(* A variant of Seeds: the defaults are inserted at every start.           *)
SeedsAlways(table) == Defaults[table]

(* What is to be seeded: nothing where there is any name.                  *)
Seeds(table) == IF named[table] = {} THEN Defaults[table] ELSE {}

CountNames(p) ==
  /\ Doing(p, "seed") /\ todo[p] = {}
  /\ todo' = [todo EXCEPT ![p] = Seeds(Object(p))]
  /\ IF Seeds(Object(p)) = {} THEN Advance(p) ELSE UNCHANGED pc
  /\ UNCHANGED <<objects, named, txns, faults>>

(* One INSERT of a default, in their order; names are unique.              *)
InsertName(p) ==
  /\ Doing(p, "seed")
  /\ \E n \in todo[p] \ named[Object(p)] :
       /\ \A other \in todo[p] : n <= other
       /\ named' = [named EXCEPT ![Object(p)] = @ \cup {n}]
       /\ todo' = [todo EXCEPT ![p] = @ \ {n}]
       /\ IF todo[p] = {n} THEN Advance(p) ELSE UNCHANGED pc
  /\ UNCHANGED <<objects, txns, faults>>

(* No message may have two transactions.                                   *)
CountDuplicates(p) ==
  /\ Doing(p, "count") /\ ~ Duplicates
  /\ Advance(p)
  /\ UNCHANGED <<objects, named, txns, todo, faults>>

(* An error of columnExists or of the count, which reads as none.          *)
Overlook(p) ==
  /\ faults < MaxFaults /\ faults' = faults + 1
  /\ \/ /\ Doing(p, "column") /\ todo[p] = {}
        /\ todo' = [todo EXCEPT ![p] = {Object(p)}] /\ UNCHANGED pc
     \/ Doing(p, "count") /\ Advance(p) /\ UNCHANGED todo
  /\ UNCHANGED <<objects, named, txns>>

ListUnclassified(p) ==
  /\ Doing(p, "backfill") /\ todo[p] = {}
  /\ todo' = [todo EXCEPT ![p] = Unclassified]
  /\ IF Unclassified = {} THEN Advance(p) ELSE UNCHANGED pc
  /\ UNCHANGED <<objects, named, txns, faults>>

Classify(p) ==
  /\ Doing(p, "backfill")
  /\ \E i \in todo[p] :
       /\ txns' = [txns EXCEPT ![i].kind = TRUE]
       /\ todo' = [todo EXCEPT ![p] = @ \ {i}]
       /\ IF todo[p] = {i} THEN Advance(p) ELSE UNCHANGED pc
  /\ UNCHANGED <<objects, named, faults>>

Quit(p) ==
  /\ pc' = [pc EXCEPT ![p] = 0]
  /\ todo' = [todo EXCEPT ![p] = {}]

(* A start that cannot go on: two transactions of one message, a column    *)
(* another process has added meanwhile, a name that is there by now.       *)
Refused(p) ==
  /\ \/ Doing(p, "create") /\ ~ Creatable(Object(p))
     \/ Doing(p, "count") /\ Duplicates
     \/ Doing(p, "column") /\ todo[p] # {} /\ ~ (Object(p) \notin objects /\ Creatable(Object(p)))
     \/ Doing(p, "seed") /\ \E n \in todo[p] \cap named[Object(p)] : \A other \in todo[p] : n <= other
  /\ Quit(p)
  /\ UNCHANGED <<objects, named, txns, faults>>

(* The end of a process at any point: killed, or by an error of the        *)
(* database.                                                               *)
Fail(p) ==
  /\ pc[p] # 0 /\ faults < MaxFaults
  /\ faults' = faults + 1
  /\ Quit(p)
  /\ UNCHANGED <<objects, named, txns>>

(* An import is done. *)
Finish(p) ==
  /\ p # Server /\ pc[p] = Serving
  /\ Quit(p)
  /\ UNCHANGED <<objects, named, txns, faults>>

(* A process that has opened the store books messages, classified; the     *)
(* user of the server names and deletes people and tags.                   *)
Book(p) ==
  /\ pc[p] = Serving /\ Len(txns) < MaxTxns
  /\ \E r \in Messages \ {txns[i].raw : i \in DOMAIN txns} :
       txns' = Append(txns, [raw |-> r, kind |-> TRUE])
  /\ UNCHANGED <<objects, named, pc, todo, faults>>

Rename(t) ==
  /\ pc[Server] = Serving
  /\ \E n \in Names :
       \/ named' = [named EXCEPT ![t] = @ \cup {n}]
       \/ named' = [named EXCEPT ![t] = @ \ {n}]
  /\ UNCHANGED <<objects, txns, pc, todo, faults>>

(* The next statement of a start. *)
Step(p) ==
  \/ Create(p)
  \/ LookForColumn(p) \/ AddColumn(p)
  \/ CountNames(p) \/ InsertName(p)
  \/ CountDuplicates(p)
  \/ ListUnclassified(p) \/ Classify(p)
  \/ Refused(p)

Next ==
  \/ \E p \in Procs : Start(p) \/ Step(p) \/ Overlook(p) \/ Fail(p) \/ Finish(p) \/ Book(p)
  \/ \E t \in Tables : Rename(t)

Spec == Init /\ [][Next]_vars

(* systemd starts the server again when it has failed, and a process that  *)
(* runs gets on.                                                           *)
FairSpec == Spec /\ WF_vars(Start(Server)) /\ WF_vars(Step(Server))

----------------------------------------------------------------------------
(* Assumptions and properties *)

ASSUME MigrationAssumption ==
  /\ Server \in Procs
  /\ Messages \subseteq Nat /\ Names \subseteq Nat
  /\ Defaults \in [Tables -> SUBSET Names]
  /\ MaxTxns \in Nat /\ MaxFaults \in Nat

TypeOK ==
  /\ objects \subseteq Objects
  /\ named \in [Tables -> SUBSET Names]
  /\ txns \in Seq(Txn) /\ Len(txns) <= MaxTxns
  /\ pc \in [Procs -> 0 .. Serving]
  /\ faults \in 0 .. MaxFaults
  /\ DOMAIN todo = Procs
  /\ \A p \in Procs : todo[p] # {} =>
       \/ Doing(p, "column") /\ todo[p] = {Object(p)}
       \/ Doing(p, "seed") /\ todo[p] \subseteq Names
       \/ Doing(p, "backfill") /\ todo[p] \subseteq DOMAIN txns

(* A process that has opened the store finds the whole schema, every       *)
(* transaction classified and at most one for a message, whatever earlier  *)
(* versions, cut off starts and a second process have done (migrate        *)
(* returns an error or leaves nothing undone).                             *)
ServedComplete ==
  \A p \in Procs : pc[p] = Serving =>
    objects = Objects /\ Unclassified = {} /\ ~ Duplicates

(* What it takes, of processes at any statement.                           *)
MigrationInv ==
  /\ TypeOK
  /\ "raw_index" \in objects => ~ Duplicates
  /\ \A p \in Procs :
       /\ Made(IF pc[p] = 0 THEN 0 ELSE pc[p] - 1) \subseteq objects
       /\ Doing(p, "backfill") /\ todo[p] # {} => Unclassified \subseteq todo[p]
       /\ pc[p] = Serving => Unclassified = {}

(* Unless a message has two transactions, which a start leaves to a human, *)
(* the server that is not running, or is cut off, comes to serve: no start *)
(* is stopped for ever by what another has left or does meanwhile.         *)
ServerServes == (pc[Server] = 0 /\ ~ Duplicates) ~> (pc[Server] = Serving)

=============================================================================
