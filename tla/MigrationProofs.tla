--------------------------- MODULE MigrationProofs ---------------------------
(***************************************************************************)
(* Proofs about Migration, for any processes, defaults and legacy data: a  *)
(* process that has opened the store finds it complete.                    *)
(***************************************************************************)
EXTENDS Migration, TLAPS

(* What the proofs use of the script. *)
LEMMA ScriptFacts ==
  /\ Len(Script) = 11 /\ Serving = 12
  /\ \A i \in 1 .. 11 :
       /\ Script[i].do = "seed" => Script[i].object \in Tables
       /\ Script[i].do = "backfill" <=> i = 11
  /\ "raw_index" \in Objects
<1>1. Len(Script) = 11 /\ Serving = 12
  BY DEF Script, Serving
<1>2. \A i \in 1 .. 11 :
        /\ Script[i].do = "seed" => Script[i].object \in Tables
        /\ Script[i].do = "backfill" <=> i = 11
  BY DEF Script, Tables
<1>3. 10 \in 1 .. Len(Script) /\ Script[10].do = "create" /\ Script[10].object = "raw_index"
  BY <1>1 DEF Script
<1>4. "raw_index" \in Objects
  BY <1>3 DEF Objects, Made
<1> QED BY <1>1, <1>2, <1>4

(* What is made by the next statement. *)
LEMMA MadeStep ==
  ASSUME NEW n \in 1 .. 11
  PROVE  /\ Made(n) = IF Script[n].do \in {"create", "column"}
                      THEN Made(n - 1) \cup {Script[n].object} ELSE Made(n - 1)
         /\ Made(n) \subseteq Objects
         /\ Script[n].do \in {"create", "column"} => Script[n].object \in Objects
<1>1. Len(Script) = 11
  BY ScriptFacts
<1>2. 1 .. n = (1 .. (n - 1)) \cup {n}
  OBVIOUS
<1>3. 1 .. n \subseteq 1 .. 11
  OBVIOUS
<1>4. Made(n) = IF Script[n].do \in {"create", "column"}
                THEN Made(n - 1) \cup {Script[n].object} ELSE Made(n - 1)
  BY <1>2, Zenon DEF Made
<1>5. Made(n) \subseteq Objects
  BY <1>1, <1>3 DEF Made, Objects
<1> QED BY <1>4, <1>5

LEMMA MadeNone == Made(0) = {}
  BY DEF Made

(* How far process p has got.                                              *)
Progress(p) == Made(IF pc[p] = 0 THEN 0 ELSE pc[p] - 1)

(* The invariant, of one process. *)
Sound(p) ==
  /\ Progress(p) \subseteq objects
  /\ Doing(p, "backfill") /\ todo[p] # {} => Unclassified \subseteq todo[p]
  /\ pc[p] = Serving => Unclassified = {}
  /\ todo[p] # {} =>
       \/ Doing(p, "column") /\ todo[p] = {Object(p)}
       \/ Doing(p, "seed") /\ todo[p] \subseteq Names
       \/ Doing(p, "backfill") /\ todo[p] \subseteq DOMAIN txns

(* The types that are of no one process. *)
Shared ==
  /\ objects \subseteq Objects
  /\ named \in [Tables -> SUBSET Names]
  /\ txns \in Seq(Txn) /\ Len(txns) <= MaxTxns
  /\ pc \in [Procs -> 0 .. Serving]
  /\ faults \in 0 .. MaxFaults
  /\ DOMAIN todo = Procs
  /\ "raw_index" \in objects => ~ Duplicates

LEMMA InvParts == MigrationInv <=> Shared /\ \A p \in Procs : Sound(p)
  BY DEF MigrationInv, TypeOK, Shared, Sound, Progress

LEMMA InvPartsNext == MigrationInv' <=> Shared' /\ \A p \in Procs : Sound(p)'
  BY DEF MigrationInv, TypeOK, Shared, Sound, Progress

LEMMA InitInv == Init => MigrationInv
<1> SUFFICES ASSUME Init PROVE Shared /\ \A p \in Procs : Sound(p)
  BY InvParts
<1> PICK n \in 0 .. Len(Script) : objects = Made(n) /\ ("raw_index" \in objects => ~ Duplicates)
  BY DEF Init
<1>1. objects \subseteq Objects
  BY MadeNone, MadeStep, ScriptFacts
<1> PICK m \in 0 .. MaxTxns : txns \in [1 .. m -> Txn]
  BY DEF Init, BoundedSeq, SeqOf
<1>2. txns \in Seq(Txn) /\ Len(txns) <= MaxTxns
  BY MigrationAssumption
<1>3. Shared
  BY <1>1, <1>2, ScriptFacts, MigrationAssumption DEF Init, Shared
<1>4. ASSUME NEW p \in Procs PROVE Sound(p)
  BY MadeNone, ScriptFacts DEF Init, Sound, Progress, Doing
<1> QED BY <1>3, <1>4

(* A step by which no transaction, object or other process changes.        *)
LEMMA OthersSound ==
  ASSUME Shared, Shared', NEW q \in Procs, Sound(q),
         pc'[q] = pc[q], todo'[q] = todo[q],
         objects \subseteq objects',
         DOMAIN txns \subseteq DOMAIN txns', Unclassified' \subseteq Unclassified
  PROVE  Sound(q)'
<1>1. Doing(q, "column")' = Doing(q, "column") /\ Doing(q, "seed")' = Doing(q, "seed")
      /\ Doing(q, "backfill")' = Doing(q, "backfill") /\ Object(q)' = Object(q)
  BY DEF Doing, Object
<1>2. Progress(q)' = Progress(q)
  BY DEF Progress
<1> QED BY <1>1, <1>2 DEF Sound

(* A process that begins a statement has nothing to write yet.             *)
LEMMA AdvanceSound ==
  ASSUME Shared, NEW p \in Procs, Sound(p), pc[p] # Serving,
         pc' = [pc EXCEPT ![p] = @ + 1], todo'[p] = {},
         objects \subseteq objects',
         pc[p] = 0 \/ (Script[pc[p]].do \in {"create", "column"} => Object(p) \in objects'),
         Doing(p, "backfill") => Unclassified' = {}
  PROVE  Sound(p)' /\ pc' \in [Procs -> 0 .. Serving]
<1>1. Serving = 12 /\ pc[p] \in 0 .. 11 /\ pc'[p] = pc[p] + 1 /\ pc' \in [Procs -> 0 .. Serving]
  BY ScriptFacts DEF Shared
<1>2. Progress(p)' \subseteq objects'
  <2>1. Progress(p)' = Made(pc[p])
    BY <1>1 DEF Progress
  <2>2. CASE pc[p] = 0
    BY <2>1, <2>2, MadeNone
  <2>3. CASE pc[p] # 0
    <3>1. pc[p] \in 1 .. 11 /\ Progress(p) = Made(pc[p] - 1)
      BY <1>1, <2>3 DEF Progress
    <3>2. Made(pc[p] - 1) \subseteq objects
      BY <3>1 DEF Sound
    <3> QED BY <2>1, <2>3, <3>1, <3>2, MadeStep DEF Object
  <2> QED BY <2>2, <2>3
<1>3. pc'[p] = Serving => Doing(p, "backfill")
  BY <1>1, ScriptFacts DEF Doing
<1> QED BY <1>1, <1>2, <1>3 DEF Sound

(* A process that is not running. *)
LEMMA QuitSound ==
  ASSUME Shared, NEW p \in Procs, Quit(p), UNCHANGED <<objects, named, txns>>,
         faults' \in 0 .. MaxFaults, \A q \in Procs : Sound(q)
  PROVE  Shared' /\ \A q \in Procs : Sound(q)'
<1>1. Duplicates' = Duplicates /\ Unclassified' = Unclassified
  BY DEF Duplicates, Unclassified
<1>2. Shared'
  BY <1>1, ScriptFacts DEF Shared, Quit
<1>3. Sound(p)'
  BY MadeNone, ScriptFacts DEF Sound, Progress, Doing, Quit, Shared
<1>4. ASSUME NEW q \in Procs, q # p PROVE Sound(q)'
  BY <1>1, <1>2, <1>4, OthersSound DEF Quit, Shared
<1> QED BY <1>2, <1>3, <1>4

(* Starting, and the statements that make objects: other processes find    *)
(* more of them.                                                           *)
LEMMA MakeStep ==
  ASSUME Shared, \A q \in Procs : Sound(q), NEW p \in Procs,
         Start(p) \/ Create(p) \/ LookForColumn(p) \/ AddColumn(p)
  PROVE  Shared' /\ \A q \in Procs : Sound(q)'
<1>1. /\ UNCHANGED <<named, txns, faults>> /\ Duplicates' = Duplicates /\ Unclassified' = Unclassified
      /\ DOMAIN todo' = Procs
      /\ \A q \in Procs : q # p => pc'[q] = pc[q] /\ todo'[q] = todo[q]
  BY DEF Start, Create, LookForColumn, AddColumn, Advance, Shared, Duplicates, Unclassified
<1>2. pc' \in [Procs -> 0 .. Serving] /\ Sound(p)'
  <2>1. CASE Start(p)
    <3>1. todo[p] = {} /\ pc[p] # Serving /\ ~ Doing(p, "backfill")
      BY <2>1, ScriptFacts DEF Sound, Start, Doing
    <3> QED BY <1>1, <2>1, <3>1, AdvanceSound DEF Start, Advance
  <2>2. CASE Create(p)
    <3>1. todo[p] = {} /\ pc[p] # Serving /\ ~ Doing(p, "backfill")
      BY <2>2, ScriptFacts DEF Sound, Create, Doing
    <3> QED BY <1>1, <2>2, <3>1, AdvanceSound DEF Create, Advance
  <2>3. CASE LookForColumn(p)
    <3>1. pc[p] # Serving /\ ~ Doing(p, "backfill")
      BY <2>3, ScriptFacts DEF LookForColumn, Doing
    <3>2. CASE Object(p) \in objects
      BY <1>1, <2>3, <3>1, <3>2, AdvanceSound DEF LookForColumn, Advance
    <3>3. CASE Object(p) \notin objects
      <4>1. pc' = pc /\ objects' = objects /\ todo'[p] = {Object(p)}
        BY <2>3, <3>3 DEF LookForColumn, Shared
      <4>2. Doing(p, "column")' /\ ~ Doing(p, "backfill")' /\ Object(p)' = Object(p)
        BY <2>3, <3>1, <4>1 DEF LookForColumn, Doing, Object
      <4>3. Progress(p)' = Progress(p) /\ pc'[p] # Serving
        BY <3>1, <4>1 DEF Progress
      <4>4. pc' \in [Procs -> 0 .. Serving]
        BY <4>1 DEF Shared
      <4> QED BY <4>1, <4>2, <4>3, <4>4 DEF Sound
    <3> QED BY <3>2, <3>3
  <2>4. CASE AddColumn(p)
    <3>1. pc[p] # Serving /\ ~ Doing(p, "backfill") /\ todo'[p] = {}
      BY <2>4, ScriptFacts DEF AddColumn, Doing, Shared
    <3> QED BY <1>1, <2>4, <3>1, AdvanceSound DEF AddColumn, Advance
  <2> QED BY <2>1, <2>2, <2>3, <2>4
<1>3. objects \subseteq objects' /\ objects' \subseteq Objects /\ ("raw_index" \in objects' => ~ Duplicates)
  <2>1. CASE UNCHANGED objects
    BY <2>1 DEF Shared
  <2>2. CASE Create(p) \/ AddColumn(p)
    <3>1. objects' = objects \cup {Object(p)} /\ Creatable(Object(p)) /\ pc[p] \in 1 .. 11
          /\ Script[pc[p]].do \in {"create", "column"}
      BY <2>2, ScriptFacts DEF Create, AddColumn, Doing
    <3>2. Object(p) \in Objects
      BY <3>1, MadeStep DEF Object
    <3> QED BY <3>1, <3>2 DEF Creatable, Shared
  <2> QED BY <2>1, <2>2 DEF Start, LookForColumn
<1>4. Shared'
  BY <1>1, <1>2, <1>3 DEF Shared
<1>5. ASSUME NEW q \in Procs, q # p PROVE Sound(q)'
  BY <1>1, <1>3, <1>4, <1>5, OthersSound
<1> QED BY <1>2, <1>4, <1>5

(* The default names. *)
LEMMA SeedStep ==
  ASSUME Shared, \A q \in Procs : Sound(q), NEW p \in Procs, CountNames(p) \/ InsertName(p)
  PROVE  Shared' /\ \A q \in Procs : Sound(q)'
<1>1. /\ UNCHANGED <<objects, txns, faults>> /\ Duplicates' = Duplicates /\ Unclassified' = Unclassified
      /\ DOMAIN todo' = Procs
      /\ \A q \in Procs : q # p => pc'[q] = pc[q] /\ todo'[q] = todo[q]
  BY DEF CountNames, InsertName, Advance, Shared, Duplicates, Unclassified
<1>2. /\ Doing(p, "seed") /\ ~ Doing(p, "backfill") /\ pc[p] # Serving /\ Object(p) \in Tables
      /\ Script[pc[p]].do \notin {"create", "column"}
  BY ScriptFacts DEF CountNames, InsertName, Doing, Object
<1>3. named' \in [Tables -> SUBSET Names] /\ todo'[p] \subseteq Names
  <2>1. CASE CountNames(p)
    <3>1. Seeds(Object(p)) \subseteq Names
      BY <1>2, MigrationAssumption DEF Seeds
    <3> QED BY <2>1, <3>1 DEF CountNames, Shared
  <2>2. CASE InsertName(p)
    <3>1. todo[p] \subseteq Names
      BY <1>2 DEF Sound, Doing
    <3>2. PICK n \in todo[p] : named' = [named EXCEPT ![Object(p)] = @ \cup {n}]
                              /\ todo' = [todo EXCEPT ![p] = @ \ {n}]
      BY <2>2 DEF InsertName
    <3>3. \A t \in Tables : named[t] \cup {n} \subseteq Names
      BY <3>1 DEF Shared
    <3>4. named' \in [Tables -> SUBSET Names]
      BY <1>2, <3>2, <3>3 DEF Shared
    <3>5. todo'[p] \subseteq Names
      BY <3>1, <3>2 DEF Shared
    <3> QED BY <3>4, <3>5
  <2> QED BY <2>1, <2>2
<1>4. \/ Advance(p) /\ todo'[p] = {}
      \/ UNCHANGED pc
  <2>1. CASE CountNames(p)
    BY <2>1 DEF CountNames, Shared
  <2>2. CASE InsertName(p)
    <3>1. PICK n \in todo[p] : /\ todo' = [todo EXCEPT ![p] = @ \ {n}]
                              /\ IF todo[p] = {n} THEN Advance(p) ELSE UNCHANGED pc
      BY <2>2 DEF InsertName
    <3> QED BY <3>1 DEF Shared
  <2> QED BY <2>1, <2>2
<1>5. pc' \in [Procs -> 0 .. Serving] /\ Sound(p)'
  <2>1. CASE Advance(p) /\ todo'[p] = {}
    BY <1>1, <1>2, <2>1, AdvanceSound DEF Advance
  <2>2. CASE UNCHANGED pc
    <3>1. Doing(p, "seed")' /\ ~ Doing(p, "backfill")' /\ Progress(p)' = Progress(p) /\ pc'[p] # Serving
      BY <1>2, <2>2 DEF Doing, Progress
    <3>2. pc' \in [Procs -> 0 .. Serving]
      BY <2>2 DEF Shared
    <3> QED BY <1>1, <1>3, <3>1, <3>2 DEF Sound
  <2> QED BY <1>4, <2>1, <2>2
<1>6. Shared'
  BY <1>1, <1>3, <1>5 DEF Shared
<1>7. ASSUME NEW q \in Procs, q # p PROVE Sound(q)'
  BY <1>1, <1>6, <1>7, OthersSound
<1> QED BY <1>5, <1>6, <1>7

(* The count of duplicates, and what is overlooked by error. *)
LEMMA LookStep ==
  ASSUME Shared, \A q \in Procs : Sound(q), NEW p \in Procs, CountDuplicates(p) \/ Overlook(p)
  PROVE  Shared' /\ \A q \in Procs : Sound(q)'
<1>1. /\ UNCHANGED <<objects, named, txns>> /\ Duplicates' = Duplicates /\ Unclassified' = Unclassified
      /\ DOMAIN todo' = Procs /\ faults' \in 0 .. MaxFaults
      /\ \A q \in Procs : q # p => pc'[q] = pc[q] /\ todo'[q] = todo[q]
  BY MigrationAssumption DEF CountDuplicates, Overlook, Advance, Shared, Duplicates, Unclassified
<1>2. ~ Doing(p, "backfill") /\ pc[p] # Serving
  BY ScriptFacts DEF CountDuplicates, Overlook, Doing
<1>3. pc' \in [Procs -> 0 .. Serving] /\ Sound(p)'
  <2>1. CASE Doing(p, "count") /\ Advance(p) /\ UNCHANGED todo
    <3>1. todo'[p] = {} /\ Script[pc[p]].do \notin {"create", "column"}
      BY <2>1 DEF Sound, Doing
    <3> QED BY <1>1, <1>2, <2>1, <3>1, AdvanceSound DEF Advance
  <2>2. CASE Doing(p, "column") /\ todo' = [todo EXCEPT ![p] = {Object(p)}] /\ UNCHANGED pc
    <3>1. Doing(p, "column")' /\ ~ Doing(p, "backfill")' /\ Object(p)' = Object(p)
          /\ Progress(p)' = Progress(p) /\ todo'[p] = {Object(p)}
      BY <1>2, <2>2 DEF Doing, Progress, Object, Shared
    <3>2. pc' \in [Procs -> 0 .. Serving]
      BY <2>2 DEF Shared
    <3> QED BY <1>1, <1>2, <2>2, <3>1, <3>2 DEF Sound
  <2> QED BY <2>1, <2>2 DEF CountDuplicates, Overlook
<1>4. Shared'
  BY <1>1, <1>3 DEF Shared
<1>5. ASSUME NEW q \in Procs, q # p PROVE Sound(q)'
  BY <1>1, <1>4, <1>5, OthersSound
<1> QED BY <1>3, <1>4, <1>5

(* Classifying takes a transaction from those that lack a kind.            *)
LEMMA ClassifyOne ==
  ASSUME Shared, NEW i \in DOMAIN txns, txns' = [txns EXCEPT ![i].kind = TRUE]
  PROVE  /\ txns' \in Seq(Txn) /\ Len(txns') = Len(txns) /\ DOMAIN txns' = DOMAIN txns
         /\ Duplicates' = Duplicates
         /\ Unclassified' = Unclassified \ {i}
<1>1. \A j \in DOMAIN txns : txns[j] \in Txn
  BY DEF Shared
<1>2. txns' \in Seq(Txn) /\ Len(txns') = Len(txns) /\ DOMAIN txns' = DOMAIN txns
  <2>1. [txns[i] EXCEPT !.kind = TRUE] \in Txn
    BY <1>1 DEF Txn
  <2>2. txns' = [txns EXCEPT ![i] = [txns[i] EXCEPT !.kind = TRUE]]
    BY Zenon
  <2> QED BY <2>1, <2>2 DEF Shared
<1>3. \A j \in DOMAIN txns : txns'[j].raw = txns[j].raw
                          /\ txns'[j].kind = IF j = i THEN TRUE ELSE txns[j].kind
  BY <1>1 DEF Txn
<1>4. Duplicates' = Duplicates
  BY <1>2, <1>3 DEF Duplicates
<1>5. Unclassified' = Unclassified \ {i}
  BY <1>2, <1>3 DEF Unclassified
<1> QED BY <1>2, <1>4, <1>5

(* The kinds of what was booked without one. *)
LEMMA BackfillStep ==
  ASSUME Shared, \A q \in Procs : Sound(q), NEW p \in Procs, ListUnclassified(p) \/ Classify(p)
  PROVE  Shared' /\ \A q \in Procs : Sound(q)'
<1>1. /\ UNCHANGED <<objects, named, faults>> /\ DOMAIN todo' = Procs
      /\ \A q \in Procs : q # p => pc'[q] = pc[q] /\ todo'[q] = todo[q]
  BY DEF ListUnclassified, Classify, Advance, Shared
<1>2. Doing(p, "backfill") /\ pc[p] # Serving /\ Script[pc[p]].do \notin {"create", "column", "seed"}
  BY ScriptFacts DEF ListUnclassified, Classify, Doing
<1>3. /\ txns' \in Seq(Txn) /\ Len(txns') = Len(txns) /\ DOMAIN txns' = DOMAIN txns
      /\ Duplicates' = Duplicates /\ Unclassified' \subseteq Unclassified
      /\ todo'[p] \subseteq DOMAIN txns /\ Unclassified' \subseteq todo'[p]
      /\ (Advance(p) /\ todo'[p] = {}) \/ UNCHANGED pc
  <2>1. CASE ListUnclassified(p)
    <3>1. UNCHANGED txns /\ Duplicates' = Duplicates /\ Unclassified' = Unclassified
      BY <2>1 DEF ListUnclassified, Duplicates, Unclassified
    <3> QED BY <2>1, <3>1 DEF ListUnclassified, Shared, Unclassified
  <2>2. CASE Classify(p)
    <3>1. PICK i \in todo[p] : /\ txns' = [txns EXCEPT ![i].kind = TRUE]
                              /\ todo' = [todo EXCEPT ![p] = @ \ {i}]
                              /\ IF todo[p] = {i} THEN Advance(p) ELSE UNCHANGED pc
      BY <2>2 DEF Classify
    <3>2. todo[p] \subseteq DOMAIN txns /\ Unclassified \subseteq todo[p]
      BY <1>2, <3>1 DEF Sound, Doing
    <3>3. todo'[p] = todo[p] \ {i}
      BY <3>1 DEF Shared
    <3> QED BY <3>1, <3>2, <3>3, ClassifyOne
  <2> QED BY <2>1, <2>2
<1>4. pc' \in [Procs -> 0 .. Serving] /\ Sound(p)'
  <2>1. CASE Advance(p) /\ todo'[p] = {}
    BY <1>1, <1>2, <1>3, <2>1, AdvanceSound DEF Advance
  <2>2. CASE UNCHANGED pc
    <3>1. Doing(p, "backfill")' /\ Progress(p)' = Progress(p) /\ pc'[p] # Serving
      BY <1>2, <2>2 DEF Doing, Progress
    <3>2. pc' \in [Procs -> 0 .. Serving]
      BY <2>2 DEF Shared
    <3> QED BY <1>1, <1>3, <3>1, <3>2 DEF Sound
  <2> QED BY <1>3, <2>1, <2>2
<1>5. Shared'
  BY <1>1, <1>3, <1>4 DEF Shared
<1>6. ASSUME NEW q \in Procs, q # p PROVE Sound(q)'
  BY <1>1, <1>3, <1>5, <1>6, OthersSound
<1> QED BY <1>4, <1>5, <1>6

(* Booking while serving: the message is a new one, its kind known.        *)
LEMMA BookStep ==
  ASSUME Shared, \A q \in Procs : Sound(q), NEW p \in Procs, Book(p)
  PROVE  Shared' /\ \A q \in Procs : Sound(q)'
<1>1. UNCHANGED <<objects, named, pc, todo, faults>>
  BY DEF Book
<1>2. PICK r \in Messages : /\ \A i \in DOMAIN txns : txns[i].raw # r
                           /\ txns' = Append(txns, [raw |-> r, kind |-> TRUE])
  BY DEF Book
<1>3. [raw |-> r, kind |-> TRUE] \in Txn
  BY DEF Txn
<1>4. /\ txns' \in Seq(Txn) /\ Len(txns') = Len(txns) + 1 /\ DOMAIN txns' = 1 .. Len(txns) + 1
      /\ DOMAIN txns = 1 .. Len(txns)
      /\ txns'[Len(txns) + 1].raw = r /\ txns'[Len(txns) + 1].kind
      /\ \A i \in DOMAIN txns : txns'[i] = txns[i]
  BY <1>2, <1>3 DEF Shared
<1>5. Len(txns') <= MaxTxns
  BY <1>4, MigrationAssumption DEF Book, Shared
<1>6. Unclassified' = Unclassified
  BY <1>4 DEF Unclassified
<1>7. ~ Duplicates => ~ Duplicates'
  BY <1>2, <1>4 DEF Duplicates
<1>8. Shared'
  BY <1>1, <1>4, <1>5, <1>7 DEF Shared
<1>9. DOMAIN txns \subseteq DOMAIN txns'
  BY <1>4
<1> QED BY <1>1, <1>6, <1>8, <1>9, OthersSound

LEMMA NextInv == MigrationInv /\ [Next]_vars => MigrationInv'
<1> SUFFICES ASSUME Shared, \A p \in Procs : Sound(p), [Next]_vars
             PROVE  Shared' /\ \A p \in Procs : Sound(p)'
  BY InvParts, InvPartsNext
<1>1. ASSUME NEW p \in Procs, Start(p) \/ Create(p) \/ LookForColumn(p) \/ AddColumn(p)
      PROVE  Shared' /\ \A q \in Procs : Sound(q)'
  BY <1>1, MakeStep
<1>2. ASSUME NEW p \in Procs, CountNames(p) \/ InsertName(p)
      PROVE  Shared' /\ \A q \in Procs : Sound(q)'
  BY <1>2, SeedStep
<1>3. ASSUME NEW p \in Procs, CountDuplicates(p) \/ Overlook(p)
      PROVE  Shared' /\ \A q \in Procs : Sound(q)'
  BY <1>3, LookStep
<1>4. ASSUME NEW p \in Procs, ListUnclassified(p) \/ Classify(p)
      PROVE  Shared' /\ \A q \in Procs : Sound(q)'
  BY <1>4, BackfillStep
<1>5. ASSUME NEW p \in Procs, Refused(p) \/ Fail(p) \/ Finish(p)
      PROVE  Shared' /\ \A q \in Procs : Sound(q)'
  <2>1. Quit(p) /\ UNCHANGED <<objects, named, txns>> /\ faults' \in 0 .. MaxFaults
    BY <1>5, MigrationAssumption DEF Refused, Fail, Finish, Shared
  <2> QED BY <2>1, QuitSound
<1>6. ASSUME NEW p \in Procs, Book(p)
      PROVE  Shared' /\ \A q \in Procs : Sound(q)'
  BY <1>6, BookStep
<1>7. ASSUME named' \in [Tables -> SUBSET Names], UNCHANGED <<objects, txns, pc, todo, faults>>
      PROVE  Shared' /\ \A q \in Procs : Sound(q)'
  <2>1. Duplicates' = Duplicates /\ Unclassified' = Unclassified
    BY <1>7 DEF Duplicates, Unclassified
  <2>2. Shared'
    BY <1>7, <2>1 DEF Shared
  <2> QED BY <1>7, <2>1, <2>2, OthersSound
<1>8. ASSUME NEW t \in Tables, Rename(t) PROVE named' \in [Tables -> SUBSET Names]
  <2>1. PICK n \in Names : \/ named' = [named EXCEPT ![t] = @ \cup {n}]
                          \/ named' = [named EXCEPT ![t] = @ \ {n}]
    BY <1>8 DEF Rename
  <2> QED BY <2>1 DEF Shared
<1>9. CASE UNCHANGED vars
  BY <1>7, <1>9 DEF vars, Shared
<1>10. CASE Next
  BY <1>1, <1>2, <1>3, <1>4, <1>5, <1>6, <1>7, <1>8, <1>10 DEF Next, Step, Rename
<1> QED BY <1>9, <1>10

(* What holds of processes at any statement of a start always holds.       *)
THEOREM MigrationInductive == Spec => []MigrationInv
  BY InitInv, NextInv, PTL DEF Spec

LEMMA InvServed == MigrationInv => ServedComplete
<1> SUFFICES ASSUME MigrationInv, NEW p \in Procs, pc[p] = Serving
             PROVE  objects = Objects /\ Unclassified = {} /\ ~ Duplicates
  BY DEF ServedComplete
<1>1. Shared /\ Sound(p)
  BY InvParts
<1>2. Objects \subseteq objects
  BY <1>1, ScriptFacts DEF Sound, Progress, Objects
<1> QED BY <1>1, <1>2, ScriptFacts DEF Sound, Shared

(* However a database came about and whoever opens it at the same time, a  *)
(* process that has opened it finds the schema whole, every transaction    *)
(* classified and one at most for a message (store.Open).                  *)
THEOREM OpenedComplete == Spec => []ServedComplete
  BY MigrationInductive, InvServed, PTL

=============================================================================
