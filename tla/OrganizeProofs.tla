--------------------------- MODULE OrganizeProofs ---------------------------
(***************************************************************************)
(* The safety properties of the organise inbox, proved for any number of   *)
(* cards, windows, people and tags, of handlers and loads at a time, of    *)
(* taps and of lost requests.                                              *)
(***************************************************************************)
EXTENDS Organize, FiniteSetTheorems, TLAPS

(* What a slot may hold: TypeOK, with the records' fields spelled out.     *)
HandlerSteps == LoadSteps \cup {"sent", "served", "counters"}

LoadTask == [pc : LoadSteps, view : View, got : Shelf]

HandlerTask ==
  [pc : HandlerSteps, view : View, got : Shelf, kind : {"label", "notag"},
   card : Cards, body : Body, from : Row, row : Row]

Types ==
  /\ rows \in [Cards -> Row]
  /\ view \in View
  /\ queue \in Shelf /\ held \in Shelf /\ heldRef \in Shelf
  /\ busy \in Cards \cup {NoCard}
  /\ loadErr \in BOOLEAN
  /\ task \in [Slots -> {Idle} \cup LoadTask \cup HandlerTask]
  /\ clicks \in 0..MaxClicks
  /\ faults \in 0..MaxFaults
  /\ astray \subseteq Cards /\ crossed \subseteq Cards
  /\ overtaken \in BOOLEAN
  /\ loaded \in SUBSET View

----------------------------------------------------------------------------
(* Shelves *)

LEMMA ShelfRows ==
  ASSUME NEW f \in Shelf
  PROVE  /\ DOMAIN f \subseteq Cards
         /\ \A c \in DOMAIN f : f[c] \in Row
         /\ f = [c \in DOMAIN f |-> f[c]]
  BY DEF Shelf

LEMMA ShelfMade ==
  ASSUME NEW f, DOMAIN f \subseteq Cards, f = [c \in DOMAIN f |-> f[c]],
         \A c \in DOMAIN f : f[c] \in Row
  PROVE  f \in Shelf
  <1>1. f \in [DOMAIN f -> Row]
    OBVIOUS
  <1> QED
    BY <1>1 DEF Shelf

LEMMA ShelfEmpty == Nothing \in Shelf /\ DOMAIN Nothing = {}
  <1>1. DOMAIN Nothing = {} /\ Nothing = [c \in DOMAIN Nothing |-> Nothing[c]]
    BY DEF Nothing
  <1> QED
    BY <1>1, ShelfMade

LEMMA ShelfPut ==
  ASSUME NEW f \in Shelf, NEW c \in Cards, NEW r \in Row
  PROVE  /\ Put(f, c, r) \in Shelf
         /\ DOMAIN Put(f, c, r) = DOMAIN f \cup {c}
         /\ Put(f, c, r)[c] = r
         /\ \A d \in DOMAIN f : d # c => Put(f, c, r)[d] = f[d]
  <1>1. /\ DOMAIN Put(f, c, r) = DOMAIN f \cup {c}
        /\ Put(f, c, r)[c] = r
        /\ \A d \in DOMAIN f : d # c => Put(f, c, r)[d] = f[d]
        /\ Put(f, c, r) = [d \in DOMAIN Put(f, c, r) |-> Put(f, c, r)[d]]
    BY DEF Put
  <1> QED
    BY <1>1, ShelfRows, ShelfMade

LEMMA ShelfUpdate ==
  ASSUME NEW f \in Shelf, NEW c \in Cards, NEW r \in Row
  PROVE  /\ Update(f, c, r) \in Shelf
         /\ DOMAIN Update(f, c, r) = DOMAIN f
         /\ c \in DOMAIN f => Update(f, c, r)[c] = r
         /\ \A d \in DOMAIN f : d # c => Update(f, c, r)[d] = f[d]
  <1>1. CASE c \in DOMAIN f
    <2>1. Update(f, c, r) = Put(f, c, r)
      BY <1>1 DEF Update
    <2>2. DOMAIN f \cup {c} = DOMAIN f
      BY <1>1
    <2>3. /\ Put(f, c, r) \in Shelf
          /\ DOMAIN Put(f, c, r) = DOMAIN f \cup {c}
          /\ Put(f, c, r)[c] = r
          /\ \A d \in DOMAIN f : d # c => Put(f, c, r)[d] = f[d]
      BY ShelfPut
    <2> QED
      BY <1>1, <2>1, <2>2, <2>3
  <1>2. CASE c \notin DOMAIN f
    BY <1>2 DEF Update
  <1> QED
    BY <1>1, <1>2

LEMMA ShelfWithout ==
  ASSUME NEW f \in Shelf, NEW c
  PROVE  /\ Without(f, c) \in Shelf
         /\ DOMAIN Without(f, c) = DOMAIN f \ {c}
         /\ \A d \in DOMAIN f : d # c => Without(f, c)[d] = f[d]
  <1>1. /\ DOMAIN Without(f, c) = DOMAIN f \ {c}
        /\ \A d \in DOMAIN f : d # c => Without(f, c)[d] = f[d]
        /\ Without(f, c) = [d \in DOMAIN Without(f, c) |-> Without(f, c)[d]]
    BY DEF Without
  <1> QED
    BY <1>1, ShelfRows, ShelfMade

(* Card c belongs to the answer for view v.                                *)
Listed(v, c) == c \in Within[v.window] /\ (v.only => rows[c].person = Nobody)

LEMMA AnswerLists ==
  ASSUME rows \in [Cards -> Row], NEW v \in View
  PROVE  /\ Answer(v) \in Shelf
         /\ \A c : c \in DOMAIN Answer(v) <=> Listed(v, c)
         /\ \A c \in DOMAIN Answer(v) : c \in Cards /\ Answer(v)[c] = rows[c]
  <1>1. Within[v.window] \subseteq Cards
    BY OrganizeAssumption DEF View
  <1>2. /\ DOMAIN Answer(v) = {d \in Within[v.window] : v.only => rows[d].person = Nobody}
        /\ \A c \in DOMAIN Answer(v) : Answer(v)[c] = rows[c]
        /\ Answer(v) = [c \in DOMAIN Answer(v) |-> Answer(v)[c]]
    BY DEF Answer
  <1>3. \A c \in DOMAIN Answer(v) : c \in Cards /\ Answer(v)[c] \in Row
    BY <1>1, <1>2
  <1>4. Answer(v) \in Shelf
    BY <1>2, <1>3, ShelfMade
  <1> QED
    BY <1>2, <1>3, <1>4 DEF Listed

LEMMA MergedRows ==
  ASSUME heldRef \in Shelf, NEW f \in Shelf, NEW only \in BOOLEAN
  PROVE  /\ Merged(f, only) \in Shelf
         /\ DOMAIN Merged(f, only) = DOMAIN f \cup (IF only THEN DOMAIN heldRef ELSE {})
         /\ \A c \in DOMAIN f : Merged(f, only)[c] = f[c]
         /\ \A c \in DOMAIN Merged(f, only) : c \notin DOMAIN f =>
              c \in DOMAIN heldRef /\ only /\ Merged(f, only)[c] = heldRef[c]
  <1>1. /\ DOMAIN Merged(f, only) = DOMAIN f \cup (IF only THEN DOMAIN heldRef ELSE {})
        /\ \A c \in DOMAIN f : Merged(f, only)[c] = f[c]
        /\ \A c \in DOMAIN Merged(f, only) : c \notin DOMAIN f =>
             c \in DOMAIN heldRef /\ only /\ Merged(f, only)[c] = heldRef[c]
        /\ Merged(f, only) = [c \in DOMAIN Merged(f, only) |-> Merged(f, only)[c]]
    BY DEF Merged
  <1>2. \A c \in DOMAIN Merged(f, only) : c \in Cards /\ Merged(f, only)[c] \in Row
    BY <1>1, ShelfRows
  <1>3. Merged(f, only) \in Shelf
    BY <1>1, <1>2, ShelfMade
  <1> QED
    BY <1>1, <1>3

(* What a PATCH leaves of a row.                                           *)
LEMMA PatchedRow ==
  ASSUME NEW r \in Row, NEW b \in Body
  PROVE  /\ Patched(r, b) \in Row
         /\ Sets(b, "person") => b.person \in People \cup {Nobody} /\ Patched(r, b).person = b.person
         /\ ~Sets(b, "person") => Patched(r, b).person = r.person
         /\ Sets(b, "tags") => b.tags \subseteq Tags /\ Patched(r, b).tags = b.tags
         /\ ~(Sets(b, "person") /\ Sets(b, "tags"))
  <1>1. CASE b \in [person : People \cup {Nobody}]
    <2>1. DOMAIN b = {"person"} /\ b.person \in People \cup {Nobody}
      BY <1>1
    <2>2. Sets(b, "person") /\ ~Sets(b, "tags")
      BY <2>1 DEF Sets
    <2>3. Patched(r, b) = [r EXCEPT !.person = b.person, !.tags = r.tags]
      BY <2>2 DEF Patched
    <2> QED
      BY <2>1, <2>2, <2>3 DEF Row
  <1>2. CASE b \in [tags : SUBSET Tags]
    <2>1. DOMAIN b = {"tags"} /\ b.tags \subseteq Tags
      BY <1>2
    <2>2. ~Sets(b, "person") /\ Sets(b, "tags")
      BY <2>1 DEF Sets
    <2>3. Patched(r, b) = [r EXCEPT !.person = r.person, !.tags = b.tags]
      BY <2>2 DEF Patched
    <2> QED
      BY <2>1, <2>2, <2>3 DEF Row
  <1> QED
    BY <1>1, <1>2 DEF Body

----------------------------------------------------------------------------
(* Slots *)

(* A slot is free, loads, or handles a card, and what it is shows.         *)
LEMMA SlotKinds ==
  ASSUME Types, NEW i \in Slots
  PROVE  /\ \/ task[i] = Idle /\ task[i].pc = "idle" /\ ~Handles(i)
            \/ task[i] \in LoadTask /\ ~Handles(i)
            \/ task[i] \in HandlerTask /\ Handles(i)
         /\ task[i].pc \in HandlerSteps \cup {"idle"}
         /\ task[i].pc # "idle" => task[i].view \in View /\ task[i].got \in Shelf
         /\ Handles(i) =>
              /\ task[i].pc \in HandlerSteps
              /\ task[i].view \in View /\ task[i].got \in Shelf
              /\ task[i].kind \in {"label", "notag"} /\ task[i].card \in Cards
              /\ task[i].body \in Body /\ task[i].from \in Row /\ task[i].row \in Row
  <1>1. task[i] \in {Idle} \cup LoadTask \cup HandlerTask
    BY DEF Types
  <1>2. CASE task[i] = Idle
    BY <1>2 DEF Idle, Handles
  <1>3. CASE task[i] \in LoadTask
    <2>1. DOMAIN task[i] = {"pc", "view", "got"}
      BY <1>3 DEF LoadTask
    <2> QED
      BY <1>3, <2>1 DEF LoadTask, Handles, LoadSteps, HandlerSteps
  <1>4. CASE task[i] \in HandlerTask
    <2>1. DOMAIN task[i] = {"pc", "view", "got", "kind", "card", "body", "from", "row"}
      BY <1>4 DEF HandlerTask
    <2> QED
      BY <1>4, <2>1 DEF HandlerTask, Handles, LoadSteps, HandlerSteps
  <1> QED
    BY <1>1, <1>2, <1>3, <1>4

(* A slot left alone is what it was.                                       *)
LEMMA SlotKept ==
  ASSUME NEW j \in Slots, task'[j] = task[j]
  PROVE  Handles(j)' <=> Handles(j)
  BY DEF Handles

(* Moving a slot's program counter changes nothing else of it.             *)
LEMMA SlotMoves ==
  ASSUME Types, NEW i \in Slots, task[i] # Idle, NEW p \in LoadSteps \cup {"counters"},
         p = "counters" => Handles(i),
         task' = [task EXCEPT ![i].pc = p]
  PROVE  /\ task' \in [Slots -> {Idle} \cup LoadTask \cup HandlerTask]
         /\ \A j \in Slots : /\ Handles(j)' <=> Handles(j)
                             /\ j # i => task'[j] = task[j]
         /\ task'[i].pc = p
         /\ task'[i].view = task[i].view /\ task'[i].got = task[i].got
         /\ Handles(i) => /\ task'[i].kind = task[i].kind /\ task'[i].card = task[i].card
                          /\ task'[i].body = task[i].body /\ task'[i].from = task[i].from
                          /\ task'[i].row = task[i].row
  <1> DEFINE t == [task[i] EXCEPT !.pc = p]
  <1>1. task' = [task EXCEPT ![i] = t] /\ task'[i] = t
    BY DEF Types
  <1>2. \A j \in Slots : j # i => task'[j] = task[j]
    BY <1>1 DEF Types
  <1>3. CASE task[i] \in LoadTask /\ ~Handles(i)
    <2>1. /\ t \in LoadTask /\ t.pc = p /\ t.view = task[i].view /\ t.got = task[i].got
          /\ DOMAIN t = DOMAIN task[i]
      BY <1>3 DEF LoadTask, LoadSteps
    <2>2. Handles(i)' <=> Handles(i)
      BY <1>1, <2>1 DEF Handles
    <2> HIDE DEF t
    <2> QED
      BY <1>1, <1>2, <1>3, <2>1, <2>2, SlotKept DEF Types
  <1>4. CASE task[i] \in HandlerTask /\ Handles(i)
    <2>1. /\ t \in HandlerTask /\ t.pc = p /\ t.view = task[i].view /\ t.got = task[i].got
          /\ t.kind = task[i].kind /\ t.card = task[i].card /\ t.body = task[i].body
          /\ t.from = task[i].from /\ t.row = task[i].row
          /\ DOMAIN t = DOMAIN task[i]
      BY <1>4 DEF HandlerTask, HandlerSteps
    <2>2. Handles(i)' <=> Handles(i)
      BY <1>1, <2>1 DEF Handles
    <2> HIDE DEF t
    <2> QED
      BY <1>1, <1>2, <1>4, <2>1, <2>2, SlotKept DEF Types
  <1> QED
    BY <1>3, <1>4, SlotKinds

(* A slot that starts or ends is what it is set to.                        *)
LEMMA SlotSet ==
  ASSUME Types, NEW i \in Slots, NEW t \in {Idle} \cup LoadTask \cup HandlerTask,
         task' = [task EXCEPT ![i] = t]
  PROVE  /\ task' \in [Slots -> {Idle} \cup LoadTask \cup HandlerTask]
         /\ task'[i] = t
         /\ \A j \in Slots : j # i => task'[j] = task[j] /\ (Handles(j)' <=> Handles(j))
         /\ Handles(i)' <=> "card" \in DOMAIN t
  <1>1. task'[i] = t /\ \A j \in Slots : j # i => task'[j] = task[j]
    BY DEF Types
  <1> QED
    BY <1>1, SlotKept DEF Types, Handles

LEMMA IdleSlot == Idle.pc = "idle" /\ "card" \notin DOMAIN Idle
  BY DEF Idle

LEMMA LoadSlot ==
  ASSUME NEW v \in View
  PROVE  /\ Load(v) \in LoadTask
         /\ Load(v).pc = "load" /\ Load(v).view = v /\ Load(v).got = Nothing
         /\ "card" \notin DOMAIN Load(v)
  BY ShelfEmpty DEF Load, LoadTask, LoadSteps

LEMMA HandlerSlot ==
  ASSUME Types, NEW kind \in {"label", "notag"}, NEW c \in DOMAIN queue, NEW body \in Body
  PROVE  LET h == Handler(kind, c, body) IN
           /\ h \in HandlerTask
           /\ h.pc = "sent" /\ h.view = view /\ h.kind = kind /\ h.card = c
           /\ h.body = body /\ h.from = queue[c] /\ h.row = queue[c]
           /\ "card" \in DOMAIN h
  <1>1. c \in Cards /\ queue[c] \in Row
    BY ShelfRows DEF Types
  <1> QED
    BY <1>1, ShelfEmpty DEF Types, Handler, HandlerTask, HandlerSteps

LEMMA SlotLoads ==
  ASSUME Types, NEW i \in Slots, task[i] # Idle, NEW p \in LoadSteps, NEW a \in Shelf,
         task' = [task EXCEPT ![i].pc = p, ![i].got = a]
  PROVE  /\ task' \in [Slots -> {Idle} \cup LoadTask \cup HandlerTask]
         /\ \A j \in Slots : /\ Handles(j)' <=> Handles(j)
                             /\ j # i => task'[j] = task[j]
         /\ task'[i].pc = p /\ task'[i].got = a
         /\ task'[i].view = task[i].view
         /\ Handles(i) => /\ task'[i].kind = task[i].kind /\ task'[i].card = task[i].card
                          /\ task'[i].body = task[i].body /\ task'[i].from = task[i].from
                          /\ task'[i].row = task[i].row
  <1> DEFINE t == [task[i] EXCEPT !.pc = p, !.got = a]
  <1>1. task' = [task EXCEPT ![i] = t] /\ task'[i] = t
    BY DEF Types
  <1>2. \A j \in Slots : j # i => task'[j] = task[j]
    BY <1>1 DEF Types
  <1>3. CASE task[i] \in LoadTask /\ ~Handles(i)
    <2>1. /\ t \in LoadTask /\ t.pc = p /\ t.view = task[i].view /\ t.got = a
          /\ DOMAIN t = DOMAIN task[i]
      BY <1>3 DEF LoadTask, LoadSteps
    <2>2. Handles(i)' <=> Handles(i)
      BY <1>1, <2>1 DEF Handles
    <2> HIDE DEF t
    <2> QED
      BY <1>1, <1>2, <1>3, <2>1, <2>2, SlotKept DEF Types
  <1>4. CASE task[i] \in HandlerTask /\ Handles(i)
    <2>1. /\ t \in HandlerTask /\ t.pc = p /\ t.view = task[i].view /\ t.got = a
          /\ t.kind = task[i].kind /\ t.card = task[i].card /\ t.body = task[i].body
          /\ t.from = task[i].from /\ t.row = task[i].row
          /\ DOMAIN t = DOMAIN task[i]
      BY <1>4 DEF HandlerTask, HandlerSteps
    <2>2. Handles(i)' <=> Handles(i)
      BY <1>1, <2>1 DEF Handles
    <2> HIDE DEF t
    <2> QED
      BY <1>1, <1>2, <1>4, <2>1, <2>2, SlotKept DEF Types
  <1> QED
    BY <1>3, <1>4, SlotKinds

LEMMA SlotServed ==
  ASSUME Types, NEW i \in Slots, Handles(i), NEW r \in Row,
         task' = [task EXCEPT ![i].pc = "served", ![i].row = r]
  PROVE  /\ task' \in [Slots -> {Idle} \cup LoadTask \cup HandlerTask]
         /\ \A j \in Slots : /\ Handles(j)' <=> Handles(j)
                             /\ j # i => task'[j] = task[j]
         /\ task'[i].pc = "served" /\ task'[i].row = r
         /\ task'[i].view = task[i].view /\ task'[i].got = task[i].got
         /\ task'[i].kind = task[i].kind /\ task'[i].card = task[i].card
         /\ task'[i].body = task[i].body /\ task'[i].from = task[i].from
  <1> DEFINE t == [task[i] EXCEPT !.pc = "served", !.row = r]
  <1>1. task' = [task EXCEPT ![i] = t] /\ task'[i] = t
    BY DEF Types
  <1>2. \A j \in Slots : j # i => task'[j] = task[j]
    BY <1>1 DEF Types
  <1>3. task[i] \in HandlerTask
    BY SlotKinds
  <1>4. /\ t \in HandlerTask /\ t.pc = "served" /\ t.row = r
        /\ t.view = task[i].view /\ t.got = task[i].got
        /\ t.kind = task[i].kind /\ t.card = task[i].card
        /\ t.body = task[i].body /\ t.from = task[i].from
        /\ DOMAIN t = DOMAIN task[i]
    BY <1>3 DEF HandlerTask, HandlerSteps
  <1>5. Handles(i)' <=> Handles(i)
    BY <1>1, <1>4 DEF Handles
  <1> HIDE DEF t
  <1> QED
    BY <1>1, <1>2, <1>4, <1>5, SlotKept DEF Types

(* The slots after Finish(i): slot i is free, the others are as they were. *)
LEMMA SlotEnds ==
  ASSUME Types, NEW i \in Slots, Finish(i)
  PROVE  /\ task' \in [Slots -> {Idle} \cup LoadTask \cup HandlerTask]
         /\ busy' \in Cards \cup {NoCard}
         /\ task'[i] = Idle /\ task'[i].pc = "idle" /\ ~Handles(i)'
         /\ \A j \in Slots : j # i => task'[j] = task[j] /\ (Handles(j)' <=> Handles(j))
  BY SlotSet, IdleSlot DEF Finish, Types

(* The slots after the start of a load of view v.                          *)
LEMMA SlotStarts ==
  ASSUME Types, NEW i \in Slots, NEW v \in View, StartLoad(i, v)
  PROVE  /\ task' \in [Slots -> {Idle} \cup LoadTask \cup HandlerTask]
         /\ task[i] = Idle /\ task[i].pc = "idle" /\ ~Handles(i)
         /\ task'[i].pc = "load" /\ task'[i].view = v /\ ~Handles(i)'
         /\ \A j \in Slots : j # i => task'[j] = task[j] /\ (Handles(j)' <=> Handles(j))
  <1>1. task[i] = Idle /\ task' = [task EXCEPT ![i] = Load(v)]
    BY DEF StartLoad, Free
  <1>2. task[i].pc = "idle" /\ ~Handles(i)
    BY <1>1, IdleSlot DEF Handles
  <1> QED
    BY <1>1, <1>2, SlotSet, LoadSlot

(* The slots after a tap.                                                  *)
LEMMA SlotTapped ==
  ASSUME Types, NEW i \in Slots, NEW kind \in {"label", "notag"}, NEW c,
         NEW body \in Body, Tap(i, kind, c, body)
  PROVE  /\ task' \in [Slots -> {Idle} \cup LoadTask \cup HandlerTask]
         /\ task[i] = Idle /\ task[i].pc = "idle" /\ ~Handles(i)
         /\ Handles(i)' /\ task'[i].pc = "sent" /\ task'[i].view = view
         /\ task'[i].kind = kind /\ task'[i].card = c /\ task'[i].body = body
         /\ task'[i].from = queue[c] /\ task'[i].row = queue[c]
         /\ \A j \in Slots : j # i => task'[j] = task[j] /\ (Handles(j)' <=> Handles(j))
         /\ c \in DOMAIN queue /\ c \in Cards
  <1>1. /\ task[i] = Idle /\ task' = [task EXCEPT ![i] = Handler(kind, c, body)]
        /\ c \in DOMAIN queue
    BY DEF Tap, Free, Tappable
  <1>2. task[i].pc = "idle" /\ ~Handles(i)
    BY <1>1, IdleSlot DEF Handles
  <1>3. c \in Cards
    BY <1>1, ShelfRows DEF Types
  <1>4. LET h == Handler(kind, c, body) IN
           /\ h \in HandlerTask
           /\ h.pc = "sent" /\ h.view = view /\ h.kind = kind /\ h.card = c
           /\ h.body = body /\ h.from = queue[c] /\ h.row = queue[c]
           /\ "card" \in DOMAIN h
    BY <1>1, HandlerSlot
  <1> QED
    BY <1>1, <1>2, <1>3, <1>4, SlotSet

(* The five taps: what each asks for.                                      *)
TapOf(i, kind, c, body) ==
  /\ Tap(i, kind, c, body)
  /\ kind \in {"label", "notag"}
  /\ body \in Body
  /\ kind = "notag" => body = [tags |-> {}]
  /\ kind = "label" /\ Sets(body, "tags") =>
       \E tag \in Tags : body.tags = Toggled(queue[c], tag)

LEMMA Taps ==
  ASSUME Types, NEW i \in Slots,
         \/ \E c \in Cards, p \in People : TapPerson(i, c, p)
         \/ \E c \in Cards : ClearPerson(i, c)
         \/ \E c \in Cards, tag \in Tags : TapTag(i, c, tag)
         \/ \E c \in Cards : TapNoTag(i, c)
  PROVE  \E kind \in {"label", "notag"}, c \in Cards, body \in Body : TapOf(i, kind, c, body)
  <1>1. ASSUME NEW c \in Cards, NEW p \in People \cup {Nobody},
               Tap(i, "label", c, [person |-> p])
        PROVE  TapOf(i, "label", c, [person |-> p]) /\ [person |-> p] \in Body
    <2>1. DOMAIN [person |-> p] = {"person"}
      OBVIOUS
    <2> QED
      BY <1>1, <2>1 DEF TapOf, Body, Sets
  <1>2. ASSUME NEW c \in Cards, NEW tag \in Tags, TapTag(i, c, tag)
        PROVE  /\ TapOf(i, "label", c, [tags |-> Toggled(queue[c], tag)])
               /\ [tags |-> Toggled(queue[c], tag)] \in Body
    <2>1. queue[c] \in Row
      BY <1>2, ShelfRows DEF TapTag, Tap, Tappable, Types
    <2>2. Toggled(queue[c], tag) \in SUBSET Tags
      BY <2>1 DEF Toggled, Row
    <2>3. [tags |-> Toggled(queue[c], tag)].tags = Toggled(queue[c], tag)
      OBVIOUS
    <2> QED
      BY <1>2, <2>2, <2>3 DEF TapOf, Body, TapTag
  <1>3. ASSUME NEW c \in Cards, TapNoTag(i, c)
        PROVE  TapOf(i, "notag", c, [tags |-> {}]) /\ [tags |-> {}] \in Body
    BY <1>3 DEF TapOf, Body, TapNoTag
  <1> QED
    BY <1>1, <1>2, <1>3 DEF TapPerson, ClearPerson

----------------------------------------------------------------------------
(* Types *)

(* What LabelAnswered does to the shelves.                                 *)
LEMMA HeldAfterTyped ==
  ASSUME Types, NEW i \in Slots, Handles(i)
  PROVE  QueueAfter(i) \in Shelf /\ HeldAfter(i) \in Shelf
  <1>1. task[i].card \in Cards /\ task[i].row \in Row
    BY SlotKinds
  <1> QED
    BY <1>1, ShelfPut, ShelfUpdate, ShelfWithout DEF Types, QueueAfter, HeldAfter

LEMMA TypesStep ==
  ASSUME Types, [Next]_vars
  PROVE  Types'
  <1> USE OrganizeAssumption DEF screenVars, boundVars, ghostVars
  <1>1. ASSUME NEW i \in Slots,
               \/ \E c \in Cards, p \in People : TapPerson(i, c, p)
               \/ \E c \in Cards : ClearPerson(i, c)
               \/ \E c \in Cards, tag \in Tags : TapTag(i, c, tag)
               \/ \E c \in Cards : TapNoTag(i, c)
        PROVE  Types'
    <2>1. PICK kind \in {"label", "notag"}, c \in Cards, body \in Body : TapOf(i, kind, c, body)
      BY <1>1, Taps
    <2>2. task' \in [Slots -> {Idle} \cup LoadTask \cup HandlerTask]
      BY <2>1, SlotTapped DEF TapOf
    <2> QED
      BY <2>1, <2>2 DEF TapOf, Tap, Tappable, Types
  <1>2. ASSUME NEW i \in Slots, NEW v \in View, ChangeView(i, v) PROVE Types'
    <2>1. task' \in [Slots -> {Idle} \cup LoadTask \cup HandlerTask]
      BY <1>2, SlotStarts DEF ChangeView
    <2>2. astray' \subseteq Cards /\ overtaken' \in BOOLEAN
      BY <1>2, SlotKinds DEF ChangeView, StartLoad, NoteLoad, MetHandlers, MayOvertake, Types
    <2>3. clicks' \in 0..MaxClicks
      BY <1>2 DEF ChangeView, Types
    <2> QED
      BY <1>2, <2>1, <2>2, <2>3, ShelfEmpty DEF ChangeView, StartLoad, Types
  <1>3. ASSUME NEW i \in Slots, Refresh(i) PROVE Types'
    <2>0. view \in View
      BY DEF Types
    <2>1. task' \in [Slots -> {Idle} \cup LoadTask \cup HandlerTask]
      BY <1>3, <2>0, SlotStarts DEF Refresh
    <2>2. astray' \subseteq Cards /\ overtaken' \in BOOLEAN
      BY <1>3, SlotKinds DEF Refresh, StartLoad, NoteLoad, MetHandlers, MayOvertake, Types
    <2>3. clicks' \in 0..MaxClicks
      BY <1>3 DEF Refresh, Types
    <2> QED
      BY <1>3, <2>1, <2>2, <2>3 DEF Refresh, StartLoad, Types
  <1>4. ASSUME NEW i \in Slots, ServeLoad(i) PROVE Types'
    <2>1. task[i] # Idle /\ task[i].view \in View
      BY <1>4, SlotKinds, IdleSlot DEF ServeLoad
    <2>2. Answer(task[i].view) \in Shelf
      BY <2>1, AnswerLists DEF Types
    <2>3. task' \in [Slots -> {Idle} \cup LoadTask \cup HandlerTask]
      BY <1>4, <2>1, <2>2, SlotLoads DEF ServeLoad, LoadSteps
    <2> QED
      BY <1>4, <2>3 DEF ServeLoad, Types
  <1>5. ASSUME NEW i \in Slots, LoadAnswered(i) PROVE Types'
    <2>1. task[i].view.only \in BOOLEAN /\ task[i].got \in Shelf /\ task[i].view \in View
      BY <1>5, SlotKinds DEF LoadAnswered, View
    <2>2. queue' \in Shelf
      BY <1>5, <2>1, MergedRows DEF LoadAnswered, Types
    <2>3. astray' \subseteq Cards
      BY <1>5, ShelfRows DEF LoadAnswered, Types
    <2>4. /\ task' \in [Slots -> {Idle} \cup LoadTask \cup HandlerTask]
          /\ busy' \in Cards \cup {NoCard}
      BY <1>5, SlotEnds DEF LoadAnswered
    <2> QED
      BY <1>5, <2>1, <2>2, <2>3, <2>4 DEF LoadAnswered, Types
  <1>6. ASSUME NEW i \in Slots, LoadFails(i) PROVE Types'
    <2>1. task[i] # Idle
      BY <1>6, IdleSlot DEF LoadFails, LoadSteps
    <2>2. /\ task' \in [Slots -> {Idle} \cup LoadTask \cup HandlerTask]
          /\ busy' \in Cards \cup {NoCard}
      <3>1. CASE Finish(i)
        BY <3>1, SlotEnds
      <3>2. CASE task' = [task EXCEPT ![i].pc = "reload"] /\ UNCHANGED busy
        <4>1. "reload" \in LoadSteps \cup {"counters"} /\ "reload" # "counters"
          BY DEF LoadSteps
        <4>2. task' \in [Slots -> {Idle} \cup LoadTask \cup HandlerTask]
          BY <2>1, <3>2, <4>1, SlotMoves
        <4> QED
          BY <3>2, <4>2 DEF Types
      <3> QED
        BY <1>6, <3>1, <3>2 DEF LoadFails
    <2>3. astray' \subseteq Cards /\ overtaken' \in BOOLEAN
      <3>1. MetHandlers(i) \subseteq Cards /\ (Handles(i) => task[i].card \in Cards)
        BY SlotKinds DEF MetHandlers
      <3>2. CASE NoteLoad(i, task[i].view, view)
        BY <3>1, <3>2 DEF NoteLoad, MayOvertake, Types
      <3>3. CASE UNCHANGED <<astray, overtaken>>
        BY <3>3 DEF Types
      <3>4. CASE Handles(i) /\ astray' = astray \cup {task[i].card} /\ UNCHANGED overtaken
        BY <3>1, <3>4 DEF Types
      <3> QED
        BY <1>6, <3>2, <3>3, <3>4 DEF LoadFails
    <2>4. loadErr' \in BOOLEAN /\ faults' \in 0..MaxFaults
      <3>1. faults' \in 0..MaxFaults
        BY <1>6 DEF LoadFails, Types
      <3> QED
        BY <1>6, <3>1 DEF LoadFails, Types
    <2> QED
      BY <1>6, <2>2, <2>3, <2>4 DEF LoadFails, Types
  <1>7. ASSUME NEW i \in Slots, ServeLabel(i) PROVE Types'
    <2>1. task[i].card \in Cards /\ task[i].body \in Body /\ Handles(i)
      BY <1>7, SlotKinds DEF ServeLabel
    <2>2. Patched(rows[task[i].card], task[i].body) \in Row
      BY <2>1, PatchedRow DEF Types
    <2>3. task' \in [Slots -> {Idle} \cup LoadTask \cup HandlerTask]
      BY <1>7, <2>1, <2>2, SlotServed DEF ServeLabel
    <2> QED
      BY <1>7, <2>1, <2>2, <2>3 DEF ServeLabel, Types
  <1>8. ASSUME NEW i \in Slots, LabelAnswered(i) PROVE Types'
    <2>1. task[i] # Idle /\ Handles(i)
      BY <1>8, IdleSlot DEF LabelAnswered
    <2>2. task' \in [Slots -> {Idle} \cup LoadTask \cup HandlerTask]
      BY <1>8, <2>1, SlotMoves DEF LabelAnswered
    <2> QED
      BY <1>8, <2>1, <2>2, HeldAfterTyped DEF LabelAnswered, Types
  <1>9. ASSUME NEW i \in Slots, LabelEnds(i) PROVE Types'
    <2>1. task[i] # Idle
      BY <1>9, IdleSlot DEF LabelEnds
    <2>2. /\ task' \in [Slots -> {Idle} \cup LoadTask \cup HandlerTask]
          /\ busy' \in Cards \cup {NoCard}
      <3>1. CASE Finish(i)
        BY <3>1, SlotEnds
      <3>2. CASE task' = [task EXCEPT ![i].pc = "load"] /\ UNCHANGED busy
        <4>1. "load" \in LoadSteps \cup {"counters"} /\ "load" # "counters"
          BY DEF LoadSteps
        <4>2. task' \in [Slots -> {Idle} \cup LoadTask \cup HandlerTask]
          BY <2>1, <3>2, <4>1, SlotMoves
        <4> QED
          BY <3>2, <4>2 DEF Types
      <3> QED
        BY <1>9, <3>1, <3>2 DEF LabelEnds
    <2>3. astray' \subseteq Cards /\ overtaken' \in BOOLEAN
      <3>1. CASE NoteLoad(i, task[i].view, view)
        BY <3>1, SlotKinds DEF NoteLoad, MetHandlers, MayOvertake, Types
      <3>2. CASE UNCHANGED <<astray, overtaken>>
        BY <3>2 DEF Types
      <3> QED
        BY <1>9, <3>1, <3>2 DEF LabelEnds
    <2> QED
      BY <1>9, <2>2, <2>3 DEF LabelEnds, Types
  <1>10. ASSUME NEW i \in Slots, NoTagEnds(i) PROVE Types'
    <2>1. /\ task' \in [Slots -> {Idle} \cup LoadTask \cup HandlerTask]
          /\ busy' \in Cards \cup {NoCard}
      BY <1>10, SlotEnds DEF NoTagEnds
    <2>2. queue' \in Shelf /\ held' \in Shelf
      <3>1. CASE Dismissed(task[i].card)
        BY <3>1, ShelfWithout DEF Dismissed, Types
      <3>2. CASE UNCHANGED <<queue, held>>
        BY <3>2 DEF Types
      <3> QED
        BY <1>10, <3>1, <3>2 DEF NoTagEnds
    <2> QED
      BY <1>10, <2>1, <2>2 DEF NoTagEnds, Types
  <1>11. ASSUME NEW i \in Slots, LabelFails(i) PROVE Types'
    <2>1. task[i] # Idle /\ task[i].card \in Cards
      BY <1>11, IdleSlot, SlotKinds DEF LabelFails
    <2>2. task' \in [Slots -> {Idle} \cup LoadTask \cup HandlerTask]
      BY <1>11, <2>1, SlotMoves DEF LabelFails, LoadSteps
    <2>3. astray' \subseteq Cards /\ overtaken' \in BOOLEAN
      BY <1>11, <2>1, SlotKinds DEF LabelFails, MetHandlers, MayOvertake, Types
    <2>4. faults' \in 0..MaxFaults
      BY <1>11 DEF LabelFails, Types
    <2> QED
      BY <1>11, <2>2, <2>3, <2>4 DEF LabelFails, Types
  <1>12. ASSUME NEW c \in Cards, FinishNoTag(c) \/ Done(c) PROVE Types'
    <2>1. queue' \in Shelf /\ held' \in Shelf /\ heldRef' \in Shelf
      <3>1. CASE Dismissed(c) /\ heldRef' = held'
        BY <3>1, ShelfWithout DEF Dismissed, Types
      <3>2. CASE UNCHANGED <<queue, held, heldRef>>
        BY <3>2 DEF Types
      <3> QED
        BY <1>12, <3>1, <3>2 DEF FinishNoTag, Done
    <2>2. clicks' \in 0..MaxClicks
      BY <1>12 DEF FinishNoTag, Done, Tappable, Types
    <2> QED
      BY <1>12, <2>1, <2>2 DEF FinishNoTag, Done, Types
  <1>13. CASE Render
    BY <1>13 DEF Render, Types
  <1>14. CASE UNCHANGED vars
    BY <1>14 DEF vars, Types
  <1> QED
    BY <1>1, <1>2, <1>3, <1>4, <1>5, <1>6, <1>7, <1>8, <1>9, <1>10, <1>11, <1>12, <1>13, <1>14
       DEF Next, Click, Step


----------------------------------------------------------------------------
(* The inductive invariant.  A card outside astray has at most one handler,*)
(* which shares its time with no other load and was tapped in the view on  *)
(* screen.                                                                 *)

Alone ==
  \A i, j \in Slots :
    /\ Handles(i) /\ Handles(j)
    /\ task[i].card = task[j].card /\ task[i].card \notin astray
    => i = j

NoOtherLoad ==
  \A i, j \in Slots :
    Handles(i) /\ i # j /\ task[i].card \notin astray => task[j].pc \notin LoadSteps

SameView == \A i \in Slots : Handles(i) /\ task[i].card \notin astray => task[i].view = view

(* Its card is on screen.                                                  *)
OnScreen ==
  \A i \in Slots : Handles(i) /\ task[i].card \notin astray => task[i].card \in DOMAIN queue

(* What an answered load brings of it is still what the server has.        *)
GotCurrent ==
  \A i \in Slots :
    task[i].pc \in {"loaded", "reloaded"} =>
      \A c \in Cards \ astray :
        /\ c \in DOMAIN task[i].got <=> Listed(task[i].view, c)
        /\ c \in DOMAIN task[i].got => task[i].got[c] = rows[c]

(* So is the row a handler got with its answer ...                         *)
RowFresh ==
  \A i \in Slots :
    Handles(i) /\ task[i].card \notin astray =>
      /\ task[i].pc \in {"served", "counters"} => task[i].row = rows[task[i].card]
      /\ task[i].kind = "notag" => task[i].from.person = rows[task[i].card].person

(* ... which has the person it asked for.                                  *)
BodyFits ==
  \A i \in Slots :
    Handles(i) =>
      /\ task[i].kind = "notag" => task[i].body = [tags |-> {}]
      /\ /\ task[i].card \notin astray
         /\ task[i].pc = "served" /\ Sets(task[i].body, "person")
         => task[i].row.person = task[i].body.person

(* The row on screen is the server's, but for an answer under way and for  *)
(* the reload after a lost one.                                            *)
QueueCurrent ==
  \A c \in DOMAIN queue \ astray :
    \/ queue[c] = rows[c]
    \/ \E i \in Slots : /\ Handles(i) /\ task[i].card = c
                        /\ task[i].pc \in {"served", "reload", "reloaded"}

HeldCurrent ==
  \A c \in DOMAIN held \ astray :
    \/ held[c] = rows[c]
    \/ \E i \in Slots : Handles(i) /\ task[i].card = c /\ task[i].pc = "served"

(* A held card has its person until a handler takes it away.               *)
HeldPerson ==
  \A c \in DOMAIN held \ astray :
    \/ rows[c].person # Nobody
    \/ \E i \in Slots : /\ Handles(i) /\ task[i].card = c
                        /\ task[i].pc = "served" /\ Sets(task[i].body, "person")

(* Cards are held under only unlabeled.                                    *)
HeldView == DOMAIN held \subseteq astray \/ view.only

(* When a card is tapped its held copy has been rendered.                  *)
RefAgrees ==
  \A i \in Slots :
    Handles(i) /\ task[i].card \notin astray /\ task[i].pc \in {"sent", "served"} =>
      (task[i].card \in DOMAIN held <=> task[i].card \in DOMAIN heldRef)

(* A load of another view may be answered after one of the view on screen. *)
Overtakes ==
  \A i \in Slots : task[i].pc \in LoadSteps /\ task[i].view # view => overtaken

(* The view on screen has been loaded, or is being loaded, or an error     *)
(* shows; once loaded, every card the server lists for it is on screen.    *)
OwnLoad(i) == ~Handles(i) /\ task[i].pc \in LoadSteps /\ task[i].view = view

SomeLoad == overtaken \/ loaded = {view} \/ loadErr \/ \E i \in Slots : OwnLoad(i)

AllShown ==
  loaded = {view} /\ ~loadErr /\ (\A i \in Slots : ~OwnLoad(i)) =>
    \A c \in Cards \ astray : Listed(view, c) => c \in DOMAIN queue

Inv ==
  /\ Types
  /\ BusyHandled /\ HeldShown
  /\ Alone /\ NoOtherLoad /\ SameView /\ OnScreen
  /\ GotCurrent /\ RowFresh /\ BodyFits
  /\ QueueCurrent /\ HeldCurrent /\ HeldPerson /\ HeldView /\ RefAgrees
  /\ Overtakes /\ SomeLoad /\ AllShown

(* What Dismissed(c) leaves.                                               *)
LEMMA DismissedRows ==
  ASSUME Types, NEW c, Dismissed(c)
  PROVE  /\ DOMAIN queue' = DOMAIN queue \ {c} /\ DOMAIN held' = DOMAIN held \ {c}
         /\ \A d \in DOMAIN queue' : queue'[d] = queue[d]
         /\ \A d \in DOMAIN held' : held'[d] = held[d]
  <1>1. queue \in Shelf /\ held \in Shelf
    BY DEF Types
  <1>2. queue' = Without(queue, c) /\ held' = Without(held, c)
    BY DEF Dismissed
  <1>3. /\ DOMAIN Without(queue, c) = DOMAIN queue \ {c}
        /\ \A d \in DOMAIN queue : d # c => Without(queue, c)[d] = queue[d]
    BY <1>1, ShelfWithout
  <1>4. /\ DOMAIN Without(held, c) = DOMAIN held \ {c}
        /\ \A d \in DOMAIN held : d # c => Without(held, c)[d] = held[d]
    BY <1>1, ShelfWithout
  <1> QED
    BY <1>2, <1>3, <1>4

(* A tap: the new handler is alone with its card, or the card is astray.   *)
LEMMA TapStep ==
  ASSUME Inv, Types', NEW i \in Slots, NEW kind, NEW c \in Cards, NEW body,
         TapOf(i, kind, c, body)
  PROVE  Inv'
  <1>0. /\ Types
        /\ BusyHandled /\ HeldShown /\ Alone /\ NoOtherLoad /\ GotCurrent /\ RowFresh
        /\ BodyFits /\ SameView /\ OnScreen /\ QueueCurrent /\ HeldCurrent /\ HeldPerson
        /\ HeldView /\ RefAgrees /\ Overtakes /\ SomeLoad /\ AllShown
    BY DEF Inv

  <1>1. /\ kind \in {"label", "notag"} /\ body \in Body
        /\ kind = "notag" => body = [tags |-> {}]
        /\ task[i].pc = "idle" /\ ~Handles(i)
        /\ Handles(i)' /\ task'[i].pc = "sent" /\ task'[i].view = view
        /\ task'[i].kind = kind /\ task'[i].card = c /\ task'[i].body = body
        /\ task'[i].from = queue[c]
        /\ \A j \in Slots : j # i => task'[j] = task[j] /\ (Handles(j)' <=> Handles(j))
        /\ c \in DOMAIN queue
        /\ UNCHANGED <<rows, view, queue, held, heldRef, loadErr, overtaken, loaded>>
        /\ ~loadErr /\ heldRef = held /\ busy' = c
        /\ astray \subseteq astray'
        /\ c \notin astray' => /\ c \notin astray
                               /\ \A j \in Slots : Handles(j) => task[j].card # c
                               /\ \A j \in Slots \ {i} : task[j].pc \notin LoadSteps
                               /\ queue[c] = rows[c]
        /\ kind = "label" /\ Sets(body, "tags") =>
             \E tag \in Tags : body.tags = Toggled(queue[c], tag)
    <2>1. Tap(i, kind, c, body) /\ kind \in {"label", "notag"} /\ body \in Body
      BY DEF TapOf
    <2>2. /\ astray' = astray \cup {d \in {c} : OtherLoads(i) # {} \/ c \in Handled}
          /\ UNCHANGED <<rows, view, queue, held, heldRef, loadErr, overtaken, loaded>>
          /\ ~loadErr /\ heldRef = held /\ busy' = c
      BY <2>1 DEF Tap, Tappable
    <2>3. c \notin astray' => /\ \A j \in Slots : Handles(j) => task[j].card # c
                              /\ \A j \in Slots \ {i} : task[j].pc \notin LoadSteps
      BY <2>2 DEF OtherLoads, Handled
    <2>4. c \in DOMAIN queue
      BY <2>1 DEF Tap, Tappable
    <2>5. c \notin astray' => queue[c] = rows[c]
      BY <1>0, <2>2, <2>3, <2>4 DEF QueueCurrent
    <2> QED
      BY <1>0, <2>1, <2>2, <2>3, <2>5, SlotTapped DEF TapOf
  <1>10. BusyHandled'
    BY <1>0, <1>1 DEF BusyHandled, Handled
  <1>11. HeldShown'
    BY <1>0, <1>1 DEF HeldShown
  <1>12. Alone'
    BY <1>0, <1>1 DEF Alone
  <1>13. NoOtherLoad'
    BY <1>0, <1>1 DEF NoOtherLoad, LoadSteps
  <1>14. GotCurrent'
    BY <1>0, <1>1 DEF GotCurrent, Listed
  <1>15. RowFresh'
    BY <1>0, <1>1 DEF RowFresh
  <1>16. BodyFits'
    BY <1>0, <1>1 DEF BodyFits
  <1>17. SameView'
    BY <1>0, <1>1 DEF SameView
  <1>18. OnScreen'
    BY <1>0, <1>1 DEF OnScreen
  <1>19. QueueCurrent'
    BY <1>0, <1>1 DEF QueueCurrent
  <1>20. HeldCurrent'
    BY <1>0, <1>1 DEF HeldCurrent
  <1>21. HeldPerson'
    BY <1>0, <1>1 DEF HeldPerson
  <1>22. HeldView'
    BY <1>0, <1>1 DEF HeldView
  <1>23. RefAgrees'
    BY <1>0, <1>1 DEF RefAgrees
  <1>24. Overtakes'
    BY <1>0, <1>1 DEF Overtakes, LoadSteps
  <1>26. SomeLoad'
    BY <1>0, <1>1 DEF SomeLoad, OwnLoad, LoadSteps
  <1>27. AllShown'
    BY <1>0, <1>1 DEF AllShown, OwnLoad, Listed, LoadSteps
  <1> QED
    BY <1>10, <1>11, <1>12, <1>13, <1>14, <1>15, <1>16, <1>17, <1>18,
       <1>19, <1>20, <1>21, <1>22, <1>23, <1>24, <1>26, <1>27 DEF Inv

(* A load of its own starts: every handler's card goes astray.             *)
LEMMA StartStep ==
  ASSUME Inv, Types', NEW i \in Slots, NEW v \in View,
         ChangeView(i, v) \/ (Refresh(i) /\ v = view)
  PROVE  Inv'
  <1>0. /\ Types
        /\ BusyHandled /\ HeldShown /\ Alone /\ NoOtherLoad /\ GotCurrent /\ RowFresh
        /\ BodyFits /\ SameView /\ OnScreen /\ QueueCurrent /\ HeldCurrent /\ HeldPerson
        /\ HeldView /\ RefAgrees /\ Overtakes /\ SomeLoad /\ AllShown
    BY DEF Inv

  <1>1. /\ task[i].pc = "idle" /\ ~Handles(i)
        /\ task'[i].pc = "load" /\ task'[i].view = v /\ ~Handles(i)'
        /\ \A j \in Slots : j # i => task'[j] = task[j] /\ (Handles(j)' <=> Handles(j))
        /\ UNCHANGED <<rows, queue, busy, loaded>>
        /\ view' = v /\ ~loadErr'
        /\ \/ DOMAIN held' = {} /\ DOMAIN heldRef' = {}
           \/ held' = held /\ heldRef' = heldRef /\ v = view
        /\ astray \subseteq astray'
        /\ \A j \in Slots : Handles(j) => task[j].card \in astray'
        /\ overtaken => overtaken'
        /\ \A j \in Slots : task[j].pc \in LoadSteps /\ task[j].view # v => overtaken'
    <2>1. StartLoad(i, v)
      BY DEF ChangeView, Refresh
    <2>2. /\ task[i].pc = "idle" /\ ~Handles(i)
          /\ task'[i].pc = "load" /\ task'[i].view = v /\ ~Handles(i)'
          /\ \A j \in Slots : j # i => task'[j] = task[j] /\ (Handles(j)' <=> Handles(j))
      BY <1>0, <2>1, SlotStarts
    <2>3. /\ astray' = astray \cup MetHandlers(i) /\ ~loadErr'
          /\ overtaken' = (overtaken \/ MayOvertake(i, v, v))
      BY <2>1 DEF StartLoad, NoteLoad
    <2>4. \A j \in Slots : Handles(j) => task[j].card \in astray'
      BY <2>2, <2>3 DEF MetHandlers
    <2>5. \A j \in Slots : task[j].pc \in LoadSteps /\ task[j].view # v => overtaken'
      BY <2>2, <2>3 DEF MayOvertake, OtherLoads, LoadSteps
    <2>6. \/ DOMAIN held' = {} /\ DOMAIN heldRef' = {}
          \/ held' = held /\ heldRef' = heldRef /\ v = view
      BY ShelfEmpty DEF ChangeView, Refresh
    <2>7. UNCHANGED <<rows, queue, busy, loaded>> /\ view' = v
      BY DEF ChangeView, Refresh
    <2> QED
      BY <2>2, <2>3, <2>4, <2>5, <2>6, <2>7
  <1>10. BusyHandled'
    BY <1>0, <1>1 DEF BusyHandled, Handled
  <1>11. HeldShown'
    BY <1>0, <1>1 DEF HeldShown
  <1>12. Alone'
    BY <1>0, <1>1 DEF Alone
  <1>13. NoOtherLoad'
    BY <1>0, <1>1 DEF NoOtherLoad, LoadSteps
  <1>14. GotCurrent'
    BY <1>0, <1>1 DEF GotCurrent, Listed
  <1>15. RowFresh'
    BY <1>0, <1>1 DEF RowFresh
  <1>16. BodyFits'
    BY <1>0, <1>1 DEF BodyFits
  <1>17. SameView'
    BY <1>0, <1>1 DEF SameView
  <1>18. OnScreen'
    BY <1>0, <1>1 DEF OnScreen
  <1>19. QueueCurrent'
    BY <1>0, <1>1 DEF QueueCurrent
  <1>20. HeldCurrent'
    BY <1>0, <1>1 DEF HeldCurrent
  <1>21. HeldPerson'
    BY <1>0, <1>1 DEF HeldPerson
  <1>22. HeldView'
    BY <1>0, <1>1 DEF HeldView
  <1>23. RefAgrees'
    BY <1>0, <1>1 DEF RefAgrees
  <1>24. Overtakes'
    BY <1>0, <1>1 DEF Overtakes, LoadSteps
  <1>26. SomeLoad'
    BY <1>0, <1>1 DEF SomeLoad, OwnLoad, LoadSteps
  <1>27. AllShown'
    BY <1>0, <1>1 DEF AllShown, OwnLoad, Listed, LoadSteps
  <1> QED
    BY <1>10, <1>11, <1>12, <1>13, <1>14, <1>15, <1>16, <1>17, <1>18,
       <1>19, <1>20, <1>21, <1>22, <1>23, <1>24, <1>26, <1>27 DEF Inv

(* A held card is finished, or nothing was to be cleared.                  *)
LEMMA DropStep ==
  ASSUME Inv, Types', NEW c \in Cards, FinishNoTag(c) \/ Done(c)
  PROVE  Inv'
  <1>0. /\ Types
        /\ BusyHandled /\ HeldShown /\ Alone /\ NoOtherLoad /\ GotCurrent /\ RowFresh
        /\ BodyFits /\ SameView /\ OnScreen /\ QueueCurrent /\ HeldCurrent /\ HeldPerson
        /\ HeldView /\ RefAgrees /\ Overtakes /\ SomeLoad /\ AllShown
    BY DEF Inv

  <1>1. /\ UNCHANGED <<rows, view, loadErr, task, overtaken, loaded>>
        /\ \A j \in Slots : Handles(j)' <=> Handles(j)
        /\ busy' \in {NoCard, busy}
        /\ heldRef = held /\ heldRef' = held'
        /\ astray \subseteq astray'
        /\ \/ UNCHANGED <<queue, held>>
           \/ /\ view.only /\ queue[c].person # Nobody
              /\ DOMAIN queue' = DOMAIN queue \ {c} /\ DOMAIN held' = DOMAIN held \ {c}
              /\ \A d \in DOMAIN queue' : queue'[d] = queue[d]
              /\ \A d \in DOMAIN held' : held'[d] = held[d]
              /\ c \in DOMAIN queue
              /\ c \notin astray' => /\ \A j \in Slots : Handles(j) => task[j].card # c
                                     /\ queue[c] = rows[c]
    <2>1. /\ UNCHANGED <<rows, view, loadErr, task, overtaken, loaded>>
          /\ busy' \in {NoCard, busy}
          /\ heldRef = held /\ heldRef' = held' /\ c \in DOMAIN queue
          /\ astray' = astray \cup ({c} \cap Handled)
      BY DEF FinishNoTag, Done, Tappable
    <2>2. \A j \in Slots : Handles(j)' <=> Handles(j)
      BY <2>1, SlotKept
    <2>3. c \notin astray' => /\ \A j \in Slots : Handles(j) => task[j].card # c
                              /\ queue[c] = rows[c]
      BY <1>0, <2>1 DEF Handled, QueueCurrent
    <2>4. \/ UNCHANGED <<queue, held>>
          \/ view.only /\ queue[c].person # Nobody /\ Dismissed(c)
      BY DEF FinishNoTag, Done
    <2>5. ASSUME Dismissed(c)
          PROVE  /\ DOMAIN queue' = DOMAIN queue \ {c} /\ DOMAIN held' = DOMAIN held \ {c}
                 /\ \A d \in DOMAIN queue' : queue'[d] = queue[d]
                 /\ \A d \in DOMAIN held' : held'[d] = held[d]
      BY <1>0, <2>5, DismissedRows
    <2> QED
      BY <2>1, <2>2, <2>3, <2>4, <2>5
  <1>10. BusyHandled'
    BY <1>0, <1>1 DEF BusyHandled, Handled
  <1>11. HeldShown'
    BY <1>0, <1>1 DEF HeldShown
  <1>12. Alone'
    BY <1>0, <1>1 DEF Alone
  <1>13. NoOtherLoad'
    BY <1>0, <1>1 DEF NoOtherLoad, LoadSteps
  <1>14. GotCurrent'
    BY <1>0, <1>1 DEF GotCurrent, Listed
  <1>15. RowFresh'
    BY <1>0, <1>1 DEF RowFresh
  <1>16. BodyFits'
    BY <1>0, <1>1 DEF BodyFits
  <1>17. SameView'
    BY <1>0, <1>1 DEF SameView
  <1>18. OnScreen'
    BY <1>0, <1>1 DEF OnScreen
  <1>19. QueueCurrent'
    BY <1>0, <1>1 DEF QueueCurrent
  <1>20. HeldCurrent'
    BY <1>0, <1>1 DEF HeldCurrent
  <1>21. HeldPerson'
    BY <1>0, <1>1 DEF HeldPerson
  <1>22. HeldView'
    BY <1>0, <1>1 DEF HeldView
  <1>23. RefAgrees'
    BY <1>0, <1>1 DEF RefAgrees
  <1>24. Overtakes'
    BY <1>0, <1>1 DEF Overtakes, LoadSteps
  <1>26. SomeLoad'
    BY <1>0, <1>1 DEF SomeLoad, OwnLoad, LoadSteps
  <1>27. AllShown'
    BY <1>0, <1>1 DEF AllShown, OwnLoad, Listed, LoadSteps
  <1> QED
    BY <1>10, <1>11, <1>12, <1>13, <1>14, <1>15, <1>16, <1>17, <1>18,
       <1>19, <1>20, <1>21, <1>22, <1>23, <1>24, <1>26, <1>27 DEF Inv

(* The server answers a load with what it has.                             *)
LEMMA ServeLoadStep ==
  ASSUME Inv, Types', NEW i \in Slots, ServeLoad(i)
  PROVE  Inv'
  <1>0. /\ Types
        /\ BusyHandled /\ HeldShown /\ Alone /\ NoOtherLoad /\ GotCurrent /\ RowFresh
        /\ BodyFits /\ SameView /\ OnScreen /\ QueueCurrent /\ HeldCurrent /\ HeldPerson
        /\ HeldView /\ RefAgrees /\ Overtakes /\ SomeLoad /\ AllShown
    BY DEF Inv

  <1>1. /\ UNCHANGED <<rows, view, queue, held, heldRef, busy, loadErr>>
        /\ UNCHANGED <<astray, overtaken, loaded>>
        /\ \A j \in Slots : /\ Handles(j)' <=> Handles(j)
                            /\ j # i => task'[j] = task[j]
        /\ task[i].pc \in {"load", "reload"} /\ task'[i].pc \in {"loaded", "reloaded"}
        /\ task[i].pc = "reload" <=> task'[i].pc = "reloaded"
        /\ task'[i].view = task[i].view
        /\ Handles(i) => /\ task'[i].kind = task[i].kind /\ task'[i].card = task[i].card
                         /\ task'[i].body = task[i].body /\ task'[i].from = task[i].from
                         /\ task'[i].row = task[i].row
        /\ \A c : c \in DOMAIN task'[i].got <=> Listed(task[i].view, c)
        /\ \A c \in DOMAIN task'[i].got : task'[i].got[c] = rows[c]
    <2>1. task[i] # Idle /\ task[i].view \in View
      BY <1>0, SlotKinds, IdleSlot DEF ServeLoad
    <2>2. /\ Answer(task[i].view) \in Shelf
          /\ \A c : c \in DOMAIN Answer(task[i].view) <=> Listed(task[i].view, c)
          /\ \A c \in DOMAIN Answer(task[i].view) : Answer(task[i].view)[c] = rows[c]
      BY <1>0, <2>1, AnswerLists DEF Types
    <2>3. PICK p \in {"loaded", "reloaded"} :
             /\ task' = [task EXCEPT ![i].pc = p, ![i].got = Answer(task[i].view)]
             /\ task[i].pc = IF p = "loaded" THEN "load" ELSE "reload"
      BY DEF ServeLoad
    <2>4. p \in LoadSteps
      BY DEF LoadSteps
    <2>5. /\ \A j \in Slots : /\ Handles(j)' <=> Handles(j)
                              /\ j # i => task'[j] = task[j]
          /\ task'[i].pc = p /\ task'[i].got = Answer(task[i].view)
          /\ task'[i].view = task[i].view
          /\ Handles(i) => /\ task'[i].kind = task[i].kind /\ task'[i].card = task[i].card
                           /\ task'[i].body = task[i].body /\ task'[i].from = task[i].from
                           /\ task'[i].row = task[i].row
      <3>1. Types
        BY <1>0
      <3>2. PICK a \in Shelf : a = Answer(task[i].view)
        BY <2>2
      <3>3. task' = [task EXCEPT ![i].pc = p, ![i].got = a]
        BY <2>3, <3>2
      <3>4. task'[i].got = a
        <4>1. task'[i] = [task[i] EXCEPT !.pc = p, !.got = a]
          BY <3>1, <3>3 DEF Types
        <4>2. task[i] \in LoadTask \/ task[i] \in HandlerTask
          BY <2>1, <3>1, SlotKinds
        <4> QED
          BY <4>1, <4>2 DEF LoadTask, HandlerTask
      <3>5. /\ \A j \in Slots : /\ Handles(j)' <=> Handles(j)
                                /\ j # i => task'[j] = task[j]
            /\ task'[i].pc = p
            /\ task'[i].view = task[i].view
            /\ Handles(i) => /\ task'[i].kind = task[i].kind /\ task'[i].card = task[i].card
                             /\ task'[i].body = task[i].body /\ task'[i].from = task[i].from
                             /\ task'[i].row = task[i].row
        BY <2>1, <2>4, <3>1, <3>3, SlotLoads
      <3> QED
        BY <3>2, <3>4, <3>5
    <2> QED
      BY <2>2, <2>3, <2>5 DEF ServeLoad, screenVars, boundVars, ghostVars
  <1>10. BusyHandled'
    BY <1>0, <1>1 DEF BusyHandled, Handled
  <1>11. HeldShown'
    BY <1>0, <1>1 DEF HeldShown
  <1>12. Alone'
    BY <1>0, <1>1 DEF Alone
  <1>13. NoOtherLoad'
    BY <1>0, <1>1 DEF NoOtherLoad, LoadSteps
  <1>14. GotCurrent'
    BY <1>0, <1>1 DEF GotCurrent, Listed
  <1>15. RowFresh'
    BY <1>0, <1>1 DEF RowFresh
  <1>16. BodyFits'
    BY <1>0, <1>1 DEF BodyFits
  <1>17. SameView'
    BY <1>0, <1>1 DEF SameView
  <1>18. OnScreen'
    BY <1>0, <1>1 DEF OnScreen
  <1>19. QueueCurrent'
    BY <1>0, <1>1 DEF QueueCurrent
  <1>20. HeldCurrent'
    BY <1>0, <1>1 DEF HeldCurrent
  <1>21. HeldPerson'
    BY <1>0, <1>1 DEF HeldPerson
  <1>22. HeldView'
    BY <1>0, <1>1 DEF HeldView
  <1>23. RefAgrees'
    BY <1>0, <1>1 DEF RefAgrees
  <1>24. Overtakes'
    BY <1>0, <1>1 DEF Overtakes, LoadSteps
  <1>26. SomeLoad'
    BY <1>0, <1>1 DEF SomeLoad, OwnLoad, LoadSteps
  <1>27. AllShown'
    BY <1>0, <1>1 DEF AllShown, OwnLoad, Listed, LoadSteps
  <1> QED
    BY <1>10, <1>11, <1>12, <1>13, <1>14, <1>15, <1>16, <1>17, <1>18,
       <1>19, <1>20, <1>21, <1>22, <1>23, <1>24, <1>26, <1>27 DEF Inv

(* An answered load replaces the queue.                                    *)
LEMMA LoadAnsweredStep ==
  ASSUME Inv, Types', NEW i \in Slots, LoadAnswered(i)
  PROVE  Inv'
  <1>0. /\ Types
        /\ BusyHandled /\ HeldShown /\ Alone /\ NoOtherLoad /\ GotCurrent /\ RowFresh
        /\ BodyFits /\ SameView /\ OnScreen /\ QueueCurrent /\ HeldCurrent /\ HeldPerson
        /\ HeldView /\ RefAgrees /\ Overtakes /\ SomeLoad /\ AllShown
    BY DEF Inv

  <1>1. /\ UNCHANGED <<rows, view, held, heldRef, loadErr, overtaken>>
        /\ task[i].pc \in {"loaded", "reloaded"}
        /\ task'[i].pc = "idle" /\ ~Handles(i)'
        /\ \A j \in Slots : j # i => task'[j] = task[j] /\ (Handles(j)' <=> Handles(j))
        /\ busy' = IF Handles(i) THEN NoCard ELSE busy
        /\ loaded' = {task[i].view}
        /\ astray \subseteq astray'
        /\ heldRef # held => DOMAIN held \subseteq astray' /\ DOMAIN heldRef \subseteq astray'
        /\ DOMAIN task[i].got \subseteq DOMAIN queue'
        /\ \A c \in DOMAIN task[i].got : queue'[c] = task[i].got[c]
        /\ task[i].view.only => DOMAIN heldRef \subseteq DOMAIN queue'
        /\ \A c \in DOMAIN queue' : c \notin DOMAIN task[i].got =>
             c \in DOMAIN heldRef /\ queue'[c] = heldRef[c]
    <2>1. task[i].view.only \in BOOLEAN /\ task[i].got \in Shelf
      BY <1>0, SlotKinds DEF LoadAnswered, View
    <2>2. /\ DOMAIN task[i].got \subseteq DOMAIN queue'
          /\ \A c \in DOMAIN task[i].got : queue'[c] = task[i].got[c]
          /\ task[i].view.only => DOMAIN heldRef \subseteq DOMAIN queue'
          /\ \A c \in DOMAIN queue' : c \notin DOMAIN task[i].got =>
               c \in DOMAIN heldRef /\ queue'[c] = heldRef[c]
      <3> DEFINE f == task[i].got
                 m == Merged(f, task[i].view.only)
      <3>1. heldRef \in Shelf /\ queue' = m
        BY <1>0 DEF LoadAnswered, Types
      <3>2. /\ DOMAIN m = DOMAIN f \cup (IF task[i].view.only THEN DOMAIN heldRef ELSE {})
            /\ \A c \in DOMAIN f : m[c] = f[c]
            /\ \A c \in DOMAIN m : c \notin DOMAIN f =>
                 c \in DOMAIN heldRef /\ m[c] = heldRef[c]
        BY <2>1, <3>1, MergedRows
      <3> HIDE DEF f, m
      <3> QED
        BY <3>1, <3>2 DEF f
    <2>3. /\ task'[i].pc = "idle" /\ ~Handles(i)'
          /\ \A j \in Slots : j # i => task'[j] = task[j] /\ (Handles(j)' <=> Handles(j))
      BY <1>0, SlotEnds DEF LoadAnswered
    <2>4. busy' = IF Handles(i) THEN NoCard ELSE busy
      BY DEF LoadAnswered, Finish
    <2> QED
      BY <2>2, <2>3, <2>4 DEF LoadAnswered
  <1>10. BusyHandled'
    BY <1>0, <1>1 DEF BusyHandled, Handled
  <1>11. HeldShown'
    BY <1>0, <1>1 DEF HeldShown, HeldView, Overtakes, LoadSteps
  <1>12. Alone'
    BY <1>0, <1>1 DEF Alone
  <1>13. NoOtherLoad'
    BY <1>0, <1>1 DEF NoOtherLoad, LoadSteps
  <1>14. GotCurrent'
    BY <1>0, <1>1 DEF GotCurrent, Listed
  <1>15. RowFresh'
    BY <1>0, <1>1 DEF RowFresh
  <1>16. BodyFits'
    BY <1>0, <1>1 DEF BodyFits
  <1>17. SameView'
    BY <1>0, <1>1 DEF SameView
  <1>18. OnScreen'
    BY <1>0, <1>1 DEF OnScreen, NoOtherLoad, LoadSteps
  <1>19. QueueCurrent'
    <2> SUFFICES ASSUME NEW c \in DOMAIN queue' \ astray' PROVE queue'[c] = rows[c]
      BY <1>1 DEF QueueCurrent
    <2>1. c \in Cards \ astray
      BY <1>1, ShelfRows DEF Types
    <2>2. CASE c \in DOMAIN task[i].got
      BY <1>0, <1>1, <2>1, <2>2 DEF GotCurrent
    <2>3. CASE c \notin DOMAIN task[i].got
      <3>1. c \in DOMAIN held /\ queue'[c] = held[c]
        BY <1>1, <2>3
      <3>2. \A j \in Slots : Handles(j) /\ task[j].card = c => j = i
        BY <1>0, <1>1, <2>1 DEF NoOtherLoad, LoadSteps
      <3> QED
        BY <1>0, <1>1, <2>1, <3>1, <3>2 DEF HeldCurrent
    <2> QED
      BY <2>2, <2>3
  <1>20. HeldCurrent'
    BY <1>0, <1>1 DEF HeldCurrent
  <1>21. HeldPerson'
    BY <1>0, <1>1 DEF HeldPerson
  <1>22. HeldView'
    BY <1>0, <1>1 DEF HeldView
  <1>23. RefAgrees'
    BY <1>0, <1>1 DEF RefAgrees
  <1>24. Overtakes'
    BY <1>0, <1>1 DEF Overtakes, LoadSteps
  <1>26. SomeLoad'
    BY <1>0, <1>1 DEF SomeLoad, Overtakes, LoadSteps
  <1>27. AllShown'
    <2> SUFFICES ASSUME task[i].view = view, NEW c \in Cards \ astray', Listed(view, c)
                 PROVE  c \in DOMAIN queue'
      BY <1>1 DEF AllShown, Listed
    <2> QED
      BY <1>0, <1>1 DEF GotCurrent
  <1> QED
    BY <1>10, <1>11, <1>12, <1>13, <1>14, <1>15, <1>16, <1>17, <1>18,
       <1>19, <1>20, <1>21, <1>22, <1>23, <1>24, <1>26, <1>27 DEF Inv

(* A handler loads, or loads again: the cards of all others go astray.      *)
LEMMA ReloadStep ==
  ASSUME Inv, Types', NEW i \in Slots, NEW p \in {"load", "reload"}, Handles(i),
         task' = [task EXCEPT ![i].pc = p],
         \/ p = "load" /\ task[i].pc = "counters"
         \/ p = "reload" /\ task[i].pc \in {"load", "loaded", "sent"}
         \/ /\ p = "reload" /\ task[i].pc = "served"
            /\ task[i].card \in DOMAIN held => task[i].card \in astray',
         UNCHANGED <<rows, view, queue, held, heldRef, busy, loadErr, loaded>>,
         astray \cup MetHandlers(i) \subseteq astray',
         overtaken' = (overtaken \/ MayOvertake(i, task[i].view, view))
  PROVE  Inv'
  <1>0. /\ Types
        /\ BusyHandled /\ HeldShown /\ Alone /\ NoOtherLoad /\ GotCurrent /\ RowFresh
        /\ BodyFits /\ SameView /\ OnScreen /\ QueueCurrent /\ HeldCurrent /\ HeldPerson
        /\ HeldView /\ RefAgrees /\ Overtakes /\ SomeLoad /\ AllShown
    BY DEF Inv

  <1>1. /\ \A j \in Slots : /\ Handles(j)' <=> Handles(j)
                            /\ j # i => task'[j] = task[j]
        /\ task'[i].pc = p /\ p \in LoadSteps
        /\ task'[i].view = task[i].view
        /\ task'[i].kind = task[i].kind /\ task'[i].card = task[i].card
        /\ task'[i].body = task[i].body /\ task'[i].from = task[i].from
        /\ task'[i].row = task[i].row
        /\ astray \subseteq astray'
        /\ \A j \in Slots \ {i} : Handles(j) => task[j].card \in astray'
        /\ overtaken => overtaken'
        /\ task[i].view # view => overtaken'
    <2>1. p \in LoadSteps /\ p # "counters"
      BY DEF LoadSteps
    <2>2. task[i] # Idle
      BY IdleSlot DEF Handles
    <2>3. \A j \in Slots \ {i} : Handles(j) => task[j].card \in MetHandlers(i)
      BY DEF MetHandlers
    <2>4. task[i].view # view => overtaken'
      BY DEF MayOvertake
    <2> QED
      BY <1>0, <2>1, <2>2, <2>3, <2>4, SlotMoves
  <1>10. BusyHandled'
    BY <1>0, <1>1 DEF BusyHandled, Handled
  <1>11. HeldShown'
    BY <1>0, <1>1 DEF HeldShown
  <1>12. Alone'
    BY <1>0, <1>1 DEF Alone
  <1>13. NoOtherLoad'
    BY <1>0, <1>1 DEF NoOtherLoad, LoadSteps
  <1>14. GotCurrent'
    BY <1>0, <1>1 DEF GotCurrent, Listed
  <1>15. RowFresh'
    BY <1>0, <1>1 DEF RowFresh
  <1>16. BodyFits'
    BY <1>0, <1>1 DEF BodyFits
  <1>17. SameView'
    BY <1>0, <1>1 DEF SameView
  <1>18. OnScreen'
    BY <1>0, <1>1 DEF OnScreen
  <1>19. QueueCurrent'
    BY <1>0, <1>1 DEF QueueCurrent
  <1>20. HeldCurrent'
    BY <1>0, <1>1 DEF HeldCurrent
  <1>21. HeldPerson'
    BY <1>0, <1>1 DEF HeldPerson
  <1>22. HeldView'
    BY <1>0, <1>1 DEF HeldView
  <1>23. RefAgrees'
    BY <1>0, <1>1 DEF RefAgrees
  <1>24. Overtakes'
    BY <1>0, <1>1 DEF Overtakes, LoadSteps
  <1>26. SomeLoad'
    BY <1>0, <1>1 DEF SomeLoad, OwnLoad, LoadSteps
  <1>27. AllShown'
    BY <1>0, <1>1 DEF AllShown, OwnLoad, Listed, LoadSteps
  <1> QED
    BY <1>10, <1>11, <1>12, <1>13, <1>14, <1>15, <1>16, <1>17, <1>18,
       <1>19, <1>20, <1>21, <1>22, <1>23, <1>24, <1>26, <1>27 DEF Inv

(* A load or handler ends without touching the shelves.                    *)
LEMMA EndStep ==
  ASSUME Inv, Types', NEW i \in Slots, Finish(i),
         UNCHANGED <<rows, view, queue, held, heldRef, overtaken, loaded>>,
         \/ ~Handles(i) /\ loadErr' /\ astray' = astray
         \/ Handles(i) /\ task[i].pc = "counters" /\ UNCHANGED <<loadErr, astray>>
         \/ Handles(i) /\ astray' = astray \cup {task[i].card} /\ UNCHANGED loadErr
  PROVE  Inv'
  <1>0. /\ Types
        /\ BusyHandled /\ HeldShown /\ Alone /\ NoOtherLoad /\ GotCurrent /\ RowFresh
        /\ BodyFits /\ SameView /\ OnScreen /\ QueueCurrent /\ HeldCurrent /\ HeldPerson
        /\ HeldView /\ RefAgrees /\ Overtakes /\ SomeLoad /\ AllShown
    BY DEF Inv

  <1>1. /\ task'[i].pc = "idle" /\ ~Handles(i)'
        /\ \A j \in Slots : j # i => task'[j] = task[j] /\ (Handles(j)' <=> Handles(j))
        /\ busy' = IF Handles(i) THEN NoCard ELSE busy
        /\ astray \subseteq astray'
    BY <1>0, SlotEnds DEF Finish
  <1>10. BusyHandled'
    BY <1>0, <1>1 DEF BusyHandled, Handled
  <1>11. HeldShown'
    BY <1>0, <1>1 DEF HeldShown
  <1>12. Alone'
    BY <1>0, <1>1 DEF Alone
  <1>13. NoOtherLoad'
    BY <1>0, <1>1 DEF NoOtherLoad, LoadSteps
  <1>14. GotCurrent'
    BY <1>0, <1>1 DEF GotCurrent, Listed
  <1>15. RowFresh'
    BY <1>0, <1>1 DEF RowFresh
  <1>16. BodyFits'
    BY <1>0, <1>1 DEF BodyFits
  <1>17. SameView'
    BY <1>0, <1>1 DEF SameView
  <1>18. OnScreen'
    BY <1>0, <1>1 DEF OnScreen
  <1>19. QueueCurrent'
    BY <1>0, <1>1 DEF QueueCurrent
  <1>20. HeldCurrent'
    BY <1>0, <1>1 DEF HeldCurrent
  <1>21. HeldPerson'
    BY <1>0, <1>1 DEF HeldPerson
  <1>22. HeldView'
    BY <1>0, <1>1 DEF HeldView
  <1>23. RefAgrees'
    BY <1>0, <1>1 DEF RefAgrees
  <1>24. Overtakes'
    BY <1>0, <1>1 DEF Overtakes, LoadSteps
  <1>26. SomeLoad'
    BY <1>0, <1>1 DEF SomeLoad, OwnLoad, LoadSteps
  <1>27. AllShown'
    BY <1>0, <1>1 DEF AllShown, OwnLoad, Listed, LoadSteps
  <1> QED
    BY <1>10, <1>11, <1>12, <1>13, <1>14, <1>15, <1>16, <1>17, <1>18,
       <1>19, <1>20, <1>21, <1>22, <1>23, <1>24, <1>26, <1>27 DEF Inv

(* 不标 ends: a card that has its person is finished.                       *)
LEMMA NoTagStep ==
  ASSUME Inv, Types', NEW i \in Slots, NoTagEnds(i)
  PROVE  Inv'
  <1>0. /\ Types
        /\ BusyHandled /\ HeldShown /\ Alone /\ NoOtherLoad /\ GotCurrent /\ RowFresh
        /\ BodyFits /\ SameView /\ OnScreen /\ QueueCurrent /\ HeldCurrent /\ HeldPerson
        /\ HeldView /\ RefAgrees /\ Overtakes /\ SomeLoad /\ AllShown
    BY DEF Inv

  <1>1. /\ UNCHANGED <<rows, view, heldRef, loadErr, astray, overtaken, loaded>>
        /\ Handles(i) /\ task[i].pc = "counters" /\ task[i].kind = "notag"
        /\ task'[i].pc = "idle" /\ ~Handles(i)' /\ busy' = NoCard
        /\ \A j \in Slots : j # i => task'[j] = task[j] /\ (Handles(j)' <=> Handles(j))
        /\ \/ UNCHANGED <<queue, held>>
           \/ /\ task[i].card \notin astray => rows[task[i].card].person # Nobody /\ view.only
              /\ DOMAIN queue' = DOMAIN queue \ {task[i].card}
              /\ DOMAIN held' = DOMAIN held \ {task[i].card}
              /\ \A d \in DOMAIN queue' : queue'[d] = queue[d]
              /\ \A d \in DOMAIN held' : held'[d] = held[d]
    <2>1. /\ task'[i].pc = "idle" /\ ~Handles(i)'
          /\ \A j \in Slots : j # i => task'[j] = task[j] /\ (Handles(j)' <=> Handles(j))
      BY <1>0, SlotEnds DEF NoTagEnds
    <2>2. Handles(i) /\ task[i].pc = "counters" /\ task[i].kind = "notag" /\ busy' = NoCard
      BY DEF NoTagEnds, Finish
    <2>3. ASSUME Dismissed(task[i].card)
          PROVE  /\ DOMAIN queue' = DOMAIN queue \ {task[i].card}
                 /\ DOMAIN held' = DOMAIN held \ {task[i].card}
                 /\ \A d \in DOMAIN queue' : queue'[d] = queue[d]
                 /\ \A d \in DOMAIN held' : held'[d] = held[d]
      BY <1>0, <2>3, DismissedRows
    <2>4. \/ UNCHANGED <<queue, held>>
          \/ /\ task[i].view.only /\ {task[i].row.person, task[i].from.person} # {Nobody}
             /\ Dismissed(task[i].card)
      BY DEF NoTagEnds
    <2>5. ASSUME task[i].card \notin astray, task[i].view.only,
                 {task[i].row.person, task[i].from.person} # {Nobody}
          PROVE  rows[task[i].card].person # Nobody /\ view.only
      BY <1>0, <2>2, <2>5 DEF RowFresh, SameView
    <2> QED
      BY <2>1, <2>2, <2>3, <2>4, <2>5 DEF NoTagEnds, boundVars, ghostVars
  <1>10. BusyHandled'
    BY <1>0, <1>1 DEF BusyHandled, Handled
  <1>11. HeldShown'
    BY <1>0, <1>1 DEF HeldShown
  <1>12. Alone'
    BY <1>0, <1>1 DEF Alone
  <1>13. NoOtherLoad'
    BY <1>0, <1>1 DEF NoOtherLoad, LoadSteps
  <1>14. GotCurrent'
    BY <1>0, <1>1 DEF GotCurrent, Listed
  <1>15. RowFresh'
    BY <1>0, <1>1 DEF RowFresh
  <1>16. BodyFits'
    BY <1>0, <1>1 DEF BodyFits
  <1>17. SameView'
    BY <1>0, <1>1 DEF SameView
  <1>18. OnScreen'
    BY <1>0, <1>1 DEF OnScreen, Alone
  <1>19. QueueCurrent'
    BY <1>0, <1>1 DEF QueueCurrent
  <1>20. HeldCurrent'
    BY <1>0, <1>1 DEF HeldCurrent
  <1>21. HeldPerson'
    BY <1>0, <1>1 DEF HeldPerson
  <1>22. HeldView'
    BY <1>0, <1>1 DEF HeldView
  <1>23. RefAgrees'
    BY <1>0, <1>1 DEF RefAgrees, Alone
  <1>24. Overtakes'
    BY <1>0, <1>1 DEF Overtakes, LoadSteps
  <1>26. SomeLoad'
    BY <1>0, <1>1 DEF SomeLoad, OwnLoad, LoadSteps
  <1>27. AllShown'
    BY <1>0, <1>1 DEF AllShown, OwnLoad, Listed, LoadSteps
  <1> QED
    BY <1>10, <1>11, <1>12, <1>13, <1>14, <1>15, <1>16, <1>17, <1>18,
       <1>19, <1>20, <1>21, <1>22, <1>23, <1>24, <1>26, <1>27 DEF Inv

(* The server changes the row of a card and answers with it.               *)
LEMMA ServeLabelStep ==
  ASSUME Inv, Types', NEW i \in Slots, ServeLabel(i)
  PROVE  Inv'
  <1>0. /\ Types
        /\ BusyHandled /\ HeldShown /\ Alone /\ NoOtherLoad /\ GotCurrent /\ RowFresh
        /\ BodyFits /\ SameView /\ OnScreen /\ QueueCurrent /\ HeldCurrent /\ HeldPerson
        /\ HeldView /\ RefAgrees /\ Overtakes /\ SomeLoad /\ AllShown
    BY DEF Inv

  <1> DEFINE c == task[i].card
             r == Patched(rows[c], task[i].body)
  <1>1. /\ UNCHANGED <<view, queue, held, heldRef, busy, loadErr>>
        /\ UNCHANGED <<astray, overtaken, loaded>>
        /\ Handles(i) /\ task[i].pc = "sent" /\ c \in Cards
        /\ \A j \in Slots : /\ Handles(j)' <=> Handles(j)
                            /\ j # i => task'[j] = task[j]
        /\ task'[i].pc = "served" /\ task'[i].row = r
        /\ task'[i].view = task[i].view
        /\ task'[i].kind = task[i].kind /\ task'[i].card = c
        /\ task'[i].body = task[i].body /\ task'[i].from = task[i].from
        /\ rows'[c] = r /\ \A d \in Cards : d # c => rows'[d] = rows[d]
        /\ Sets(task[i].body, "person") => r.person = task[i].body.person
        /\ ~Sets(task[i].body, "person") => r.person = rows[c].person
        /\ task[i].kind = "notag" => ~Sets(task[i].body, "person")
        /\ c \notin astray => \A j \in Slots \ {i} :
             task[j].pc \notin LoadSteps /\ (Handles(j) => task[j].card # c)
        /\ \A j \in Slots : Handles(j) => task[j].card \in Cards
        /\ DOMAIN queue \subseteq Cards /\ DOMAIN held \subseteq Cards
    <2>1. Handles(i) /\ task[i].pc = "sent" /\ c \in Cards /\ task[i].body \in Body
      BY <1>0, SlotKinds DEF ServeLabel
    <2>2. /\ r \in Row
          /\ Sets(task[i].body, "person") => r.person = task[i].body.person
          /\ ~Sets(task[i].body, "person") => r.person = rows[c].person
      BY <1>0, <2>1, PatchedRow DEF Types
    <2>3. rows' = [rows EXCEPT ![c] = r]
      BY DEF ServeLabel
    <2>4. task' = [task EXCEPT ![i].pc = "served", ![i].row = r]
      BY DEF ServeLabel
    <2>5. /\ \A j \in Slots : /\ Handles(j)' <=> Handles(j)
                              /\ j # i => task'[j] = task[j]
          /\ task'[i].pc = "served" /\ task'[i].row = r
          /\ task'[i].view = task[i].view
          /\ task'[i].kind = task[i].kind /\ task'[i].card = c
          /\ task'[i].body = task[i].body /\ task'[i].from = task[i].from
      <3> HIDE DEF r
      <3> QED
        BY <1>0, <2>1, <2>2, <2>4, SlotServed
    <2>6. task[i].kind = "notag" => ~Sets(task[i].body, "person")
      BY <1>0, <2>1 DEF BodyFits, Sets
    <2>7. c \notin astray => \A j \in Slots \ {i} :
            task[j].pc \notin LoadSteps /\ (Handles(j) => task[j].card # c)
      BY <1>0, <2>1 DEF Alone, NoOtherLoad
    <2>8. UNCHANGED <<view, queue, held, heldRef, busy, loadErr, astray, overtaken, loaded>>
      BY DEF ServeLabel, screenVars, ghostVars
    <2>9. /\ \A j \in Slots : Handles(j) => task[j].card \in Cards
          /\ DOMAIN queue \subseteq Cards /\ DOMAIN held \subseteq Cards
      BY <1>0, SlotKinds, ShelfRows DEF Types
    <2> HIDE DEF r
    <2> QED
      BY <1>0, <2>1, <2>2, <2>3, <2>5, <2>6, <2>7, <2>8, <2>9 DEF Types
  <1> HIDE DEF r
  <1>10. BusyHandled'
    BY <1>0, <1>1 DEF BusyHandled, Handled
  <1>11. HeldShown'
    BY <1>0, <1>1 DEF HeldShown
  <1>12. Alone'
    BY <1>0, <1>1 DEF Alone
  <1>13. NoOtherLoad'
    BY <1>0, <1>1 DEF NoOtherLoad, LoadSteps
  <1>14. GotCurrent'
    BY <1>0, <1>1 DEF GotCurrent, Listed, LoadSteps
  <1>15. RowFresh'
    BY <1>0, <1>1 DEF RowFresh
  <1>16. BodyFits'
    BY <1>0, <1>1 DEF BodyFits
  <1>17. SameView'
    BY <1>0, <1>1 DEF SameView
  <1>18. OnScreen'
    BY <1>0, <1>1 DEF OnScreen
  <1>19. QueueCurrent'
    BY <1>0, <1>1 DEF QueueCurrent
  <1>20. HeldCurrent'
    BY <1>0, <1>1 DEF HeldCurrent
  <1>21. HeldPerson'
    BY <1>0, <1>1 DEF HeldPerson
  <1>22. HeldView'
    BY <1>0, <1>1 DEF HeldView
  <1>23. RefAgrees'
    BY <1>0, <1>1 DEF RefAgrees
  <1>24. Overtakes'
    BY <1>0, <1>1 DEF Overtakes, LoadSteps
  <1>26. SomeLoad'
    BY <1>0, <1>1 DEF SomeLoad, OwnLoad, LoadSteps
  <1>27. AllShown'
    BY <1>0, <1>1 DEF AllShown, OwnLoad, Listed, LoadSteps, OnScreen
  <1> QED
    BY <1>10, <1>11, <1>12, <1>13, <1>14, <1>15, <1>16, <1>17, <1>18,
       <1>19, <1>20, <1>21, <1>22, <1>23, <1>24, <1>26, <1>27 DEF Inv

(* The answer replaces the row on screen and may hold the card.            *)
LEMMA LabelAnsweredStep ==
  ASSUME Inv, Types', NEW i \in Slots, LabelAnswered(i)
  PROVE  Inv'
  <1>0. /\ Types
        /\ BusyHandled /\ HeldShown /\ Alone /\ NoOtherLoad /\ GotCurrent /\ RowFresh
        /\ BodyFits /\ SameView /\ OnScreen /\ QueueCurrent /\ HeldCurrent /\ HeldPerson
        /\ HeldView /\ RefAgrees /\ Overtakes /\ SomeLoad /\ AllShown
    BY DEF Inv

  <1> DEFINE c == task[i].card
             r == task[i].row
  <1>1. /\ UNCHANGED <<rows, view, heldRef, busy, loadErr>>
        /\ UNCHANGED <<astray, overtaken, loaded>>
        /\ Handles(i) /\ task[i].pc = "served" /\ c \in Cards
        /\ \A j \in Slots : /\ Handles(j)' <=> Handles(j)
                            /\ j # i => task'[j] = task[j]
        /\ task'[i].pc = "counters" /\ task'[i].row = r
        /\ task'[i].view = task[i].view
        /\ task'[i].kind = task[i].kind /\ task'[i].card = c
        /\ task'[i].body = task[i].body /\ task'[i].from = task[i].from
        /\ DOMAIN queue' = DOMAIN queue
        /\ c \in DOMAIN queue => queue'[c] = r
        /\ \A d \in DOMAIN queue : d # c => queue'[d] = queue[d]
        /\ \A d : d # c => (d \in DOMAIN held' <=> d \in DOMAIN held)
        /\ \A d \in DOMAIN held : d # c => held'[d] = held[d]
        /\ c \notin astray /\ c \in DOMAIN held' =>
             held'[c] = r /\ r = rows[c] /\ r.person # Nobody /\ view.only
        /\ c \notin astray => r = rows[c]
        /\ c \notin astray => \A j \in Slots \ {i} : Handles(j) => task[j].card # c
    <2>1. Handles(i) /\ task[i].pc = "served" /\ c \in Cards /\ r \in Row
      BY <1>0, SlotKinds DEF LabelAnswered
    <2>2. task[i] # Idle /\ task' = [task EXCEPT ![i].pc = "counters"]
      BY <2>1, IdleSlot DEF LabelAnswered
    <2>3. /\ \A j \in Slots : /\ Handles(j)' <=> Handles(j)
                              /\ j # i => task'[j] = task[j]
          /\ task'[i].pc = "counters" /\ task'[i].row = r
          /\ task'[i].view = task[i].view
          /\ task'[i].kind = task[i].kind /\ task'[i].card = c
          /\ task'[i].body = task[i].body /\ task'[i].from = task[i].from
      BY <1>0, <2>1, <2>2, SlotMoves
    <2>4. /\ DOMAIN queue' = DOMAIN queue
          /\ c \in DOMAIN queue => queue'[c] = r
          /\ \A d \in DOMAIN queue : d # c => queue'[d] = queue[d]
      <3>1. queue \in Shelf /\ queue' = Update(queue, c, r)
        BY <1>0 DEF LabelAnswered, QueueAfter, Types
      <3>2. /\ DOMAIN Update(queue, c, r) = DOMAIN queue
            /\ c \in DOMAIN queue => Update(queue, c, r)[c] = r
            /\ \A d \in DOMAIN queue : d # c => Update(queue, c, r)[d] = queue[d]
        <4> HIDE DEF c, r
        <4> QED
          BY <2>1, <3>1, ShelfUpdate
      <3> QED
        BY <3>1, <3>2
    <2>5. /\ \/ held' = Put(held, c, r) /\ PersonSet(i)
             \/ held' = Without(held, c)
             \/ /\ held' = Update(held, c, r)
                /\ ~(task[i].kind = "label" /\ (PersonSet(i) \/ PersonCleared(i)))
             \/ /\ held' = held /\ c \notin DOMAIN heldRef
      BY DEF LabelAnswered, HeldAfter
    <2>6. /\ \A d : d # c => (d \in DOMAIN held' <=> d \in DOMAIN held)
          /\ \A d \in DOMAIN held : d # c => held'[d] = held[d]
      <3>1. held \in Shelf
        BY <1>0 DEF Types
      <3> HIDE DEF c, r
      <3>2. CASE held' = Put(held, c, r)
        <4>1. /\ DOMAIN held' = DOMAIN held \cup {c}
              /\ \A d \in DOMAIN held : d # c => held'[d] = held[d]
          BY <2>1, <3>1, <3>2, ShelfPut
        <4> QED
          BY <4>1
      <3>3. CASE held' = Without(held, c)
        BY <3>1, <3>3, ShelfWithout
      <3>4. CASE held' = Update(held, c, r)
        BY <2>1, <3>1, <3>4, ShelfUpdate
      <3> QED
        BY <2>5, <3>2, <3>3, <3>4
    <2>7. c \notin astray => /\ r = rows[c] /\ task[i].view = view
                             /\ (c \in DOMAIN held <=> c \in DOMAIN heldRef)
                             /\ \A j \in Slots \ {i} : Handles(j) => task[j].card # c
      BY <1>0, <2>1 DEF RowFresh, SameView, RefAgrees, Alone
    <2>8. ASSUME c \notin astray, c \in DOMAIN held'
          PROVE  held'[c] = r /\ r.person # Nobody /\ view.only
      <3>1. CASE held' = Put(held, c, r) /\ PersonSet(i)
        <4>0. held \in Shelf
          BY <1>0 DEF Types
        <4>1. held'[c] = r
          <5> HIDE DEF c, r
          <5> QED
            BY <2>1, <3>1, <4>0, ShelfPut
        <4>2. r.person # Nobody /\ view.only
          BY <1>0, <2>1, <2>7, <2>8, <3>1 DEF PersonSet, BodyFits
        <4> QED
          BY <4>1, <4>2
      <3>2. CASE held' = Without(held, c)
        <4>0. held \in Shelf
          BY <1>0 DEF Types
        <4>1. c \notin DOMAIN held'
          <5> HIDE DEF c, r
          <5> QED
            BY <3>2, <4>0, ShelfWithout
        <4> QED
          BY <2>8, <4>1
      <3>3. CASE /\ held' = Update(held, c, r)
                 /\ ~(task[i].kind = "label" /\ (PersonSet(i) \/ PersonCleared(i)))
        <4>0. held \in Shelf
          BY <1>0 DEF Types
        <4>1. c \in DOMAIN held /\ held'[c] = r
          <5> HIDE DEF c, r
          <5> QED
            BY <2>1, <2>8, <3>3, <4>0, ShelfUpdate
        <4>2. view.only
          BY <1>0, <2>8, <4>1 DEF HeldView
        <4>3. ~Sets(task[i].body, "person")
          <5>1. task[i].kind = "notag" => ~Sets(task[i].body, "person")
            BY <1>0, <2>1 DEF BodyFits, Sets
          <5>2. task[i].kind \in {"label", "notag"}
            BY <1>0, <2>1, SlotKinds
          <5> QED
            BY <2>7, <2>8, <3>3, <4>2, <5>1, <5>2 DEF PersonSet, PersonCleared
        <4>4. rows[c].person # Nobody
          BY <1>0, <2>1, <2>7, <2>8, <4>1, <4>3 DEF HeldPerson
        <4> QED
          BY <2>7, <2>8, <4>1, <4>2, <4>4
      <3>4. CASE held' = held /\ c \notin DOMAIN heldRef
        BY <2>7, <2>8, <3>4
      <3> QED
        BY <2>5, <3>1, <3>2, <3>3, <3>4
    <2>9. UNCHANGED <<rows, view, heldRef, busy, loadErr, astray, overtaken, loaded>>
      BY DEF LabelAnswered, ghostVars
    <2> QED
      BY <2>1, <2>3, <2>4, <2>6, <2>7, <2>8, <2>9
  <1>10. BusyHandled'
    BY <1>0, <1>1 DEF BusyHandled, Handled
  <1>11. HeldShown'
    BY <1>0, <1>1 DEF HeldShown, OnScreen
  <1>12. Alone'
    BY <1>0, <1>1 DEF Alone
  <1>13. NoOtherLoad'
    BY <1>0, <1>1 DEF NoOtherLoad, LoadSteps
  <1>14. GotCurrent'
    BY <1>0, <1>1 DEF GotCurrent, Listed
  <1>15. RowFresh'
    BY <1>0, <1>1 DEF RowFresh
  <1>16. BodyFits'
    BY <1>0, <1>1 DEF BodyFits
  <1>17. SameView'
    BY <1>0, <1>1 DEF SameView
  <1>18. OnScreen'
    BY <1>0, <1>1 DEF OnScreen
  <1>19. QueueCurrent'
    BY <1>0, <1>1 DEF QueueCurrent
  <1>20. HeldCurrent'
    BY <1>0, <1>1 DEF HeldCurrent
  <1>21. HeldPerson'
    BY <1>0, <1>1 DEF HeldPerson
  <1>22. HeldView'
    BY <1>0, <1>1 DEF HeldView
  <1>23. RefAgrees'
    BY <1>0, <1>1 DEF RefAgrees
  <1>24. Overtakes'
    BY <1>0, <1>1 DEF Overtakes, LoadSteps
  <1>26. SomeLoad'
    BY <1>0, <1>1 DEF SomeLoad, OwnLoad, LoadSteps
  <1>27. AllShown'
    BY <1>0, <1>1 DEF AllShown, OwnLoad, Listed, LoadSteps
  <1> QED
    BY <1>10, <1>11, <1>12, <1>13, <1>14, <1>15, <1>16, <1>17, <1>18,
       <1>19, <1>20, <1>21, <1>22, <1>23, <1>24, <1>26, <1>27 DEF Inv

(* A render brings the ref up to date.                                     *)
LEMMA RenderStep ==
  ASSUME Inv, Types', Render
  PROVE  Inv'
  <1>0. /\ Types
        /\ BusyHandled /\ HeldShown /\ Alone /\ NoOtherLoad /\ GotCurrent /\ RowFresh
        /\ BodyFits /\ SameView /\ OnScreen /\ QueueCurrent /\ HeldCurrent /\ HeldPerson
        /\ HeldView /\ RefAgrees /\ Overtakes /\ SomeLoad /\ AllShown
    BY DEF Inv

  <1>1. /\ UNCHANGED <<rows, view, queue, held, busy, loadErr, task>>
        /\ UNCHANGED <<astray, overtaken, loaded>>
        /\ heldRef' = held
        /\ \A j \in Slots : Handles(j)' <=> Handles(j)
    BY SlotKept DEF Render, ghostVars
  <1>10. BusyHandled'
    BY <1>0, <1>1 DEF BusyHandled, Handled
  <1>11. HeldShown'
    BY <1>0, <1>1 DEF HeldShown
  <1>12. Alone'
    BY <1>0, <1>1 DEF Alone
  <1>13. NoOtherLoad'
    BY <1>0, <1>1 DEF NoOtherLoad, LoadSteps
  <1>14. GotCurrent'
    BY <1>0, <1>1 DEF GotCurrent, Listed
  <1>15. RowFresh'
    BY <1>0, <1>1 DEF RowFresh
  <1>16. BodyFits'
    BY <1>0, <1>1 DEF BodyFits
  <1>17. SameView'
    BY <1>0, <1>1 DEF SameView
  <1>18. OnScreen'
    BY <1>0, <1>1 DEF OnScreen
  <1>19. QueueCurrent'
    BY <1>0, <1>1 DEF QueueCurrent
  <1>20. HeldCurrent'
    BY <1>0, <1>1 DEF HeldCurrent
  <1>21. HeldPerson'
    BY <1>0, <1>1 DEF HeldPerson
  <1>22. HeldView'
    BY <1>0, <1>1 DEF HeldView
  <1>23. RefAgrees'
    BY <1>0, <1>1 DEF RefAgrees
  <1>24. Overtakes'
    BY <1>0, <1>1 DEF Overtakes, LoadSteps
  <1>26. SomeLoad'
    BY <1>0, <1>1 DEF SomeLoad, OwnLoad, LoadSteps
  <1>27. AllShown'
    BY <1>0, <1>1 DEF AllShown, OwnLoad, Listed, LoadSteps
  <1> QED
    BY <1>10, <1>11, <1>12, <1>13, <1>14, <1>15, <1>16, <1>17, <1>18,
       <1>19, <1>20, <1>21, <1>22, <1>23, <1>24, <1>26, <1>27 DEF Inv

----------------------------------------------------------------------------
(* The invariant of the specification *)

LEMMA InvInit == Init => Inv
  <1> SUFFICES ASSUME Init PROVE Inv
    OBVIOUS
  <1> USE OrganizeAssumption
  <1>1. view \in View /\ view.only
    BY DEF Init, View
  <1>2. /\ task[1] = Load(view)
        /\ \A i \in Slots : i # 1 => task[i] = Idle
        /\ task = [i \in Slots |-> IF i = 1 THEN Load(view) ELSE Idle]
    BY DEF Init
  <1>3. /\ task[1].pc = "load" /\ task[1].view = view
        /\ \A i \in Slots : ~Handles(i)
        /\ \A i \in Slots : i # 1 => task[i].pc = "idle"
    BY <1>1, <1>2, LoadSlot, IdleSlot DEF Handles
  <1>4. DOMAIN queue = {} /\ DOMAIN held = {} /\ DOMAIN heldRef = {}
    BY ShelfEmpty DEF Init
  <1>5. Types
    <2>1. rows \in [Cards -> Row]
      BY DEF Init, Row
    <2>2. task \in [Slots -> {Idle} \cup LoadTask \cup HandlerTask]
      BY <1>1, <1>2, LoadSlot
    <2>3. /\ queue \in Shelf /\ held \in Shelf /\ heldRef \in Shelf
          /\ busy \in Cards \cup {NoCard}
          /\ loadErr \in BOOLEAN /\ overtaken \in BOOLEAN
      BY ShelfEmpty DEF Init
    <2>4. clicks \in 0..MaxClicks /\ faults \in 0..MaxFaults
      BY DEF Init
    <2>5. astray \subseteq Cards /\ crossed \subseteq Cards /\ loaded \in SUBSET View
      BY DEF Init
    <2> QED
      BY <1>1, <2>1, <2>2, <2>3, <2>4, <2>5 DEF Types
  <1>6. SomeLoad
    BY <1>3 DEF SomeLoad, OwnLoad, LoadSteps
  <1>7. Overtakes
    BY <1>3 DEF Overtakes, LoadSteps
  <1>8. BusyHandled /\ HeldShown /\ HeldView /\ QueueCurrent /\ HeldCurrent /\ HeldPerson
    BY <1>4 DEF Init, BusyHandled, HeldShown, HeldView, QueueCurrent, HeldCurrent, HeldPerson
  <1>9. Alone /\ NoOtherLoad /\ SameView /\ OnScreen /\ RowFresh /\ BodyFits /\ RefAgrees
    BY <1>3 DEF Alone, NoOtherLoad, SameView, OnScreen, RowFresh, BodyFits, RefAgrees
  <1>10. GotCurrent
    BY <1>3 DEF GotCurrent
  <1>11. AllShown
    BY DEF Init, AllShown
  <1> QED
    BY <1>5, <1>6, <1>7, <1>8, <1>9, <1>10, <1>11 DEF Inv

(* A failed load ends, or is tried once more.                              *)
LEMMA LoadFailsStep ==
  ASSUME Inv, Types', NEW i \in Slots, LoadFails(i)
  PROVE  Inv'
  <1>1. UNCHANGED <<rows, view, queue, held, heldRef, loaded>> /\ task[i].pc \in LoadSteps
    BY DEF LoadFails
  <1>2. CASE ~Handles(i) /\ loadErr' = TRUE /\ Finish(i) /\ UNCHANGED <<astray, overtaken>>
    BY <1>1, <1>2, EndStep
  <1>3. CASE /\ Handles(i) /\ task[i].pc \in {"load", "loaded"}
             /\ task' = [task EXCEPT ![i].pc = "reload"]
             /\ NoteLoad(i, task[i].view, view)
             /\ UNCHANGED <<busy, loadErr>>
    <2>1. /\ astray \cup MetHandlers(i) \subseteq astray'
          /\ overtaken' = (overtaken \/ MayOvertake(i, task[i].view, view))
      BY <1>3 DEF NoteLoad
    <2> QED
      BY <1>1, <1>3, <2>1, ReloadStep
  <1>4. CASE /\ Handles(i) /\ Finish(i)
             /\ astray' = astray \cup {task[i].card}
             /\ UNCHANGED <<loadErr, overtaken>>
    BY <1>1, <1>4, EndStep
  <1> QED
    BY <1>2, <1>3, <1>4 DEF LoadFails

(* A handler whose answer came ends, or loads.                             *)
LEMMA LabelEndsStep ==
  ASSUME Inv, Types', NEW i \in Slots, LabelEnds(i)
  PROVE  Inv'
  <1>1. /\ UNCHANGED <<rows, view, queue, held, heldRef, loadErr, loaded>>
        /\ Handles(i) /\ task[i].pc = "counters"
    BY DEF LabelEnds
  <1>2. CASE /\ task' = [task EXCEPT ![i].pc = "load"] /\ UNCHANGED busy
             /\ NoteLoad(i, task[i].view, view)
    <2>1. /\ astray \cup MetHandlers(i) \subseteq astray'
          /\ overtaken' = (overtaken \/ MayOvertake(i, task[i].view, view))
      BY <1>2 DEF NoteLoad
    <2> QED
      BY <1>1, <1>2, <2>1, ReloadStep
  <1>3. CASE Finish(i) /\ UNCHANGED <<astray, overtaken>>
    BY <1>1, <1>3, EndStep
  <1> QED
    BY <1>2, <1>3 DEF LabelEnds

(* A handler whose request failed loads.                                   *)
LEMMA LabelFailsStep ==
  ASSUME Inv, Types', NEW i \in Slots, LabelFails(i)
  PROVE  Inv'
  <1>1. /\ Handles(i) /\ task[i].pc \in {"sent", "served"}
        /\ task' = [task EXCEPT ![i].pc = "reload"]
        /\ UNCHANGED <<rows, view, queue, held, heldRef, busy, loadErr, loaded>>
        /\ overtaken' = (overtaken \/ MayOvertake(i, task[i].view, view))
    BY DEF LabelFails
  <1>2. /\ astray \cup MetHandlers(i) \subseteq astray'
        /\ task[i].pc = "served" => (task[i].card \in DOMAIN held => task[i].card \in astray')
    BY DEF LabelFails
  <1> QED
    BY <1>1, <1>2, ReloadStep

LEMMA InvStep ==
  ASSUME Inv, [Next]_vars
  PROVE  Inv'
  <1>0. Types'
    BY TypesStep DEF Inv
  <1>1. ASSUME NEW i \in Slots,
               \/ \E c \in Cards, p \in People : TapPerson(i, c, p)
               \/ \E c \in Cards : ClearPerson(i, c)
               \/ \E c \in Cards, tag \in Tags : TapTag(i, c, tag)
               \/ \E c \in Cards : TapNoTag(i, c)
        PROVE  Inv'
    <2>1. PICK kind \in {"label", "notag"}, c \in Cards, body \in Body : TapOf(i, kind, c, body)
      BY <1>1, Taps DEF Inv
    <2> QED
      BY <1>0, <2>1, TapStep
  <1>2. ASSUME NEW i \in Slots, NEW v \in View, ChangeView(i, v) PROVE Inv'
    BY <1>0, <1>2, StartStep
  <1>3. ASSUME NEW i \in Slots, Refresh(i) PROVE Inv'
    <2>1. view \in View
      BY DEF Inv, Types
    <2> QED
      BY <1>0, <1>3, <2>1, StartStep
  <1>4. ASSUME NEW i \in Slots, Step(i) PROVE Inv'
    BY <1>0, <1>4, ServeLoadStep, LoadAnsweredStep, ServeLabelStep, LabelAnsweredStep,
       LabelEndsStep, NoTagStep DEF Step
  <1>5. ASSUME NEW i \in Slots, LoadFails(i) \/ LabelFails(i) PROVE Inv'
    BY <1>0, <1>5, LoadFailsStep, LabelFailsStep
  <1>6. ASSUME NEW c \in Cards, FinishNoTag(c) \/ Done(c) PROVE Inv'
    BY <1>0, <1>6, DropStep
  <1>7. CASE Render
    BY <1>0, <1>7, RenderStep
  <1>8. CASE UNCHANGED vars
    <2>1. \A i \in Slots : Handles(i)' <=> Handles(i)
      BY <1>8 DEF vars, Handles
    <2>2. UNCHANGED <<rows, view, queue, held, heldRef, busy, loadErr, task>>
      BY <1>8 DEF vars, screenVars
    <2>3. UNCHANGED <<astray, overtaken, loaded>>
      BY <1>8 DEF vars, ghostVars
    <2>4. BusyHandled' /\ HeldShown' /\ Alone' /\ NoOtherLoad' /\ SameView' /\ OnScreen'
      BY <2>1, <2>2, <2>3 DEF Inv, BusyHandled, Handled, HeldShown, Alone, NoOtherLoad,
         SameView, OnScreen
    <2>5. GotCurrent' /\ RowFresh' /\ BodyFits' /\ QueueCurrent'
      BY <2>1, <2>2, <2>3 DEF Inv, GotCurrent, Listed, RowFresh, BodyFits,
         QueueCurrent
    <2>6. HeldCurrent' /\ HeldPerson' /\ HeldView' /\ RefAgrees'
      BY <2>1, <2>2, <2>3 DEF Inv, HeldCurrent, HeldPerson, HeldView, RefAgrees
    <2>7. Overtakes' /\ SomeLoad' /\ AllShown'
      BY <2>1, <2>2, <2>3 DEF Inv, Overtakes, SomeLoad, AllShown, OwnLoad, Listed
    <2> QED
      BY <1>0, <2>4, <2>5, <2>6, <2>7 DEF Inv
  <1> QED
    BY <1>1, <1>2, <1>3, <1>4, <1>5, <1>6, <1>7, <1>8 DEF Next, Click

(* Every reachable state satisfies the invariant, whatever taps, answers,  *)
(* renders and failures came in which order.                               *)
THEOREM InboxInvariant == Spec => []Inv
  <1>1. Init => Inv
    BY InvInit
  <1>2. Inv /\ [Next]_vars => Inv'
    BY InvStep
  <1> QED
    BY <1>1, <1>2, PTL DEF Spec

----------------------------------------------------------------------------
(* The properties *)

(* The states of the inbox are well formed, no way out of a handler leaves *)
(* a card's buttons disabled, and a held card is on screen.                *)
THEOREM OrganizeCorrect == Spec => []OrganizeInv
  <1>1. Inv => OrganizeInv
    <2> SUFFICES ASSUME Inv PROVE OrganizeInv
      OBVIOUS
    <2>1. TypeOK
      <3>1. ASSUME NEW i \in Slots
            PROVE  \/ task[i] = Idle
                   \/ /\ task[i] \in [pc : LoadSteps, view : View, got : Shelf]
                   \/ /\ Handles(i)
                      /\ task[i].pc \in LoadSteps \cup {"sent", "served", "counters"}
                      /\ task[i].view \in View
                      /\ task[i].kind \in {"label", "notag"}
                      /\ task[i].card \in Cards
                      /\ task[i].body \in Body
                      /\ task[i].from \in Row /\ task[i].row \in Row
                      /\ task[i].got \in Shelf
        BY SlotKinds DEF Inv, LoadTask, HandlerSteps
      <3> QED
        BY <3>1 DEF Inv, Types, TypeOK
    <2> QED
      BY <2>1 DEF Inv, OrganizeInv
  <1> QED
    BY <1>1, InboxInvariant, PTL

(* No card on screen, and no held copy of one, shows anything but what the *)
(* server has, once the answers of its own handlers are in.                *)
THEOREM RowsAreCurrent == Spec => []RowsCurrent
  <1>1. Inv => RowsCurrent
    <2> SUFFICES ASSUME Inv, heldRef = held, NEW c \in Cards \ (astray \cup Handled)
                 PROVE  /\ c \in DOMAIN queue => queue[c] = rows[c]
                        /\ c \in DOMAIN held => held[c] = rows[c] /\ held[c].person # Nobody
      BY DEF RowsCurrent
    <2>1. \A i \in Slots : Handles(i) => task[i].card # c
      BY DEF Handled
    <2> QED
      BY <2>1 DEF Inv, QueueCurrent, HeldCurrent, HeldPerson
  <1> QED
    BY <1>1, InboxInvariant, PTL

(* An inbox at rest shows every card the server lists for its window and   *)
(* filter.                                                                 *)
THEOREM NothingIsMissed == Spec => []NothingMissed
  <1>1. Inv => NothingMissed
    <2> SUFFICES ASSUME Inv, AtRest, ~loadErr
                 PROVE  /\ loaded = {view} \/ overtaken
                        /\ loaded = {view} =>
                             \A c \in DOMAIN Answer(view) \ astray : c \in DOMAIN queue
      BY DEF NothingMissed
    <2>1. \A i \in Slots : ~OwnLoad(i)
      BY IdleSlot DEF AtRest, OwnLoad, LoadSteps
    <2>2. \A c \in DOMAIN Answer(view) : c \in Cards /\ Listed(view, c)
      BY AnswerLists DEF Inv, Types
    <2> QED
      BY <2>1, <2>2 DEF Inv, SomeLoad, AllShown
  <1> QED
    BY <1>1, InboxInvariant, PTL

(* What a label answer does to the hold.                                   *)
LEMMA HeldAfterRows ==
  ASSUME Types, NEW i \in Slots, Handles(i), task[i].kind = "notag" => ~PersonSet(i)
  PROVE  /\ \A c \in DOMAIN held : c \notin DOMAIN HeldAfter(i) =>
              task[i].card = c /\ PersonCleared(i)
         /\ PersonSet(i) => task[i].card \in DOMAIN HeldAfter(i)
  <1> DEFINE c == task[i].card
             row == task[i].row
  <1>1. c \in Cards /\ row \in Row /\ task[i].kind \in {"label", "notag"} /\ held \in Shelf
    BY SlotKinds DEF Types
  <1>2. /\ DOMAIN Put(held, c, row) = DOMAIN held \cup {c}
        /\ DOMAIN Update(held, c, row) = DOMAIN held
        /\ DOMAIN Without(held, c) = DOMAIN held \ {c}
    <2> HIDE DEF c, row
    <2>1. DOMAIN Put(held, c, row) = DOMAIN held \cup {c}
      BY <1>1, ShelfPut
    <2>2. DOMAIN Update(held, c, row) = DOMAIN held
      BY <1>1, ShelfUpdate
    <2>3. DOMAIN Without(held, c) = DOMAIN held \ {c}
      BY <1>1, ShelfWithout
    <2> QED
      BY <2>1, <2>2, <2>3
  <1>3. \/ PersonSet(i) /\ HeldAfter(i) = Put(held, c, row)
        \/ ~PersonSet(i) /\ PersonCleared(i) /\ HeldAfter(i) = Without(held, c)
        \/ ~PersonSet(i) /\ HeldAfter(i) \in {held, Update(held, c, row)}
    BY <1>1 DEF HeldAfter
  <1> QED
    BY <1>2, <1>3

(* A card whose person is given stays on screen, and its hold stays, until *)
(* the user is done with it: the code's "never drop on person assign"; the *)
(* answer of a load of another view, or of one that comes before the hold  *)
(* is rendered, is the only one to take it away.                           *)
THEOREM HeldCardsStay == Spec => KeptUntilDone
  <1>1. ASSUME Inv, [Next]_vars, NEW c \in Cards,
               Given(c), c \in DOMAIN queue, c \notin DOMAIN queue', ~FinishedByUser(c)
        PROVE  \E i \in Slots : /\ LoadAnswered(i)
                                /\ task[i].view # view \/ c \notin DOMAIN heldRef
    <2>1. Types
      BY <1>1 DEF Inv
    <2>2. ASSUME NEW d, Dismissed(d), d # c PROVE FALSE
      BY <1>1, <2>1, <2>2, DismissedRows
    <2>3. PICK i \in Slots : LoadAnswered(i) \/ LabelAnswered(i)
      BY <1>1, <2>2 DEF FinishedByUser, Next, Click, Step, TapPerson, ClearPerson, TapTag,
         TapNoTag, Tap, ChangeView, Refresh, ServeLoad, LoadFails, FinishNoTag, Done,
         ServeLabel, LabelEnds, NoTagEnds, LabelFails, Render, vars, screenVars
    <2>4. CASE LoadAnswered(i)
      <3>1. /\ task[i].view.only \in BOOLEAN /\ task[i].got \in Shelf /\ heldRef \in Shelf
        BY <2>1, <2>4, SlotKinds DEF LoadAnswered, View, Types
      <3>2. queue' = Merged(task[i].got, task[i].view.only)
        BY <2>4 DEF LoadAnswered
      <3>3. DOMAIN Merged(task[i].got, task[i].view.only)
              = DOMAIN task[i].got \cup (IF task[i].view.only THEN DOMAIN heldRef ELSE {})
        BY <3>1, MergedRows
      <3>4. ~task[i].view.only \/ c \notin DOMAIN heldRef
        BY <1>1, <3>2, <3>3
      <3>5. view.only
        BY <1>1 DEF Given
      <3>6. task[i].view # view \/ c \notin DOMAIN heldRef
        BY <3>4, <3>5
      <3> QED
        BY <2>4, <3>6
    <2>5. CASE LabelAnswered(i)
      <3>1. task[i].card \in Cards /\ task[i].row \in Row /\ queue \in Shelf
        BY <2>1, <2>5, SlotKinds DEF LabelAnswered, Types
      <3>2. DOMAIN queue' = DOMAIN queue
        BY <2>5, <3>1, ShelfUpdate DEF LabelAnswered, QueueAfter
      <3> QED
        BY <1>1, <3>2
    <2> QED
      BY <2>3, <2>4, <2>5
  <1>2. ASSUME Inv, NEW i \in Slots, LabelAnswered(i)
        PROVE  /\ \A c \in DOMAIN held : c \notin DOMAIN held' =>
                    task[i].card = c /\ PersonCleared(i)
               /\ PersonSet(i) => task[i].card \in DOMAIN held'
    <2>1. Handles(i) /\ held' = HeldAfter(i) /\ Types
      BY <1>2 DEF LabelAnswered, Inv
    <2>2. task[i].kind = "notag" => task[i].body = [tags |-> {}]
      BY <1>2, <2>1 DEF Inv, BodyFits
    <2>3. DOMAIN [tags |-> {}] = {"tags"}
      OBVIOUS
    <2>4. task[i].kind = "notag" => ~PersonSet(i)
      BY <2>2, <2>3 DEF PersonSet, Sets
    <2> QED
      BY <2>1, <2>4, HeldAfterRows
  <1>3. ASSUME Inv, [Next]_vars, NEW c \in Cards,
               c \in DOMAIN held, c \notin DOMAIN held', ~FinishedByUser(c), view' = view
        PROVE  \E i \in Slots : LabelAnswered(i) /\ task[i].card = c /\ PersonCleared(i)
    <2>1. Types
      BY <1>3 DEF Inv
    <2>2. ASSUME NEW d, Dismissed(d), d # c PROVE FALSE
      BY <1>3, <2>1, <2>2, DismissedRows
    <2>3. ASSUME NEW i \in Slots, NEW v \in View, ChangeView(i, v) PROVE FALSE
      BY <1>3, <2>3 DEF ChangeView
    <2>4. PICK i \in Slots : LabelAnswered(i)
      BY <1>3, <2>2, <2>3 DEF FinishedByUser, Next, Click, Step, TapPerson, ClearPerson, TapTag,
         TapNoTag, Tap, Refresh, ServeLoad, LoadAnswered, LoadFails, FinishNoTag, Done,
         ServeLabel, LabelEnds, NoTagEnds, LabelFails, Render, vars, screenVars
    <2> QED
      BY <1>2, <1>3, <2>4
  <1>4. ASSUME Inv, [Next]_vars, NEW c \in Cards
        PROVE  /\ Given(c) /\ c \in DOMAIN queue /\ c \notin DOMAIN queue' =>
                    \/ FinishedByUser(c)
                    \/ \E i \in Slots : /\ LoadAnswered(i)
                                        /\ task[i].view # view \/ c \notin DOMAIN heldRef
               /\ c \in DOMAIN held /\ c \notin DOMAIN held' =>
                    \/ FinishedByUser(c)
                    \/ view' # view
                    \/ \E i \in Slots : LabelAnswered(i) /\ task[i].card = c /\ PersonCleared(i)
               /\ \A i \in Slots :
                    LabelAnswered(i) /\ task[i].card = c /\ PersonSet(i) => c \in DOMAIN held'
    BY <1>1, <1>2, <1>3, <1>4
  <1>5. Inv /\ [Next]_vars =>
          [\A c \in Cards :
             /\ Given(c) /\ c \in DOMAIN queue /\ c \notin DOMAIN queue' =>
                  \/ FinishedByUser(c)
                  \/ \E i \in Slots : /\ LoadAnswered(i)
                                      /\ task[i].view # view \/ c \notin DOMAIN heldRef
             /\ c \in DOMAIN held /\ c \notin DOMAIN held' =>
                  \/ FinishedByUser(c)
                  \/ view' # view
                  \/ \E i \in Slots : LabelAnswered(i) /\ task[i].card = c /\ PersonCleared(i)
             /\ \A i \in Slots :
                  LabelAnswered(i) /\ task[i].card = c /\ PersonSet(i) => c \in DOMAIN held']_vars
    BY <1>4
  <1> QED
    BY <1>5, InboxInvariant, PTL DEF Spec, KeptUntilDone

----------------------------------------------------------------------------
(* Taps on tags.  A card that was not crossed has one handler, whatever    *)
(* loads there are; tapped on a tag, it asks for the server's tags with    *)
(* that tag toggled, and the server's row does not change meanwhile.       *)

TapAlone ==
  \A i, j \in Slots :
    /\ Handles(i) /\ Handles(j)
    /\ task[i].card = task[j].card /\ task[i].card \notin crossed
    => i = j

TagTap ==
  \A i \in Slots :
    /\ Handles(i) /\ task[i].card \notin crossed
    /\ task[i].pc = "sent" /\ task[i].kind = "label" /\ Sets(task[i].body, "tags")
    => \E tag \in Tags : task[i].body.tags = Toggled(rows[task[i].card], tag)

TapsInv == TapAlone /\ TagTap

(* What slot j holds after a step that taps nothing.                       *)
GoesOn(j) ==
  Handles(j)' =>
    /\ Handles(j)
    /\ task'[j].card = task[j].card /\ task'[j].kind = task[j].kind
    /\ task'[j].body = task[j].body
    /\ task'[j].pc = "sent" => task[j].pc = "sent"

LEMMA OthersGoOn ==
  ASSUME NEW i \in Slots, \A j \in Slots : j # i => task'[j] = task[j], GoesOn(i)
  PROVE  \A j \in Slots : GoesOn(j)
  BY SlotKept DEF GoesOn

LEMMA TapsKept ==
  ASSUME TapsInv, UNCHANGED <<rows, crossed>>, \A j \in Slots : GoesOn(j)
  PROVE  TapsInv'
  BY DEF TapsInv, TapAlone, TagTap, GoesOn

LEMMA TapsTapped ==
  ASSUME Inv, TapsInv, NEW i \in Slots, NEW kind, NEW c \in Cards, NEW body,
         TapOf(i, kind, c, body)
  PROVE  TapsInv'
  <1>1. /\ Tap(i, kind, c, body) /\ kind \in {"label", "notag"} /\ body \in Body /\ Types
        /\ kind = "label" /\ Sets(body, "tags") =>
             \E tag \in Tags : body.tags = Toggled(queue[c], tag)
    BY DEF TapOf, Inv
  <1>2. /\ Handles(i)' /\ task'[i].card = c /\ task'[i].kind = kind /\ task'[i].body = body
        /\ \A j \in Slots : j # i => task'[j] = task[j] /\ (Handles(j)' <=> Handles(j))
        /\ c \in DOMAIN queue
    BY <1>1, SlotTapped
  <1>3. /\ rows' = rows
        /\ \A d \in Cards : d # c => (d \in crossed' <=> d \in crossed)
        /\ c \notin crossed' => c \notin astray /\ c \notin Handled
    BY <1>1 DEF Tap
  <1>4. c \notin crossed' => \A j \in Slots : Handles(j) => task[j].card # c
    BY <1>3 DEF Handled
  <1>5. c \notin crossed' => queue[c] = rows[c]
    BY <1>2, <1>3, <1>4 DEF Inv, QueueCurrent
  <1>6. \A j \in Slots : Handles(j) => task[j].card \in Cards
    BY <1>1, SlotKinds
  <1>7. TapAlone'
    BY <1>2, <1>3, <1>4, <1>6 DEF TapsInv, TapAlone
  <1>8. TagTap'
    <2> SUFFICES ASSUME NEW j \in Slots, Handles(j)', task'[j].card \notin crossed',
                        task'[j].pc = "sent", task'[j].kind = "label",
                        Sets(task'[j].body, "tags")
                 PROVE  \E tag \in Tags : task'[j].body.tags = Toggled(rows'[task'[j].card], tag)
      BY DEF TagTap
    <2>1. CASE j = i
      <3>1. PICK tag \in Tags : body.tags = Toggled(queue[c], tag)
        BY <1>1, <1>2, <2>1
      <3>2. queue[c] = rows'[c]
        BY <1>2, <1>3, <1>5, <2>1
      <3> QED
        BY <1>2, <2>1, <3>1, <3>2
    <2>2. CASE j # i
      <3>1. Handles(j) /\ task'[j] = task[j]
        BY <1>2, <2>2
      <3>2. task[j].card \notin crossed
        <4>1. task[j].card # c
          BY <1>4, <3>1
        <4> QED
          BY <1>3, <1>6, <3>1, <4>1
      <3>3. PICK tag \in Tags : task[j].body.tags = Toggled(rows[task[j].card], tag)
        BY <3>1, <3>2 DEF TapsInv, TagTap
      <3> QED
        BY <1>3, <3>1, <3>3
    <2> QED
      BY <2>1, <2>2
  <1> QED
    BY <1>7, <1>8 DEF TapsInv

(* A card served its request: no other handler waits with an older row.    *)
LEMMA TapsServed ==
  ASSUME Inv, TapsInv, NEW i \in Slots, ServeLabel(i)
  PROVE  TapsInv'
  <1> DEFINE c == task[i].card
             row == Patched(rows[c], task[i].body)
  <1>1. Handles(i) /\ Types /\ c \in Cards /\ task[i].body \in Body
    BY SlotKinds DEF ServeLabel, Inv
  <1>2. row \in Row
    BY <1>1, PatchedRow DEF Types
  <1>3. /\ task' = [task EXCEPT ![i].pc = "served", ![i].row = row]
        /\ rows' = [rows EXCEPT ![c] = row] /\ UNCHANGED crossed
    BY DEF ServeLabel, ghostVars
  <1>4. /\ \A j \in Slots : /\ Handles(j)' <=> Handles(j)
                            /\ j # i => task'[j] = task[j]
        /\ task'[i].pc = "served" /\ task'[i].card = c
    BY <1>1, <1>2, <1>3, SlotServed
  <1>5. \A d : d # c => rows'[d] = rows[d]
    BY <1>1, <1>3 DEF Types
  <1> HIDE DEF c, row
  <1>6. TapAlone'
    <2>1. \A j \in Slots : (Handles(j)' => Handles(j)) /\ task'[j].card = task[j].card
      BY <1>4 DEF c
    <2>2. crossed' = crossed
      BY <1>3
    <2> QED
      BY <2>1, <2>2 DEF TapsInv, TapAlone
  <1>7. TagTap'
    <2> SUFFICES ASSUME NEW j \in Slots, Handles(j)', task'[j].card \notin crossed',
                        task'[j].pc = "sent", task'[j].kind = "label",
                        Sets(task'[j].body, "tags")
                 PROVE  \E tag \in Tags : task'[j].body.tags = Toggled(rows'[task'[j].card], tag)
      BY DEF TagTap
    <2>1. j # i
      BY <1>4
    <2>2. Handles(j) /\ task'[j] = task[j] /\ crossed' = crossed
      BY <1>3, <1>4, <2>1
    <2>3. task[j].card # c
      BY <1>1, <2>1, <2>2 DEF TapsInv, TapAlone, c
    <2>4. PICK tag \in Tags : task[j].body.tags = Toggled(rows[task[j].card], tag)
      BY <2>2 DEF TapsInv, TagTap
    <2> QED
      BY <1>5, <2>2, <2>3, <2>4
  <1> QED
    BY <1>6, <1>7 DEF TapsInv

LEMMA TapsStep ==
  ASSUME Inv, TapsInv, [Next]_vars
  PROVE  TapsInv'
  <1>0. Types
    BY DEF Inv
  <1>1. ASSUME NEW i \in Slots,
               \/ \E c \in Cards, p \in People : TapPerson(i, c, p)
               \/ \E c \in Cards : ClearPerson(i, c)
               \/ \E c \in Cards, tag \in Tags : TapTag(i, c, tag)
               \/ \E c \in Cards : TapNoTag(i, c)
        PROVE  TapsInv'
    <2>1. PICK kind \in {"label", "notag"}, c \in Cards, body \in Body : TapOf(i, kind, c, body)
      BY <1>0, <1>1, Taps
    <2> QED
      BY <2>1, TapsTapped
  <1>2. ASSUME NEW i \in Slots, NEW v \in View, StartLoad(i, v), UNCHANGED <<rows, crossed>>
        PROVE  TapsInv'
    <2>1. \A j \in Slots : GoesOn(j)
      BY <1>0, <1>2, SlotStarts, OthersGoOn DEF GoesOn
    <2> QED
      BY <1>2, <2>1, TapsKept
  <1>3. ASSUME NEW i \in Slots, Finish(i), UNCHANGED <<rows, crossed>>
        PROVE  TapsInv'
    <2>1. \A j \in Slots : GoesOn(j)
      BY <1>0, <1>3, SlotEnds, OthersGoOn DEF GoesOn
    <2> QED
      BY <1>3, <2>1, TapsKept
  <1>4. ASSUME NEW i \in Slots, NEW p \in LoadSteps \cup {"counters"}, task[i].pc # "idle",
               p = "counters" => Handles(i),
               task' = [task EXCEPT ![i].pc = p], UNCHANGED <<rows, crossed>>
        PROVE  TapsInv'
    <2>1. task[i] # Idle /\ p # "sent"
      BY <1>4, IdleSlot DEF LoadSteps
    <2>2. \A j \in Slots : GoesOn(j)
      BY <1>0, <1>4, <2>1, SlotMoves, OthersGoOn DEF GoesOn
    <2> QED
      BY <1>4, <2>2, TapsKept
  <1>5. ASSUME NEW i \in Slots, ServeLoad(i) PROVE TapsInv'
    <2>1. /\ task[i] # Idle /\ task[i].view \in View
          /\ UNCHANGED <<rows, crossed>>
      BY <1>0, <1>5, SlotKinds, IdleSlot DEF ServeLoad, ghostVars
    <2>2. Answer(task[i].view) \in Shelf
      BY <1>0, <2>1, AnswerLists DEF Types
    <2>3. PICK p \in {"loaded", "reloaded"} :
            task' = [task EXCEPT ![i].pc = p, ![i].got = Answer(task[i].view)]
      BY <1>5 DEF ServeLoad
    <2>4. p \in LoadSteps /\ p # "sent"
      BY DEF LoadSteps
    <2>5. \A j \in Slots : GoesOn(j)
      BY <1>0, <2>1, <2>2, <2>3, <2>4, SlotLoads, OthersGoOn DEF GoesOn
    <2> QED
      BY <2>1, <2>5, TapsKept
  <1>6. ASSUME NEW i \in Slots, LoadFails(i) \/ LabelFails(i) \/ LabelEnds(i) PROVE TapsInv'
    <2>1. UNCHANGED <<rows, crossed>> /\ task[i].pc # "idle"
      BY <1>6 DEF LoadFails, LabelFails, LabelEnds, LoadSteps
    <2>2. \/ Finish(i)
          \/ \E p \in LoadSteps : task' = [task EXCEPT ![i].pc = p]
      BY <1>6 DEF LoadFails, LabelFails, LabelEnds, LoadSteps
    <2>3. \A p \in LoadSteps : p # "counters"
      BY DEF LoadSteps
    <2> QED
      BY <1>3, <1>4, <2>1, <2>2, <2>3
  <1>7. ASSUME NEW i \in Slots, LoadAnswered(i) \/ NoTagEnds(i) PROVE TapsInv'
    BY <1>3, <1>7 DEF LoadAnswered, NoTagEnds, ghostVars
  <1>8. ASSUME NEW i \in Slots, LabelAnswered(i) PROVE TapsInv'
    BY <1>4, <1>8 DEF LabelAnswered, ghostVars
  <1>9. ASSUME NEW i \in Slots, NEW v \in View, ChangeView(i, v) PROVE TapsInv'
    BY <1>2, <1>9 DEF ChangeView
  <1>10. ASSUME NEW i \in Slots, Refresh(i) PROVE TapsInv'
    BY <1>0, <1>2, <1>10 DEF Refresh, Types
  <1>11. ASSUME UNCHANGED <<task, rows, crossed>> PROVE TapsInv'
    BY <1>11, TapsKept, SlotKept DEF GoesOn
  <1>12. ASSUME NEW c \in Cards, FinishNoTag(c) \/ Done(c) PROVE TapsInv'
    BY <1>11, <1>12 DEF FinishNoTag, Done
  <1>13. CASE Render
    BY <1>11, <1>13 DEF Render, ghostVars
  <1>14. CASE UNCHANGED vars
    BY <1>11, <1>14 DEF vars, ghostVars
  <1> QED
    BY <1>1, <1>5, <1>6, <1>7, <1>8, <1>9, <1>10, <1>12, <1>13, <1>14, TapsServed
       DEF Next, Click, Step

(* A tap on a tag, though it sends the whole set of tags of the row on     *)
(* screen, changes that one tag on the server, however loads overlap it:   *)
(* the card had no handler under way and is tapped once.                   *)
THEOREM TagTapsAreExact == Spec => OneTagPerTap
  <1>1. ASSUME Inv, TapsInv, NEW i \in Slots, ServeLabel(i), Sets(task[i].body, "tags"),
               task[i].kind = "label", task[i].card \notin crossed
        PROVE  LET c == task[i].card
                   new == rows'[c].tags
                   old == rows[c].tags IN
               Cardinality((old \ new) \cup (new \ old)) = 1
    <2> DEFINE c == task[i].card
               new == rows'[c].tags
               old == rows[c].tags
    <2>1. Handles(i) /\ task[i].pc = "sent" /\ c \in Cards /\ task[i].body \in Body /\ Types
      BY <1>1, SlotKinds DEF ServeLabel, Inv
    <2>2. PICK tag \in Tags : task[i].body.tags = Toggled(rows[c], tag)
      BY <1>1, <2>1 DEF TapsInv, TagTap
    <2>3. new = task[i].body.tags
      <3>1. rows[c] \in Row /\ rows'[c] = Patched(rows[c], task[i].body)
        BY <1>1, <2>1 DEF ServeLabel, Types
      <3>2. Patched(rows[c], task[i].body).tags = task[i].body.tags
        BY <1>1, <2>1, <3>1, PatchedRow
      <3> QED
        BY <3>1, <3>2
    <2>4. (old \ new) \cup (new \ old) = {tag}
      BY <2>2, <2>3 DEF Toggled
    <2>5. Cardinality({tag}) = 1
      BY FS_Singleton
    <2> QED
      BY <2>4, <2>5
  <1>2. Inv /\ TapsInv =>
          [\A i \in Slots :
             /\ ServeLabel(i) /\ Sets(task[i].body, "tags") /\ task[i].kind = "label"
             /\ task[i].card \notin crossed
             => LET c == task[i].card
                    new == rows'[c].tags
                    old == rows[c].tags IN
                Cardinality((old \ new) \cup (new \ old)) = 1]_vars
    BY <1>1
  <1>3. Init => TapsInv
    <2>1. ASSUME Init PROVE \A i \in Slots : ~Handles(i)
      <3>1. \A i \in Slots : task[i] \in {Load(view), Idle}
        BY <2>1 DEF Init
      <3>2. view \in View
        BY <2>1, OrganizeAssumption DEF Init, View
      <3> QED
        BY <3>1, <3>2, LoadSlot, IdleSlot DEF Handles
    <2> QED
      BY <2>1 DEF TapsInv, TapAlone, TagTap
  <1>4. Inv /\ TapsInv /\ [Next]_vars => TapsInv'
    BY TapsStep
  <1> QED
    BY <1>2, <1>3, <1>4, InboxInvariant, PTL DEF Spec, OneTagPerTap

=============================================================================
