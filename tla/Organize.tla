------------------------------ MODULE Organize ------------------------------
(***************************************************************************)
(* The organise inbox of the web client: the component Organize of         *)
(* web/src/App.jsx.  Cards (transactions) of a date window are loaded into *)
(* a queue; taps give a card a person or tags through PATCH requests; under*)
(* "only unlabeled" a card that got its person is held on screen until the *)
(* user is done with it.                                                   *)
(*                                                                         *)
(* A handler is a slot with a program counter, and what it closes over     *)
(* (the view of its render, the row it was tapped on) is a field of it:    *)
(* between its awaits other handlers, loads and taps run.  Any request may *)
(* fail, before or after the server has acted.  A tap falls after the      *)
(* pending render; an answer may come before it.                           *)
(*                                                                         *)
(* Left out: the order of the queue and its 200 rows, other users, the     *)
(* memoized dates of a window (they are today's until it is chosen anew),  *)
(* and the refresh of the counters, which only answers later here.         *)
(***************************************************************************)
EXTENDS Integers, FiniteSets

CONSTANTS
  Cards,        \* transactions
  Windows,      \* "today", "7d", ...
  Within,       \* Within[w]: the cards dated in window w
  FirstWindow,  \* the window a new page shows
  People,
  Tags,
  FirstRows,    \* what the server may hold when the page is opened
  Nobody,       \* person_id null
  NoCard,       \* busyId null
  Slots,        \* 1..n: handlers and loads that may run at the same time
  MaxClicks,    \* bound on taps
  MaxFaults     \* bound on failed requests

ASSUME OrganizeAssumption ==
  /\ Within \in [Windows -> SUBSET Cards]
  /\ FirstWindow \in Windows
  /\ Nobody \notin People /\ NoCard \notin Cards
  /\ FirstRows \subseteq [Cards -> [person : People \cup {Nobody}, tags : SUBSET Tags]]
  /\ Slots \subseteq Nat /\ 1 \in Slots
  /\ MaxClicks \in Nat /\ MaxFaults \in Nat

VARIABLES
  rows,       \* the server: rows[c], person and tags of card c
  view,       \* states window and onlyUnlabeled
  queue,      \* the rows on screen, by card
  held,       \* state held, queued updates included
  heldRef,    \* heldRef.current: written when the updaters run
  busy,       \* busyId
  loadErr,    \* loadErr is not empty
  task,       \* task[i]: the handler or load in slot i
  clicks,
  faults,
  astray,     \* history: cards labelled, or finished, while a load or another
              \* handler of theirs was under way, or whose outcome was lost
  crossed,    \* history: cards whose last tap found a handler of theirs under
              \* way, or may have found an old row
  overtaken,  \* history: a load may have been answered after a newer view's
  loaded      \* history: the views of the answers the queue is made of

screenVars == <<view, queue, held, heldRef, busy, loadErr>>
boundVars  == <<clicks, faults>>
ghostVars  == <<astray, crossed, overtaken, loaded>>
vars == <<rows, screenVars, task, boundVars, ghostVars>>

----------------------------------------------------------------------------
(* Rows, views and requests *)

Row == [person : People \cup {Nobody}, tags : SUBSET Tags]

View == [window : Windows, only : BOOLEAN]

Shelf == UNION {[S -> Row] : S \in SUBSET Cards}

Nothing == [c \in {} |-> Nobody]

Put(f, c, row) == [d \in DOMAIN f \cup {c} |-> IF d = c THEN row ELSE f[d]]

Update(f, c, row) == IF c \in DOMAIN f THEN Put(f, c, row) ELSE f

Without(f, c) == [d \in DOMAIN f \ {c} |-> f[d]]

(* What a PATCH sets: one of the two fields of a row. *)
Body == [person : People \cup {Nobody}] \cup [tags : SUBSET Tags]

Sets(body, field) == field \in DOMAIN body

Patched(row, body) ==
  [row EXCEPT !.person = IF Sets(body, "person") THEN body.person ELSE @,
              !.tags = IF Sets(body, "tags") THEN body.tags ELSE @]

(* GET /transactions with the window's dates and unlabeled.                *)
Answer(v) ==
  [c \in {d \in Within[v.window] : v.only => rows[d].person = Nobody} |-> rows[c]]

(* A slot: free, a load of its own, or a handler of a card (handleLabel or *)
(* handleNoTag), with what it closed over and the last answer it got.      *)
Idle == [pc |-> "idle"]

Load(v) == [pc |-> "load", view |-> v, got |-> Nothing]

Handler(kind, c, body) ==
  [pc |-> "sent", view |-> view, got |-> Nothing,
   kind |-> kind, card |-> c, body |-> body, from |-> queue[c], row |-> queue[c]]

Handles(i) == "card" \in DOMAIN task[i]

(* A new one takes the first free slot.                                    *)
Free(i) == task[i] = Idle /\ \A j \in Slots : j < i => task[j] # Idle

Handled == {task[i].card : i \in {j \in Slots : Handles(j)}}

LoadSteps == {"load", "loaded", "reload", "reloaded"}

OtherLoads(i) == {j \in Slots \ {i} : task[j].pc \in LoadSteps}

TypeOK ==
  /\ rows \in [Cards -> Row]
  /\ view \in View
  /\ queue \in Shelf /\ held \in Shelf /\ heldRef \in Shelf
  /\ busy \in Cards \cup {NoCard}
  /\ loadErr \in BOOLEAN
  /\ \A i \in Slots :
       \/ task[i] = Idle
       \/ /\ task[i] \in [pc : LoadSteps, view : View, got : Shelf]
       \/ /\ Handles(i)
          /\ task[i].pc \in LoadSteps \cup {"sent", "served", "counters"}
          /\ task[i].view \in View
          /\ task[i].kind \in {"label", "notag"}
          /\ task[i].card \in Cards
          /\ task[i].body \in Body
          /\ task[i].from \in Row /\ task[i].row \in Row
          /\ task[i].got \in Shelf
  /\ clicks \in 0..MaxClicks
  /\ faults \in 0..MaxFaults
  /\ astray \subseteq Cards /\ crossed \subseteq Cards
  /\ overtaken \in BOOLEAN
  /\ loaded \in SUBSET View

----------------------------------------------------------------------------
(* Loads: the callback load of the render it was created in                *)

(* For the history: what a load of view v sent by slot i meets on its way, *)
(* the view on screen being w.                                             *)
MetHandlers(i) == {task[j].card : j \in {k \in Slots \ {i} : Handles(k)}}

MayOvertake(i, v, w) == v # w \/ \E j \in OtherLoads(i) : task[j].view # v

NoteLoad(i, v, w) ==
  /\ astray' = astray \cup MetHandlers(i)
  /\ overtaken' = (overtaken \/ MayOvertake(i, v, w))

ServeLoad(i) ==
  /\ \/ task[i].pc = "load" /\ task' = [task EXCEPT ![i].pc = "loaded",
                                                   ![i].got = Answer(task[i].view)]
     \/ task[i].pc = "reload" /\ task' = [task EXCEPT ![i].pc = "reloaded",
                                                     ![i].got = Answer(task[i].view)]
  /\ UNCHANGED <<rows, screenVars, boundVars, ghostVars>>

MergedWithoutHeld(answer, only) == answer

(* Under only unlabeled the held rows the answer lacks are merged in.      *)
Merged(answer, only) ==
  [c \in DOMAIN answer \cup (IF only THEN DOMAIN heldRef ELSE {}) |->
     IF c \in DOMAIN answer THEN answer[c] ELSE heldRef[c]]

FinishKeepsBusy(i) ==
  /\ task' = [task EXCEPT ![i] = Idle]
  /\ UNCHANGED busy

(* setBusyId(null) of a handler's finally; a load of its own has none.     *)
Finish(i) ==
  /\ task' = [task EXCEPT ![i] = Idle]
  /\ busy' = IF Handles(i) THEN NoCard ELSE busy

LoadAnswered(i) ==
  /\ task[i].pc \in {"loaded", "reloaded"}
  /\ queue' = Merged(task[i].got, task[i].view.only)
  /\ Finish(i)
  /\ loaded' = {task[i].view}
  /\ astray' = astray \cup {c \in DOMAIN held \cup DOMAIN heldRef : heldRef # held}
  /\ UNCHANGED <<rows, view, held, heldRef, loadErr, boundVars, crossed, overtaken>>

(* A load of its own says so; one of a handler is tried once more in its   *)
(* catch, and given up in silence.                                         *)
LoadFails(i) ==
  /\ task[i].pc \in LoadSteps
  /\ faults < MaxFaults /\ faults' = faults + 1
  /\ \/ /\ ~Handles(i)
        /\ loadErr' = TRUE
        /\ Finish(i)
        /\ UNCHANGED <<astray, overtaken>>
     \/ /\ Handles(i) /\ task[i].pc \in {"load", "loaded"}
        /\ task' = [task EXCEPT ![i].pc = "reload"]
        /\ NoteLoad(i, task[i].view, view)
        /\ UNCHANGED <<busy, loadErr>>
     \/ /\ Handles(i) /\ task[i].pc \in {"reload", "reloaded"}
        /\ Finish(i)
        /\ astray' = astray \cup {task[i].card}
        /\ UNCHANGED <<loadErr, overtaken>>
  /\ UNCHANGED <<rows, view, queue, held, heldRef, clicks, crossed, loaded>>

----------------------------------------------------------------------------
(* Taps *)

(* The list is on screen, rendered, and the card's buttons are enabled.    *)
Tappable(c) ==
  /\ ~loadErr
  /\ heldRef = held
  /\ c \in DOMAIN queue
  /\ busy # c
  /\ clicks < MaxClicks /\ clicks' = clicks + 1

Tap(i, kind, c, body) ==
  /\ Tappable(c)
  /\ Free(i)
  /\ task' = [task EXCEPT ![i] = Handler(kind, c, body)]
  /\ busy' = c
  /\ astray' = astray \cup {d \in {c} : OtherLoads(i) # {} \/ c \in Handled}
  /\ crossed' = IF c \in astray \cup Handled THEN crossed \cup {c} ELSE crossed \ {c}
  /\ UNCHANGED <<rows, view, queue, held, heldRef, loadErr, faults, overtaken, loaded>>

TapPerson(i, c, p) == Tap(i, "label", c, [person |-> p])

ClearPerson(i, c) ==
  /\ Tap(i, "label", c, [person |-> Nobody])
  /\ queue[c].person # Nobody

(* The whole set of tags, built from the row on screen.                    *)
Toggled(row, tag) ==
  IF tag \in row.tags THEN row.tags \ {tag} ELSE row.tags \cup {tag}

TapTag(i, c, tag) == Tap(i, "label", c, [tags |-> Toggled(queue[c], tag)])

TapNoTag(i, c) ==
  /\ Tap(i, "notag", c, [tags |-> {}])
  /\ queue[c].tags # {}

(* dismissHeld: its updaters run at once in a click, later elsewhere.      *)
Dismissed(c) ==
  /\ held' = Without(held, c)
  /\ queue' = Without(queue, c)

(* Nothing to clear: the handler ends in the click it began in.            *)
FinishNoTag(c) ==
  /\ Tappable(c)
  /\ queue[c].tags = {}
  /\ IF view.only /\ queue[c].person # Nobody
       THEN Dismissed(c) /\ heldRef' = held'
       ELSE UNCHANGED <<queue, held, heldRef>>
  /\ busy' = NoCard
  /\ astray' = astray \cup ({c} \cap Handled)
  /\ UNCHANGED <<rows, view, loadErr, task, faults, crossed, overtaken, loaded>>

Done(c) ==
  /\ Tappable(c)
  /\ view.only /\ queue[c].person # Nobody
  /\ Dismissed(c) /\ heldRef' = held'
  /\ astray' = astray \cup ({c} \cap Handled)
  /\ UNCHANGED <<rows, view, busy, loadErr, task, faults, crossed, overtaken, loaded>>

StartsOldLoad(i, v) ==
  /\ Free(i)
  /\ loadErr' = FALSE
  /\ task' = [task EXCEPT ![i] = Load(view)]
  /\ NoteLoad(i, v, v)

(* The load of the render that shows view v.                               *)
StartLoad(i, v) ==
  /\ Free(i)
  /\ loadErr' = FALSE
  /\ task' = [task EXCEPT ![i] = Load(v)]
  /\ NoteLoad(i, v, v)

(* A new window or filter: an empty shelf and a load, in the click.        *)
ChangeView(i, v) ==
  /\ clicks < MaxClicks /\ clicks' = clicks + 1
  /\ v # view /\ (v.window = view.window \/ v.only = view.only)
  /\ view' = v
  /\ held' = Nothing /\ heldRef' = Nothing
  /\ StartLoad(i, v)
  /\ UNCHANGED <<rows, queue, busy, faults, crossed, loaded>>

Refresh(i) ==
  /\ clicks < MaxClicks /\ clicks' = clicks + 1
  /\ StartLoad(i, view)
  /\ UNCHANGED <<rows, view, queue, held, heldRef, busy, faults, crossed, loaded>>

----------------------------------------------------------------------------
(* handleLabel and handleNoTag after their awaits *)

ServeLabel(i) ==
  /\ Handles(i) /\ task[i].pc = "sent"
  /\ LET row == Patched(rows[task[i].card], task[i].body) IN
       /\ rows' = [rows EXCEPT ![task[i].card] = row]
       /\ task' = [task EXCEPT ![i].pc = "served", ![i].row = row]
  /\ UNCHANGED <<screenVars, boundVars, ghostVars>>

PersonSet(i) ==
  task[i].view.only /\ Sets(task[i].body, "person") /\ task[i].body.person # Nobody

PersonCleared(i) ==
  task[i].view.only /\ Sets(task[i].body, "person") /\ task[i].body.person = Nobody

QueueDropsLabelled(i) ==
  IF PersonSet(i) THEN Without(queue, task[i].card)
                  ELSE Update(queue, task[i].card, task[i].row)

QueueKeepsOldRow(i) == queue

(* The row on screen is replaced, never dropped.                           *)
QueueAfter(i) == Update(queue, task[i].card, task[i].row)

HeldByPersonOnly(i) ==
  IF task[i].kind = "label" /\ PersonSet(i) THEN Put(held, task[i].card, task[i].row)
  ELSE IF task[i].kind = "label" /\ PersonCleared(i) THEN Without(held, task[i].card)
  ELSE held

(* Held from its person on; a tag keeps the freshest server row.           *)
HeldAfter(i) ==
  LET c == task[i].card
      row == task[i].row IN
    IF task[i].kind = "label" /\ PersonSet(i) THEN Put(held, c, row)
    ELSE IF task[i].kind = "label" /\ PersonCleared(i) THEN Without(held, c)
    ELSE IF c \in DOMAIN heldRef THEN Update(held, c, row)
    ELSE held

LabelAnswered(i) ==
  /\ Handles(i) /\ task[i].pc = "served"
  /\ queue' = QueueAfter(i)
  /\ held' = HeldAfter(i)
  /\ task' = [task EXCEPT ![i].pc = "counters"]
  /\ UNCHANGED <<rows, view, heldRef, busy, loadErr, boundVars, ghostVars>>

(* The counters are refreshed (never an error); then a reload, or the end. *)
LabelEnds(i) ==
  /\ Handles(i) /\ task[i].pc = "counters" /\ task[i].kind = "label"
  /\ IF ~task[i].view.only \/ PersonCleared(i)
       THEN /\ task' = [task EXCEPT ![i].pc = "load"]
            /\ UNCHANGED busy
            /\ NoteLoad(i, task[i].view, view)
       ELSE Finish(i) /\ UNCHANGED <<astray, overtaken>>
  /\ UNCHANGED <<rows, view, queue, held, heldRef, loadErr, boundVars, crossed, loaded>>

(* A card that has its person is finished by 不标.                         *)
NoTagEnds(i) ==
  /\ Handles(i) /\ task[i].pc = "counters" /\ task[i].kind = "notag"
  /\ IF task[i].view.only /\ {task[i].row.person, task[i].from.person} # {Nobody}
       THEN Dismissed(task[i].card)
       ELSE UNCHANGED <<queue, held>>
  /\ Finish(i)
  /\ UNCHANGED <<rows, view, heldRef, loadErr, boundVars, ghostVars>>

(* The request or its answer is lost, or refused: the catch reloads.  That *)
(* does not help a held card: its row is merged in as it was before.       *)
LabelFails(i) ==
  /\ Handles(i) /\ task[i].pc \in {"sent", "served"}
  /\ faults < MaxFaults /\ faults' = faults + 1
  /\ task' = [task EXCEPT ![i].pc = "reload"]
  /\ astray' = astray \cup MetHandlers(i)
                     \cup {c \in {task[i].card} \cap DOMAIN held : task[i].pc = "served"}
  /\ overtaken' = (overtaken \/ MayOvertake(i, task[i].view, view))
  /\ UNCHANGED <<rows, view, queue, held, heldRef, busy, loadErr, clicks, crossed, loaded>>

(* React renders: the updaters run and write heldRef.                      *)
Render ==
  /\ heldRef # held
  /\ heldRef' = held
  /\ UNCHANGED <<rows, view, queue, held, busy, loadErr, task, boundVars, ghostVars>>

----------------------------------------------------------------------------

(* The page has just been opened; some cards may have labels already.      *)
Init ==
  /\ rows \in FirstRows
  /\ view = [window |-> FirstWindow, only |-> TRUE]
  /\ queue = Nothing /\ held = Nothing /\ heldRef = Nothing
  /\ busy = NoCard
  /\ loadErr = FALSE
  /\ task = [i \in Slots |-> IF i = 1 THEN Load(view) ELSE Idle]
  /\ clicks = 0 /\ faults = 0
  /\ astray = {} /\ crossed = {} /\ overtaken = FALSE /\ loaded = {}

Click(i) ==
  \/ \E c \in Cards, p \in People : TapPerson(i, c, p)
  \/ \E c \in Cards : ClearPerson(i, c)
  \/ \E c \in Cards, tag \in Tags : TapTag(i, c, tag)
  \/ \E c \in Cards : TapNoTag(i, c)
  \/ \E v \in View : ChangeView(i, v)
  \/ Refresh(i)

(* What the server, the network and React do without the user.             *)
Step(i) ==
  \/ ServeLoad(i)
  \/ LoadAnswered(i)
  \/ ServeLabel(i)
  \/ LabelAnswered(i)
  \/ LabelEnds(i)
  \/ NoTagEnds(i)

Next ==
  \/ \E i \in Slots : Click(i) \/ Step(i) \/ LoadFails(i) \/ LabelFails(i)
  \/ \E c \in Cards : FinishNoTag(c) \/ Done(c)
  \/ Render

(* Every request is answered or fails; nobody has to tap.                  *)
Spec == Init /\ [][Next]_vars /\ \A i \in Slots : WF_vars(Step(i)) /\ WF_vars(Render)

----------------------------------------------------------------------------
(* Properties *)

(* Nothing is under way and the last render is done.                       *)
AtRest == heldRef = held /\ \A i \in Slots : task[i] = Idle

(* busyId names a card only while a handler of that card runs: no way out  *)
(* of handleLabel or handleNoTag leaves its buttons disabled.  It says     *)
(* nothing of buttons enabled again too early, which they may be.          *)
BusyHandled == busy # NoCard => busy \in Handled

(* A held card is on screen, so that its tags can be tapped and it can be  *)
(* finished, unless a late answer of another view replaced the queue, or   *)
(* the card was labelled or finished while a load or another handler of it *)
(* was under way (it is astray).                                           *)
HeldShown == \A c \in DOMAIN held \ astray : overtaken \/ c \in DOMAIN queue

(* Types; the disabled card and the held cards are accounted for.          *)
OrganizeInv == TypeOK /\ BusyHandled /\ HeldShown

(* No stale row: a card on screen, and its held copy, are what the server  *)
(* has, except while a handler of the card runs, and for cards astray: an  *)
(* answer or a handler that overlapped a labelling of that very card may   *)
(* leave its old row.  A held card has its person.                         *)
RowsCurrent ==
  heldRef = held =>
    \A c \in Cards \ (astray \cup Handled) :
      /\ c \in DOMAIN queue => queue[c] = rows[c]
      /\ c \in DOMAIN held => held[c] = rows[c] /\ held[c].person # Nobody

(* No card is missed: when everything has come to rest without an error,   *)
(* the queue was loaded for the window and filter on screen and has every  *)
(* card the server would list for them, except a card astray.  A load that *)
(* may have been answered after one of a newer view (overtaken) can leave  *)
(* that older view's queue, which is then not the one on screen.           *)
NothingMissed ==
  AtRest /\ ~loadErr =>
    /\ loaded = {view} \/ overtaken
    /\ loaded = {view} => \A c \in DOMAIN Answer(view) \ astray : c \in DOMAIN queue

(* The card has its person, or a handler of this view is about to give it. *)
Given(c) ==
  /\ view.only
  /\ \/ c \in DOMAIN held
     \/ \E i \in Slots : /\ Handles(i) /\ task[i].card = c /\ task[i].view = view
                         /\ task[i].pc \in {"sent", "served"} /\ PersonSet(i)

FinishedByUser(c) ==
  Done(c) \/ FinishNoTag(c) \/ \E i \in Slots : NoTagEnds(i) /\ task[i].card = c

(* A card never vanishes under the user's finger on its person being given *)
(* (App.jsx:690, "never drop on person assign"): it leaves the screen when *)
(* the user finishes it, or by the answer of a load of another view, or of *)
(* a load that comes before the hold is rendered and so overlapped the     *)
(* giving: that one does drop it.  The hold itself is there as soon as the *)
(* label is answered, and ends when the user finishes the card, clears the *)
(* person or changes the view.                                             *)
KeptUntilDone ==
  [][\A c \in Cards :
       /\ Given(c) /\ c \in DOMAIN queue /\ c \notin DOMAIN queue' =>
            \/ FinishedByUser(c)
            \/ \E i \in Slots : /\ LoadAnswered(i)
                                /\ task[i].view # view \/ c \notin DOMAIN heldRef
       /\ c \in DOMAIN held /\ c \notin DOMAIN held' =>
            \/ FinishedByUser(c)
            \/ view' # view
            \/ \E i \in Slots : LabelAnswered(i) /\ task[i].card = c /\ PersonCleared(i)
       /\ \A i \in Slots :
            LabelAnswered(i) /\ task[i].card = c /\ PersonSet(i) => c \in DOMAIN held']_vars

(* A tap on a tag changes that one tag on the server and takes no other    *)
(* away, though the request carries the whole set of the row on screen,    *)
(* and whatever loads overlap it: when nothing else of the card was under  *)
(* way at the tap, nor is tapped before it is served, and the row was not  *)
(* astray before.  A button enabled too early, by the end of another       *)
(* card's handler, does send an outdated set.                              *)
OneTagPerTap ==
  [][\A i \in Slots :
       /\ ServeLabel(i) /\ Sets(task[i].body, "tags") /\ task[i].kind = "label"
       /\ task[i].card \notin crossed
       => LET c == task[i].card
              new == rows'[c].tags
              old == rows[c].tags IN
          Cardinality((old \ new) \cup (new \ old)) = 1]_vars

(* The buttons of a card are always enabled again.                         *)
BusyEnds == \A c \in Cards : busy = c ~> busy # c

=============================================================================
