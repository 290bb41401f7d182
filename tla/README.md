# CashPulse, specified

CashPulse turns bank SMS into a household ledger: a Go server in front of one
SQLite file, a React client, and two small commands. This directory holds TLA+
modules for the parts of it that keep state, TLC configurations that check them
on small instances, and TLAPS proofs of their main properties for every
instance. Paths below are relative to the repository (`src/` in PROJECT.json).

## 1. The system

### Components

| component | code | state | operations |
|---|---|---|---|
| SMS ingestion | `internal/service/service.go`, `internal/store/store.go` | `raw_sms`, `transactions` | `IngestSMS`, `PersistIngestResult`, recovery of old pending rows |
| Labels | `internal/store/labels.go`, rules in `internal/store/features.go`, `Service.BulkLabel` | `people`, `tags`, `transactions.person_id`, `transaction_tags`, `label_rules` | create and delete people, tags and rules, label one or many transactions, `ApplyRulesToTxn`, seeding |
| Login and sessions | `internal/auth/session.go`, `internal/api/auth.go`, `internal/store/sessions.go` | failure counters and lock in memory, `sessions` | login, sliding expiry, logout |
| Budgets | `internal/store/features.go` | `budgets` | `UpsertBudget`, `DeleteBudget`, listing with spending |
| Goals and digest | `internal/store/features.go` | `goals` | create, delete, list against the latest balance |
| Analytics, home payload | `internal/store/analytics.go`, `Service.Bootstrap` | none of its own | windows, totals, curves, shares and top lists, query by query |
| Migration | `Store.migrate`, `migrateFeatures`, `seedLabels`, `backfillKindAndNorm` | the schema | run at every start, statement by statement |
| Parser and classifier | `internal/parser`, `internal/classify` | none | message text to verdict, amount, merchant, category |
| API wiring, configuration | `internal/api`, `internal/config` | none | routing, decoding, tokens |
| Commands | `cmd/server`, `cmd/import`, `cmd/parsecheck` | none | serve; submit a file of messages; show what the parser says |
| Web client | `web/src/App.jsx`, `web/src/api/client.js`, `web/src/lib/format.js` | React state and refs, the stored token | signing in and out, numbered loads, unnumbered refreshes, search, paging, settings, the organise inbox |
| Scratch card, charts | `web/src/components` | two timers, a canvas and its states; charts none | strokes that uncover the balance, timers that cover it again |

### How they interact

Every request runs in a goroutine of its own. All of them reach the database
through one pooled connection (`SetMaxOpenConns(1)`, store.go:36), so a
statement is atomic and an open transaction keeps everybody else waiting; what
interleaves is the statements of handlers that need more than one of them. The
login guard is shared memory under a mutex. Ingestion calls the rules of the
label component after its commit. Deleting a person cascades into budgets, and
into labels and rules by `SET NULL`. Sessions live in the database and survive
a restart; the guard does not. `cmd/import` opens the same file in a process of
its own. The client refreshes several views by concurrent requests.

### What is hard, and what makes each part correct

* **Ingestion.** Phones retry, two requests may carry the same message, each
  statement may fail (many errors are ignored on purpose), the server may stop
  anywhere, and old databases hold rows written by earlier versions. Correct
  means: one transaction per message body, raw status and booked transaction
  agree, "ok" is only answered for booked money, history is only added to, and
  no handler waits for a connection it holds itself.
* **Labels.** Deletions, bulk edits and rule application check first and write
  later. Correct means: nothing refers to a person or tag that is gone, and
  rules only add to what they have read.
* **Login.** Attempts sleep between the guard and the password check; session
  extension is a read and a write. Correct means: locks hold for their time,
  nobody is let in under a lock, sessions come only from logins, and dead ones
  do not come back.
* **Budgets.** Update, insert and select are separate statements, and SQL's
  UNIQUE does not see NULL persons. Correct means: one budget per month, kind
  and person (which overlapping upserts of the household's break), none for a
  deleted person, and an answer that describes the row.
* **Analytics.** The home payload is a dozen queries with no transaction around
  them, cut at days that are resolved from dates in any order, a number of days
  or "all", and it looks at the clock twice. Correct means: the range is the one
  asked for, what breaks it down adds up to it, and the digest, the compared
  range and the budgets tell the same story.
* **Migration.** The statements of a start commit one by one, may be cut off
  after any of them, and may run in the server and in an import at once. Correct
  means: whoever has opened the store finds it complete, and no start leaves a
  database that refuses every later one.
* **Client.** Every handler closes over the state of the render it was made in,
  awaits one or more answers, and writes into one shared state; answers come in
  any order or not at all, and only loads are numbered. Correct means: what is
  shown in the end is what was chosen last, a list has neither gaps nor
  repetitions, spinners tell the truth, what one handler has fetched is not lost
  to another, and after a logout a late answer does not keep the page signed in.
* **Organise inbox.** Cards that got their person are kept in a ref that is
  written when React runs updaters, and merged into what reloads bring. Correct
  means: no row on screen is stale, no card vanishes before it is finished, none
  is missed, a tap on a tag changes that tag only; where handlers and loads of a
  card overlap, some of this fails, and the properties name which.
* **Scratch card.** Strokes, two chained timers, animation frames, renders and
  new balances. Correct means: the balance is covered again, in time, and the
  card never gets stuck.

The list `hazards` of PROJECT.json gives each of these at its line with the
properties that cover it.

## 2. The modules

| module | models | proofs |
|---|---|---|
| `Ledger` | the promise of ingestion: outcomes, entries and answers per body, with no requests, statements or connection | |
| `Ingest` | `IngestSMS`, `PersistIngestResult` and recovery; proved to implement `Ledger` | `IngestProofs` |
| `Labels` | labelling, deletion, rules, bulk edits | `LabelsProofs` |
| `LoginGuard` | `auth.LoginGuard`, one action per method | |
| `Auth` | login, sessions and logout, composed with `LoginGuard` | `AuthProofs` |
| `Budgets` | upserts and deletions | `BudgetsProofs` |
| `Analytics` | the home payload, part by part, over a ledger that grows | `AnalyticsProofs` |
| `Migration` | opening the store: the statements of `migrate`, by several processes | `MigrationProofs` |
| `Client` | `App`, `useAuth`, `LoginPage` and the API client against a server with sessions, transactions and settings | `ClientProofs` |
| `Organize` | the component `Organize` against a server of rows | `OrganizeProofs` |
| `Scratch` | the component `BalanceScratch`; its `CardSpec` and the client's `Spec` share one proof module | `ClientProofs` |
| `MCIngest`, `MCLabels`, `MCAuth`, `MCBudgets`, `MCAnalytics`, `MCMigration`, `MCClient`, `MCOrganize`, `MCScratch` | the instances TLC checks | |

**Correspondence.** A table is a function or a sequence of rows (a row's id is
its position). A handler is a slot `h` or `r` with a program counter `pc` whose
values name the next statement; its local variables are functions of the slot.
An action is one statement, or one database transaction of `Labels` that reads
and writes nothing but its own rows: on a single connection nobody runs between
its statements, and a failure rolls all of it back, which is the same as the
request not having happened. In `Ingest` the transaction of
`PersistIngestResult` is modelled statement by statement all the same (`conn`,
`staged`), because how it holds and frees the connection is the point there.
Refused requests that change nothing are left out.

* `Ingest`: `BeginTx` ... `Commit` and `FindDuplicate` ... `CommitDuplicate` are
  `PersistIngestResult`; `Respond` and `Recover...` are the rest of `IngestSMS`;
  `PersistFails`, `IgnoredFailure` and `RecoveryFails` are its error paths, those
  that answer an error and those the code drops; `Restart` loses handlers and
  the open transaction. The parser is the constant `Verdict`; a text is a body
  and the form it is written in, and the fingerprint forgets the form.
* `Labels`: `ReadOwner`, `ReadTags`, `ReadRules`, `ApplyRules` are
  `ApplyRulesToTxn`; `DeletePerson` and `RemovePerson` its two statements, the
  first of which may fail unnoticed; `CheckPerson`, `SetOwners`, `CheckTag`,
  `AddTag` are `BulkLabel`.
* `Auth`: `Login` is the guard's `Allow` at arrival, `WrongPassword` and
  `RightPassword` what happens after the sleep; `ReadLive`/`Slide` and
  `ReadExpired`/`Purge` are the two statements of `Valid`. `admitted` is a
  history variable. Time is the counter `now`.
* `Budgets`: `UpdateFirst`, `SelectId`, `Insert` are the three statements of
  `UpsertBudget`, `UpsertFails` the failure of any of them; `crossed`, a history
  variable, marks an upsert whose key another one wrote after its update. What is
  listed beside a budget, the money spent, is a part of `Analytics`; its month
  is the client's or, without one, that of the process's clock
  (handlers.go:254) where the other parts use the configured zone: the model has
  one calendar for both.
* `Analytics`: `Ask` is the handler and `resolveAnalyticsWindow`, each `Read` one
  query of `Store.Analytics`, `Store.Digest` or `ListBudgets` in their order
  (`Parts`); `Span`, `Selects` and `LabelOf` are the query's WHERE and GROUP BY.
  A part is a function from its labels (days, months, channels) to the
  transactions summed up there, so that "the parts add up" is equality of sets;
  `at` remembers, for the properties, what had been booked when it was read.
  Left out: the part of categories (another GROUP BY) and that of persons, the
  top lists, and the period the client gives for the budgets when its range is
  a custom one.

* `Migration`: `Script` lists the statements of `migrate` in their order and
  `pc` is the place in it. `Create` is a CREATE IF NOT EXISTS; `LookForColumn`
  and `AddColumn` are `columnExists` and the ALTER; `CountNames` and
  `InsertName` are `seedLabels`; `ListUnclassified` and `Classify` are
  `backfillKindAndNorm`. `Refused` is a statement the database refuses for what
  others have done, `Fail` any other error or a kill, `Overlook` the two errors
  the code drops. Here each process has its own connection, so whole statements
  of two processes interleave; a wait for SQLite's lock that ends in "busy" is
  a `Fail` or an `Overlook`. The tables and indexes of one group, and the five
  columns of `transactions`, count as one object: each is made if it is missing,
  so a half made group is finished as it stands. Of people and tags only names
  matter; removing transactions is left out.
* `Client`: a handler is a slot with its request, the credentials it carries and
  what it closed over; `Check` and `Extends` are the two statements of `Valid`,
  between which a logout may fall, `Serve` the server's answer, with the cookie
  it sets again (`TakeCookie` is the browser's half of that), `Break` a
  lost request or answer, `...Answered`, `LoadSucceeds`, `LoadFails` and
  `LoadSuperseded` what the handler does after its await. `loadSeq` is the mark
  `newest`, which a new load takes from the others. An effect runs in the step
  that renders its dependencies, so `SignedIn` and `ChoosePeriod` start the load
  of the effect at App.jsx:1257. `Brought` is the whole state a load writes:
  rules, goals and cards of a plain load are the old ones it closed over. The
  analytics, digest and budgets of one answer are `data.of`, the month they were
  asked for; rules, goals and cards are one version number. `left`, `searched`
  and `raced` are history variables.
* `Organize`: the same, for `load`, `handleLabel` and `handleNoTag`. `held` and
  `heldRef` are two variables because updaters write the ref when React runs
  them (`Render`); in a click they run before it ends. `Handler` carries the row
  and the view of the render in which it was tapped. `astray`, `crossed`,
  `overtaken` and `loaded` are history variables.
* `Scratch`: a timer is a record with its remaining ticks and whether a ref still
  holds its id, so that "clearTimeout reaches it" is a property and not assumed;
  `ui` is the state with queued updates, `rendered` what the handlers of the last
  render read.

Some definitions are preceded by a variant of themselves that nothing uses
(`CommitPending` before `Commit`, `RowOnly` before `RemovePerson`).
They are the mistakes the properties are tried against: PROJECT.json pairs each
property with the variant that breaks it.

## 3. What TLC checks

| run | instance | checks |
|---|---|---|
| `ingest` | 2 handlers, 3 bodies (one parses, one is ignored, one is pending from an earlier version, in up to 2 forms each), under fairness | `IInv`, `OncePerBody`, `StatusMatchesBooks`, `TruthfulReply`, `HistoryKept`, refinement of `Ledger`, and that every submission is answered |
| `ingest_stranded` | as `ingest` | finding 1 |
| `labels` | 2 handlers, 2 people, 2 tags, 2 rules, 1 transaction | `ReferencesLive`, `RulesOnlyAdd` |
| `auth` | 2 handlers, 2 addresses, 1 session, lock after 2 failures | `TypeOK` with the bound of the global count, `OnlyIssued`, `LockedOut`, `DeadStaysDead`, `LocksHold` |
| `budgets` | 2 upserts at a time, 1 person, 2 periods, 2 amounts, 3 rows | `SecondOnlyByRace`, `NoOrphanBudget`, `AnsweredIsStored` |
| `budgets_duplicate` | as `budgets` | finding 2 |
| `analytics` | a day of one month and two of the next, 2 classes of transactions, 2 booked, 2 filters, daily curve of 2 days, 1 channel listed | `RangeIsAsked`, `PartsAgree`, `PrevAdjoins`, `DigestAgrees`, `BudgetsAgree` |
| `analytics_preset` | as `analytics` | finding 3 |
| `migration` | server and import, 2 default people and 1 tag, 2 transactions, 2 faults, under fairness | `MigrationInv`, `ServedComplete`, and that the server comes to serve |
| `organize` | up to 3 handlers and loads at a time, 2 cards, 1 person, 2 tags, 3 taps, 1 lost request, under fairness | `OrganizeInv`, `RowsCurrent`, `NothingMissed`, `KeptUntilDone`, `OneTagPerTap`, and that buttons are enabled again |
| `client` | 2 handlers at a time, 3 taps, 1 lost request, 2 months, 2 to 3 transactions on pages of 1, a search term, a session or none | `ClientInv`, `ShownIsChosen`, `ListContiguous`, `ExtrasKept`, `LogoutSticks` |
| `scratch` | any order of strokes, timers, frames, renders, balances and page changes, under fairness | `ScratchInv`, `PeekIsShort`, and that a card that shows something is covered again |

**Bounds.** Two handlers are enough for each race on the server: every one of
them is between two requests, and a third can only repeat one of the two roles.
Two forms of a body are what tells a normalised fingerprint from a literal one.
The `old` body parses in one form and fails in the other, so that a resubmission
may or may not recover. Two rules, one with a person and a tag and one with a
person only, are what "first matching rule" needs. `MaxGlobalFails` and
`MaxIPFails` are 2 (8 and 20 in the code); the lock and the window last 2 ticks
(30 minutes and 1 hour), so that a lock outlives the tick that set it, and
`Horizon` = 5 leaves time for a window and for twice its length, when addresses
are forgotten. `MaxRows` = 3 in `Budgets` bounds rows ever inserted: two of one
key and one of another, or one that comes after a deletion; two amounts tell two
upserts apart. One session id suffices because no action touches two. `Horizon`
and `MaxRows` are the bounds in the guards of these modules. In `Analytics`
three days over a month's end give every order of two dates and today, ranges
shorter and longer than the curve, and ranges wholly ahead; of two transactions
one can be booked between two queries, and their two channels compete for the
one that is listed. Its bounds are `LastDay` and `MaxTxns`. `Migration` starts
from every database that a first part of `Script` leaves, with any names and up
to `MaxTxns` = 2 transactions, of one message or of two, classified or not; two
processes are what a refused ALTER or INSERT takes, and `MaxFaults` = 2 lets a
start be cut off and the next one overlook an error. In `Organize` three slots
(`Slots`) are a card's handler, another card's handler that enables its buttons
again, and a second handler or a load of the first card; two tags tell a tap
that sets one from a set that takes the other away; one card is of today and
both are of the week, so that windows differ and contain one another; three taps
(`MaxClicks`) label a card, tag it and finish it or change the view, and one
lost request (`MaxFaults`) can fall anywhere. In `Client` two slots are two
handlers, two loads or one of each; two months (`Now` = 2) have a first and a last; pages of one transaction make
two or three transactions (`MaxStock`) a list of several pages that grows while
it is read, and the search term matches some of them. The theorems have no such
bounds. `Scratch` has no bound: its timers expire. Its delays are 5 and 2 ticks
(1800 and 320 ms), the outer one longer as in the code, so that a stroke can
fall before, between and after the two. Symmetry is used for handlers, addresses
and ids, never in the runs that check liveness (`ingest`, `migration`,
`organize`, `scratch`) nor in `analytics` and `client`.

**Fairness.** `FairSpec` of `Ingest` assumes, for each handler, strong fairness
of its next step. The Go scheduler runs every runnable goroutine, and
`database/sql` serves waiters for a connection first come, first served, so a
handler that waits while others come and go gets its turn; weak fairness would
not say so, since the connection is taken again and again meanwhile. Nothing is
assumed of clients, failures or restarts. `FairSpec` of `Migration` assumes that
a server that is down is started again and that its statements get on. A start
that fails exits with status 1 (`cmd/server/main.go`), and
`deploy/cashpulse.service` has `Restart=on-failure` and `RestartSec=3`, which
stays below systemd's default limit of 5 starts in 10 seconds. A server stopped
on purpose is not meant. Nothing is assumed of the import. `Organize` assumes,
for each slot, weak fairness of what does not need the user: a request is
answered or fails, the handler goes on after its await, and React renders.
Nobody has to tap, no request has to fail. `Client`, like the modules not named
here, checks no liveness and assumes no fairness. `Scratch` assumes that the
browser serves due timers, requested frames and pending renders and that time
passes; nobody has to lift the finger.

### Findings

1. `NoStrandedPending`: recovery books a transaction (service.go:196) and marks
   the row in a second statement whose error is dropped (197). Stopped or failed
   in between, the row stays pending with a transaction, and later submissions
   no longer recover it. The acceptance review asks for no visible half commit.
2. `OneBudgetPerKey`: two overlapping upserts of the household's budget both find
   no row to update (features.go:166) and both insert (188); UNIQUE counts their
   NULL persons as different. The comment at features.go:164-165 speaks of "a
   true upsert" and features_test.go:28-29 of a global budget that must not be
   duplicated.
3. `PresetIsShown`: the buttons 7/15/30/90 days of the analysis page set a number
   of days, but every load adds the current month, `api.bootstrap` sends the
   month in place of the days, and the server answers with the month.

### Disagreements without a run of their own

What the code does here contradicts a promise of the repository too. The models
have the behaviour and the properties exclude it by name:

* With `only_unlabeled`, the tag half of a bulk edit selects by
  `person_id IS NULL` after the person half has set it (service.go:388-402), and
  tags nothing, where service.go:359 promises both for the matching rows. It is
  `SetOwners` and then `AddTag` of `Labels`, of a single request. The web client
  never sends one.
* A request for dates that lie wholly ahead is answered with today's
  transactions. The comment at analytics.go:357 says "empty", and
  ACCEPTANCE_REVIEW_2026-07-18.md:197-201 asks for an error or nothing.
  `RangeIsAsked` leaves such requests out (`WhollyAhead`).
* "never drop on person assign" (App.jsx:690): a load of the same view that was
  sent before the label, and answered before the hold is rendered, drops the
  card. `KeptUntilDone` names that load; the hold itself stays, and the next
  load brings the card back.
* The buttons of a card under way are disabled, so that a change is not tapped
  twice (App.jsx:851, REVIEW_REPORT.md:359), but there is one `busyId`: the tap
  on a second card, or its end, enables those of the first, whose second tap
  sends the set of tags of a row that is not up to date. `OneTagPerTap` speaks
  of cards that nothing crossed.

### What the properties excuse

Some behaviour of the code is less than one would wish and contradicts no
promise of the repository. The properties state what holds all the same; a
constant, an assumption or a history variable names each exception.

On the server:

* Rows from before the fingerprint column keep the empty fingerprint, which the
  unique index leaves out: an old message submitted again is booked again.
  `OncePerBody` is about databases where every legacy row has its fingerprint.
* A session read before a logout and extended after it (session.go:107, 126) is
  written back by the upsert, and the logout undone. `DeadStaysDead` speaks of
  sessions with no extension under way.
* Attempts that have passed the guard before the lock falls check their password
  under it. `LockedOut` says that there are no others; how many they are nothing
  bounds.
* A tag given between the read and the write of `ApplyRulesToTxn` is lost, and so
  is an owner given after a read that found none. `RulesOnlyAdd` keeps what was
  read.
* A second budget of a household key comes from a race only, and of two upserts
  of one key that overlap, the answer of the earlier may speak of the later one's
  amount (`crossed`).
* A request for all time when every transaction lies ahead shows the daily curve
  of a range that the totals do not have; `PartsAgree` leaves it out. Budgets
  count what went out, without the refunds that the headline expense subtracts:
  `BudgetsAgree` compares the rows that went out.
* The digest looks at the clock again: `DigestAgrees` is about both looks on one
  day.

In the inbox (`astray`, `crossed`, `overtaken`):

* A load sent before a label request and answered after it brings the old row
  back, and so may a second handler of the card. `RowsCurrent`, `HeldShown` and
  `NothingMissed` leave that card out until a load of its own is through.
* Loads are not numbered: that of an earlier window or filter, answered last,
  replaces the queue and stays until the next load.
* A label answered after a change of window holds a card that window never had.
* After a lost answer the reload merges in the held row as it was before.

In the rest of the client (`raced`):

* `refreshCounters` and settings edits use the period and the search of the
  render they started in, and are not numbered.
* A search that overlaps a load, or another search, may be answered last.
* Load-more appends to whatever list is shown when it is answered.
* A plain load restores the rules, goals and cards of the render it started in.
* An answer that is processed after a logout shows the pages once more and, where
  it was admitted, sets the session's cookie again (auth.go:79, 152): the page
  stays until the load it starts is refused. Where a request had been found valid
  before the logout and extends after it, the session is back as well, and the
  logout undone for good: for `LogoutSticks` the user is back then (`left`).
* A failed `me` leaves password login off: the page says it cannot sign in.
* A login answered on a page that a late load has signed in already hides the
  error of a load that failed meanwhile.

## 4. What is proved

Each proof module shows an inductive invariant, for every value of the
constants that meets the named assumptions, and derives the properties from it.

* **Ingest** (`IngestAssumption`: the parser is a function into ok, failed and
  ignored; the legacy database obeys the unique indexes and matches statuses to
  transactions). None of the properties is inductive: that a fresh insert keeps
  bodies unique depends on the fingerprint having been free when it was looked
  up and nobody having committed since. `TransactionInv` says this (the
  connection is held exactly by the handler inside its transaction, and what is
  staged follows from how far it is), `MemoryInv` that what handlers remember
  stays true of rows that only grow, `RowsInv` that the indexes hold. From `IInv`
  follow `BookedOnce` (where every legacy row has a fingerprint), `StatusesMatch`,
  `RepliesTruthful` and `HistoryIsKept`.
  `LedgerImplemented` is the refinement: `Init` maps to the ledger's, and every
  step under `IInv` to an action of the ledger or a stutter. Only `Commit` and
  the statements of recovery move the books, only `Respond` the answers; what is
  staged in an open transaction does not show. It needs two facts more than
  `IInv`: a report claims no more than the books have (`ReportInv`), and a
  recovery has read the books as they were (`BooksRead`).
  `HandlersAdvance` and `NobodyWaitsForItself` are the part of "every submission
  is answered" that needs no fairness: the statements a handler may still take
  become fewer with each of its steps (`Remaining`), and one that waits for the
  connection waits for another handler in the middle of its transaction, which
  waits for nobody.
* **Labels** (`LabelsAssumption`). `ReferencesLive` needs only that a handler in
  the middle of an operation has that operation's arguments (`JobInv`);
  `RulesAlwaysAdd` needs that a pending write contains what was read (`EditInv`).
* **Auth** (`GuardAssumption`, `AuthAssumption`). `AuthInv` ties what each
  sleeping handler knows to the guard and the sessions: sessions and those about
  to be extended were issued, and a handler admitted when no lock was set was
  admitted no later than the failure that set it.
* **Budgets** (`BudgetsAssumption`). All three properties of the run are theorems,
  for any number of overlapping upserts. `FoundInv` says what an upsert may rely
  on: what it found out at its update is still so unless another upsert of its
  key has written since (`crossed`), because deletions only take rows away. A
  person's second budget is refused by UNIQUE whatever was found.
* **Analytics** (`AnalyticsAssumption`: months follow each other, the limits are
  not 0). All five properties of the run are theorems. None is inductive: they
  need that the window resolved in `Ask` holds exactly the asked days
  (`WindowInv`), that each part counts what its query selects of the
  transactions booked when it was read, and keeps counting it, since booking
  only appends (`PartsRight`), and that later parts have seen at least as much
  of the ledger (`Growing`). "The parts add up" is then a comparison of two
  selections. `PartSeq` and `IdleInv` say that parts form a sequence and exist
  only for a request.
* **Migration** (`MigrationAssumption`). `OpenedComplete` is not inductive: that
  nothing is missing at the end needs, for a process at any statement, that what
  the statements before it make exists (`Made`), and during the backfill that
  its list holds every unclassified transaction, whatever the other process
  classifies or books meanwhile. `MigrationInv` says this.

* **Organize** (`OrganizeAssumption`: the first rows of a card, the windows and
  the bounds have their types). No property is inductive. A row on screen is
  fresh if the load or the answer that brought it was, so the invariant
  follows a row on its way: what a load under way will be answered with
  (`GotCurrent`), the queue (`QueueCurrent`), the held cards and the ref
  (`HeldCurrent`, `RefAgrees`), and the row a handler carries from the render it
  was tapped in (`RowFresh`). Each of these holds outside `astray` and
  `overtaken` only, and why these sets are enough is what `Alone`,
  `NoOtherLoad` and `Overtakes` say: a card outside `astray` has at most one
  handler, which shares its time with no load that could bring an older row.
  The two action properties do not need `astray`. `HeldCardsStay` looks at every
  handler and names the load that drops a card whose hold is not rendered.
  `TagTapsAreExact` has an invariant of its own, `TapsInv`: a card that is not
  in `crossed` has one handler, whatever loads there are, and a tap on a tag of
  it asks for the server's own tags with that tag toggled.
  `AllShown` and `SomeLoad` give `NothingMissed`: what the server lists is on
  screen or a load that will bring it is under way.
* **Client** (`ClientAssumption`: any searches and what they match, any page size,
  any slots and bounds). `ClientInv` is inductive as it stands; `RestShowsChosen`,
  `PagesJoin` and `ExtrasNotLost` follow from its parts, none of which speaks of
  a page at rest. `SpinnersTrue` says there is one newest load at most, and that
  it is what the bar shows. `PeriodLoaded` and `SearchLoaded` follow the chosen
  period and search on their way: the page shows them, or the newest load, or
  the search under way, brings them, and every load repeats the search on screen.
  `PagesFit` says that an answer is the page asked for and that a load-more
  starts where the list ends, unless the list was replaced meanwhile;
  `ListContiguous` then is the lemma that adjoining pages make a longer prefix
  (`PageExtends`), over the lemma that a listing holds each match once, newest
  first (`MatchesListed`, which counts places because it cannot recurse).
  `ExtrasHeld` says that a handler which will write rules, goals and cards has
  those on screen or newer ones, unless two such handlers met (`Races`).
  `SettingsCounted` is why nobody has settings newer than the server's.
  `LogoutIsFinal` stands on top of `ClientInv`: once the user has left, the
  browser has no token, and a page that a late answer brings back has a newest
  load under way that carries none. Only a check that finds the session, or a
  login, gives that load an answer, and both mean that the user is back.
  What one action leaves alone is stated once (`OthersKept`, `QuietTurn`,
  `LoadStarts`), then there is one lemma for each action.
  The invariant was first not inductive where two losses meet a late login
  answer, beyond the bounds of the run: the login clears the error of a failed
  load, and the page rests on the old period without one. The code does that;
  the history variable now says so (see above).
* **Scratch** (`DelaysAssumption`: the inner delay is positive and shorter than
  the outer). `ScratchCorrect` says that whenever something shows, a frame or a
  timer is pending that will cover it, that every timer which can fire is one
  `clearTimers` reaches, and that a card at rest is covered. It is the safety
  half of "the balance is covered again". `PeekShort` bounds the time by the two
  delays; it follows from what remains on the pending timers (`SealPending`).

**Only model-checked:** `EverySubmissionAnswered`, `ServerServes`, `BusyEnds` and
`Reseals`: liveness under fairness, and ENABLED, are out of the prover's reach.
Every invariant and every action property of the passing runs is a theorem, as
is the refinement; `OncePerBody` under the condition that the run meets too. The
safety half of three of the four is proved with the rest: the two theorems above
for `EverySubmissionAnswered`, the handler of a disabled card (`OrganizeInv`) for
`BusyEnds`, `SealPending` for `Reseals`; `ServerServes` rests on restarts, which
only fairness brings. The properties of the three findings are violated, and
stay with TLC.

## 5. Not modelled, and why

* The parser and the classifier: regular expressions over the text of messages,
  without state. No property depends on amounts, merchants and categories;
  `Ingest` takes the verdict, and `Analytics` any day, as given.
* Sums, shares and roundings: `Analytics` stops at which transactions are
  summed. Daylight saving (the default zone has none) and the balance curve,
  whose sampling (analytics.go:747) is floating point arithmetic.
* Listing and searching on the server: single reads. Their order, limit and
  offset are an operator of `Client`, where paging depends on them.
* The second connection of `cmd/import` in `Ingest`: how its statements and the
  server's meet in SQLite's lock is the library's; a statement refused as busy is
  one of the failing statements there. `Migration` has both processes. The flag
  `-reset` removes the database file before it opens it.
* CORS, configuration and the values of the admin and ingest tokens: no state
  over time. The session's cookie has some, on the server in `Auth` and in the
  browser in `Client`; there is one browser, and a second login of another
  browser meets the first in the table of sessions only.
* The in-memory sessions of `auth.Store` (used without a database only).
* Charts draw their props and keep no state. Of the client also: which page is
  on screen, forms, the export, the SMS test box, and the dates of an inbox
  window, which are memoized by its name and go stale on a page left open past
  midnight (App.jsx:582).

## 6. Plan

Done in this order, most important first: `Ledger` and `Ingest`; `Labels`;
`LoginGuard` and `Auth`; `Budgets`; `Analytics`; `Migration`; `Organize`;
`Client`; `Scratch`; with the proofs named above. What is left:

1. A clock in `Organize`, for windows that go stale at midnight; in `Client` the
   settings handlers without a catch (App.jsx:956, 967, 1032-1043), after whose
   failure the form stays and nothing is said.
2. `Ingest` with a second connection for `cmd/import` (busy errors, the lock of
   SQLite instead of the pool).
3. `Parse`: the dates a message is given, the order of one-time-code, psbc and
   generic rules and of the classifier's, as operators over abstract features.
4. `Analytics`: categories and persons, goal progress, daylight saving, and the
   sampling of the balance curve as arithmetic on dyadic numbers.
