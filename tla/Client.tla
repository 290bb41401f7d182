------------------------------- MODULE Client -------------------------------
(***************************************************************************)
(* The web client around its pages: useAuth, LoginPage, App and the API    *)
(* client of web/src/App.jsx and web/src/api/client.js.  One page is open; *)
(* it finds out whether it is signed in, loads everything for the chosen   *)
(* period, searches and pages through the transactions, edits settings,    *)
(* logs out.                                                               *)
(*                                                                         *)
(* A handler is a slot: its request with the credentials it carries and    *)
(* the state of the render it closed over, then the answer, then what the  *)
(* handler does with it.  Requests are answered and lost in any order.  An *)
(* effect runs in the step that renders its dependencies.                  *)
(*                                                                         *)
(* Left out: which page is on screen (every tap of a signed-in page is     *)
(* offered at all times), people and tags (they come with every load), the *)
(* label request before a counters refresh (it only delays it), and the    *)
(* moments at which the parts of one load are served and come back (one    *)
(* moment each here).  A second login is not tapped while one is under way,*)
(* which a login page that a late load had replaced would allow.  One      *)
(* preset stands for all, as its number never reaches the server, and the  *)
(* kind of a period is left out: it travels beside the month.              *)
(***************************************************************************)
EXTENDS Integers, Sequences, FiniteSets

CONSTANTS
  Now,           \* the current month; months are 1..Now
  Everything,    \* search ''
  Searches,      \* what the user searches for, Everything included
  Hits,          \* Hits[q]: the transactions that match q
  Page,          \* limit: 50 in the code
  FirstStock,    \* transactions 1..FirstStock exist when the page is opened
  MaxStock,      \* bound on transactions
  HasPassword,   \* the server has ADMIN_PASSWORD
  FirstLogins,   \* cookie and stored token a browser may come with
  Slots,         \* 1..n: handlers that may run at the same time
  MaxClicks,     \* bound on taps
  MaxFaults      \* bound on lost requests and answers

ASSUME ClientAssumption ==
  /\ Now \in Nat \ {0} /\ Page \in Nat \ {0}
  /\ FirstStock \in Nat /\ MaxStock \in Nat /\ FirstStock <= MaxStock
  /\ Everything \in Searches /\ Hits \in [Searches -> SUBSET (1..MaxStock)]
  /\ Hits[Everything] = 1..MaxStock
  /\ HasPassword \in BOOLEAN
  /\ FirstLogins \subseteq [cookie : {-1, 0}, token : {"none", "good", "bad"}]
  /\ Slots \subseteq Nat /\ 1 \in Slots
  /\ MaxClicks \in Nat /\ MaxFaults \in Nat

VARIABLES
  live,       \* the server: sessions by the tap that made them; 0: older
  stock,      \* the server: transactions 1..stock, the newest the highest
  settings,   \* the server: version of rules, goals and cards
  cookie,     \* the session the browser's cookie names
  token,      \* localStorage
  ready, authed, passwordLogin,
  period,
  data,
  loading, loadingMore, error,
  task,       \* task[i]: the handler in slot i
  clicks,
  faults,
  left,       \* history: logged out by the user, and no session of this
              \* browser was admitted since
  searched,   \* history: the search tapped last
  raced       \* history: what overlapping handlers may have spoilt

server  == <<live, stock, settings>>
account == <<token, ready, authed, passwordLogin, left>>
login   == <<cookie, account>>
shown   == <<period, data, loading, loadingMore, error>>
bounds  == <<clicks, faults>>
history == <<searched, raced>>
vars == <<server, login, shown, task, bounds, history>>

----------------------------------------------------------------------------
(* Periods, transactions and requests *)

Smaller(m, n) == IF m < n THEN m ELSE n

NoSession == -1

Period == [mode : {"month", "preset"}, month : 1..Now]

clampMonth(m) == Smaller(m, Now)

shiftMonth(m, delta) == m + delta

canGoNextMonth(m) == m < Now

ChosenMonth(p) == IF p.mode = "month" THEN p.month ELSE Now

(* bootstrap is always given a month, so the days of a preset are not sent *)
(* (the run analytics_preset is about that).                               *)
Asked(p) == ChosenMonth(p)

NotAsked == 0

(* GET /transactions: newest first, one page.  Place k of a set of matches *)
(* is taken by the one that has k of them from itself upwards.             *)
Place(S, t) == Cardinality({u \in S : u >= t})

Matches(q, n) ==
  LET S == Hits[q] \cap (1..n) IN
    [k \in 1..Cardinality(S) |-> CHOOSE t \in S : Place(S, t) = k]

AnswerOf(q, offset) ==
  LET all == Matches(q, stock) IN
    [list |-> SubSeq(all, offset + 1, Smaller(offset + Page, Len(all))),
     total |-> Len(all), extras |-> settings, asOf |-> stock]

NoAnswer == [list |-> <<>>, total |-> 0, extras |-> 0, asOf |-> 0]

FirstPeriod == [mode |-> "month", month |-> Now]

(* A slot: which handler, where it is ("sent", then the answer "ok",       *)
(* "denied" or "broken"), the credentials it carries, whether the server   *)
(* has found the session, what it closed over, and for the history whether *)
(* the list was replaced meanwhile.  The cookie of an answer is the one it *)
(* sets.  Only the newest load is not superseded: loadSeq, as a mark.      *)
Idle ==
  [kind |-> "idle", pc |-> "sent", token |-> "none", cookie |-> NoSession,
   valid |-> FALSE, click |-> 0, newest |-> FALSE, period |-> FirstPeriod, search |-> Everything,
   offset |-> 0, extras |-> 0, got |-> NoAnswer, crossed |-> FALSE]

(* request(): fetch with the cookie and the stored token.                  *)
Request(kind, c, t) == [Idle EXCEPT !.kind = kind, !.cookie = c, !.token = t]

Sent(kind) == Request(kind, cookie, token)

Load(kind, c, t, p, d) ==
  [Request(kind, c, t) EXCEPT !.period = p, !.search = d.search,
                              !.extras = d.extras, !.newest = TRUE]

Loads == {"load", "full"}

Carriers == {"full", "edit", "extras"}

Readers == Loads \cup {"extras", "search", "more"}

Kinds == {"idle", "me", "digest", "login", "logout", "counters", "search", "more"}
           \cup Loads \cup Carriers

Listing == [list : Seq(1..MaxStock), total : Nat, extras : Nat, asOf : 0..MaxStock]

Handler ==
  [kind : Kinds, pc : {"sent", "ok", "denied", "broken"},
   token : {"none", "good", "bad"}, cookie : NoSession..MaxClicks, valid : BOOLEAN,
   click : 0..MaxClicks, newest : BOOLEAN, period : Period, search : Searches,
   offset : Nat, extras : Nat, got : Listing, crossed : BOOLEAN]

Shown ==
  [of : 0..Now, month : 1..Now, list : Seq(1..MaxStock), total : Nat,
   asOf : 0..MaxStock, search : Searches, extras : Nat]

Ends(i) == task' = [task EXCEPT ![i] = Idle]

Free(i) == task[i] = Idle /\ \A j \in Slots : j < i => task[j] # Idle

Answered(i, kind) == task[i].kind = kind /\ task[i].pc # "sent"

(* For the history: two handlers of which one brings rules, goals and      *)
(* cards, the other too or an older copy of them.                          *)
Races(i, kind) ==
  {"extras" : j \in {j \in Slots \ {i} :
     /\ {kind, task[j].kind} \subseteq Loads \cup Carriers
     /\ {kind, task[j].kind} \cap Carriers # {}}}

TypeOK ==
  /\ live \subseteq NoSession..MaxClicks /\ cookie \in NoSession..MaxClicks
  /\ stock \in 0..MaxStock /\ settings \in Nat
  /\ token \in {"none", "good", "bad"}
  /\ {ready, authed, passwordLogin, left} \subseteq BOOLEAN
  /\ {loading, loadingMore, error} \subseteq BOOLEAN
  /\ period \in Period
  /\ data \in Shown
  /\ task \in [Slots -> Handler]
  /\ clicks \in 0..MaxClicks /\ faults \in 0..MaxFaults
  /\ searched \in Searches
  /\ raced \subseteq {"extras", "list", "period", "search"}

----------------------------------------------------------------------------
(* The server and the network *)

Guarded(i) == task[i].kind \notin {"idle", "login", "logout"}

(* Valid reads the session in one statement ...                            *)
Check(i) ==
  /\ Guarded(i) /\ task[i].pc = "sent"
  /\ ~task[i].valid /\ task[i].cookie \in live
  /\ task' = [task EXCEPT ![i].valid = TRUE]
  /\ UNCHANGED <<server, login, shown, bounds, history>>

(* ... and extends it in another, which writes it back if it is gone.      *)
Extends(i) ==
  /\ live' = IF task[i].valid THEN live \cup {task[i].cookie} ELSE live
  /\ left' = (left /\ ~task[i].valid)

(* Who the server listens to: a session or else the right token.           *)
Admitted(i) ==
  /\ Guarded(i)
  /\ task[i].valid \/ (task[i].cookie \notin live /\ task[i].token = "good")

Denied(i) ==
  /\ Guarded(i)
  /\ ~task[i].valid /\ task[i].cookie \notin live /\ task[i].token # "good"

(* Every admitted answer sets the cookie the request came with again; that *)
(* of a login the new one.  me answers everyone, "denied" standing for     *)
(* authenticated: false.                                                   *)
Serve(i) ==
  /\ task[i].kind # "idle" /\ task[i].pc = "sent"
  /\ \/ /\ task[i].kind = "login" /\ HasPassword
        /\ live' = live \cup {task[i].click}
        /\ task' = [task EXCEPT ![i].pc = "ok", ![i].cookie = task[i].click]
        /\ UNCHANGED <<settings, left>>
     \/ /\ task[i].kind = "login" \/ Denied(i)
        /\ task' = [task EXCEPT ![i].pc = "denied", ![i].cookie = NoSession]
        /\ UNCHANGED <<live, settings, left>>
     \/ /\ task[i].kind = "logout"
        /\ live' = live \ {task[i].cookie}
        /\ task' = [task EXCEPT ![i].pc = "ok"]
        /\ UNCHANGED <<settings, left>>
     \/ /\ Admitted(i)
        /\ Extends(i)
        /\ settings' = IF task[i].kind = "edit" THEN settings + 1 ELSE settings
        /\ task' = [task EXCEPT
             ![i].pc = "ok", ![i].valid = FALSE,
             ![i].got = IF task[i].kind \in Readers
                          THEN AnswerOf(task[i].search, task[i].offset)
                          ELSE NoAnswer]
  /\ UNCHANGED <<stock, cookie, token, ready, authed, passwordLogin, shown, bounds, history>>

(* The request or its answer is lost, cut short after the cookie it sets,  *)
(* or refused for another reason; of a full load rules, goals and cards    *)
(* may fail alone.                                                         *)
Break(i) ==
  /\ task[i].kind # "idle" /\ task[i].pc \in {"sent", "ok"}
  /\ faults < MaxFaults /\ faults' = faults + 1
  /\ \/ /\ Extends(i)
        /\ \E c \in {NoSession} \cup {d \in {task[i].cookie} : task[i].pc = "ok" \/ Admitted(i)} :
             task' = [task EXCEPT ![i].pc = "broken", ![i].valid = FALSE, ![i].cookie = c,
                                  ![i].got = NoAnswer]
        /\ UNCHANGED raced
     \/ /\ task[i].kind = "full" /\ task[i].pc = "ok"
        /\ task' = [task EXCEPT ![i].got.extras = 0]
        /\ raced' = raced \cup {"extras"}
        /\ UNCHANGED <<live, left>>
  /\ UNCHANGED <<stock, settings, cookie, token, ready, authed, passwordLogin, shown, clicks,
                 searched>>

Arrives ==
  /\ stock < MaxStock /\ stock' = stock + 1
  /\ UNCHANGED <<live, settings, login, shown, task, bounds, history>>

Expires(s) ==
  /\ s \in live /\ live' = live \ {s}
  /\ UNCHANGED <<stock, settings, login, shown, task, bounds, history>>

(* The browser takes the cookie that the answer sets.                      *)
TakeCookie(i) ==
  cookie' = IF task[i].cookie = NoSession THEN cookie ELSE task[i].cookie

----------------------------------------------------------------------------
(* loadAll, and the effect that calls it when authed or the period changes *)

StartLoadUnnumbered(i, l) ==
  /\ task' = [task EXCEPT ![i] = l]
  /\ loading' = TRUE
  /\ error' = FALSE

StartLoad(i, l) ==
  /\ task' = [j \in Slots |->
               IF j = i THEN l ELSE [task[j] EXCEPT !.newest = FALSE]]
  /\ loading' = TRUE
  /\ error' = FALSE

(* A page that was not signed in is: the effect in the slot of its handler.*)
SignedIn(i, c) ==
  /\ authed' = TRUE
  /\ IF authed
       THEN Ends(i) /\ UNCHANGED <<loading, error, raced>>
       ELSE /\ StartLoad(i, Load("load", c, token, period, data))
            /\ raced' = raced \cup Races(i, "load")

SupersededEndsLoading(i) ==
  /\ \E kind \in Loads : Answered(i, kind)
  /\ ~task[i].newest
  /\ TakeCookie(i)
  /\ Ends(i)
  /\ loading' = FALSE
  /\ UNCHANGED <<server, account, period, data, loadingMore, error, bounds, history>>

LoadSuperseded(i) ==
  /\ \E kind \in Loads : Answered(i, kind)
  /\ ~task[i].newest
  /\ TakeCookie(i)
  /\ Ends(i)
  /\ UNCHANGED <<server, account, shown, bounds, history>>

BroughtWithoutExtras(t) ==
  [of |-> Asked(t.period), month |-> ChosenMonth(t.period),
   list |-> t.got.list, total |-> t.got.total, asOf |-> t.got.asOf,
   search |-> t.search,
   extras |-> IF t.kind = "full" THEN t.got.extras ELSE 0]

(* What a load brings; rules, goals and cards of a plain one are those of  *)
(* the render it closed over.                                              *)
Brought(t) ==
  [of |-> Asked(t.period), month |-> ChosenMonth(t.period),
   list |-> t.got.list, total |-> t.got.total, asOf |-> t.got.asOf,
   search |-> t.search,
   extras |-> IF t.kind = "full" THEN t.got.extras ELSE t.extras]

(* For the history: the list is replaced under a load-more.                *)
Crossed(f) == [j \in Slots |-> [f[j] EXCEPT !.crossed = f[j].kind = "more"]]

LoadSucceeds(i) ==
  /\ \E kind \in Loads : Answered(i, kind)
  /\ task[i].newest /\ task[i].pc = "ok"
  /\ data' = Brought(task[i])
  /\ TakeCookie(i)
  /\ authed' = TRUE
  /\ LET after == raced \ ({"list"} \cup {"period" : p \in {task[i].period} \cap {period}})
         next  == Load("load", cookie', token, period, data') IN
       IF authed
         THEN /\ task' = Crossed([task EXCEPT ![i] = Idle])
              /\ loading' = FALSE
              /\ raced' = after
              /\ UNCHANGED error
         ELSE /\ task' = Crossed([task EXCEPT ![i] = next])
              /\ loading' = TRUE
              /\ error' = FALSE
              /\ raced' = after \cup Races(i, "load")
  /\ UNCHANGED <<server, token, ready, passwordLogin, left, period, loadingMore, bounds,
                 searched>>

RefusedStaysSignedIn(i) ==
  /\ \E kind \in Loads : Answered(i, kind)
  /\ task[i].newest /\ task[i].pc # "ok"
  /\ error' = TRUE
  /\ TakeCookie(i)
  /\ UNCHANGED authed
  /\ loading' = FALSE
  /\ Ends(i)
  /\ UNCHANGED <<server, token, ready, passwordLogin, left, period, data, loadingMore, bounds,
                 history>>

LoadFails(i) ==
  /\ \E kind \in Loads : Answered(i, kind)
  /\ task[i].newest /\ task[i].pc # "ok"
  /\ error' = TRUE
  /\ TakeCookie(i)
  /\ authed' = (authed /\ task[i].pc # "denied")
  /\ loading' = FALSE
  /\ Ends(i)
  /\ UNCHANGED <<server, token, ready, passwordLogin, left, period, data, loadingMore, bounds,
                 history>>

----------------------------------------------------------------------------
(* useAuth, the login page and logging out *)

(* A stored token the server does not take is tried once more on digest.   *)
(* The cookie these two answers may set is still the one of the page.      *)
MeAnswered(i) ==
  /\ Answered(i, "me")
  /\ passwordLogin' = (passwordLogin \/ (task[i].pc # "broken" /\ HasPassword))
  /\ \/ /\ task[i].pc = "ok" \/ (task[i].pc = "broken" /\ token # "none")
        /\ ready' = TRUE
        /\ SignedIn(i, cookie)
     \/ /\ task[i].pc = "denied" /\ token # "none"
        /\ task' = [task EXCEPT ![i] = Sent("digest")]
        /\ UNCHANGED <<ready, authed, loading, error, raced>>
     \/ /\ task[i].pc # "ok" /\ token = "none"
        /\ ready' = TRUE
        /\ Ends(i)
        /\ UNCHANGED <<authed, loading, error, raced>>
  /\ UNCHANGED <<server, cookie, token, left, period, data, loadingMore, bounds, searched>>

DigestAnswered(i) ==
  /\ Answered(i, "digest")
  /\ ready' = TRUE
  /\ IF task[i].pc = "ok"
       THEN SignedIn(i, cookie)
       ELSE Ends(i) /\ UNCHANGED <<authed, loading, error, raced>>
  /\ UNCHANGED <<server, cookie, token, passwordLogin, left, period, data, loadingMore,
                 bounds, searched>>

(* One at a time: the button is disabled meanwhile.                        *)
TapLogin(i) ==
  /\ ready /\ ~authed /\ passwordLogin
  /\ \A j \in Slots : task[j].kind # "login"
  /\ clicks < MaxClicks /\ clicks' = clicks + 1
  /\ Free(i)
  /\ task' = [task EXCEPT ![i] = [Sent("login") EXCEPT !.click = clicks + 1]]
  /\ error' = FALSE
  /\ UNCHANGED <<server, login, period, data, loading, loadingMore, faults, history>>

(* The answer sets the cookie; on a page that a late load has signed in,   *)
(* it hides that a load of the chosen period failed.                       *)
LoginAnswered(i) ==
  /\ Answered(i, "login")
  /\ TakeCookie(i)
  /\ IF task[i].pc = "ok"
       THEN /\ left' = FALSE
            /\ authed' = TRUE
            /\ error' = FALSE
            /\ IF authed
                 THEN /\ Ends(i)
                      /\ raced' = raced \cup {"period" : e \in {error} \ {FALSE}}
                      /\ UNCHANGED loading
                 ELSE SignedIn(i, cookie')
       ELSE /\ error' = TRUE
            /\ Ends(i)
            /\ UNCHANGED <<left, authed, loading, raced>>
  /\ UNCHANGED <<server, token, ready, passwordLogin, period, data, loadingMore, bounds, searched>>

(* A tap on a page that is signed in.                                      *)
Tap(i) ==
  /\ ready /\ authed
  /\ clicks < MaxClicks /\ clicks' = clicks + 1
  /\ Free(i)

TapLogout(i) ==
  /\ Tap(i)
  /\ task' = [task EXCEPT ![i] = Sent("logout")]
  /\ UNCHANGED <<server, login, shown, faults, history>>

(* Whatever the server said: the token goes and the login page comes.  An  *)
(* answer clears the cookie, also one that was cut short.                  *)
LogoutAnswered(i) ==
  /\ Answered(i, "logout")
  /\ token' = "none"
  /\ authed' = FALSE
  /\ cookie' = IF task[i].pc = "ok" \/ task[i].cookie # NoSession THEN NoSession ELSE cookie
  /\ left' = (task[i].pc = "ok")
  /\ Ends(i)
  /\ UNCHANGED <<server, ready, passwordLogin, shown, bounds, history>>

----------------------------------------------------------------------------
(* The pages: refresh, period, counters, settings *)

TapRefresh(i) ==
  /\ Tap(i)
  /\ StartLoad(i, Load("load", cookie, token, period, data))
  /\ raced' = raced \cup Races(i, "load")
  /\ UNCHANGED <<server, login, period, data, loadingMore, faults, searched>>

ChoosePeriod(i, p) ==
  /\ Tap(i)
  /\ p # period
  /\ period' = p
  /\ StartLoad(i, Load("load", cookie, token, p, data))
  /\ raced' = raced \cup Races(i, "load")
  /\ UNCHANGED <<server, login, data, loadingMore, faults, searched>>

(* The arrows start from the month shown on the home page and from the     *)
(* chosen one on the analysis page; a typed month may lie ahead; "by       *)
(* month" goes back to the chosen one.                                     *)
Arrows(m) ==
  {shiftMonth(m, -1) : x \in {x \in {m} : x > 1}}
    \cup {clampMonth(shiftMonth(m, 1)) : x \in {x \in {m} : canGoNextMonth(x)}}

Months(m) == Arrows(m) \cup {Now} \cup {clampMonth(typed) : typed \in 1..(Now + 1)}

ChooseMonth(i) ==
  \E m \in Months(data.month) \cup Months(period.month) :
    ChoosePeriod(i, [period EXCEPT !.mode = "month", !.month = m])

ChoosePreset(i) == ChoosePeriod(i, [period EXCEPT !.mode = "preset"])

(* refreshCounters of the render a label was tapped in.                    *)
TapLabel(i) ==
  /\ Tap(i)
  /\ task' = [task EXCEPT ![i] = [Sent("counters") EXCEPT !.period = period]]
  /\ UNCHANGED <<server, login, shown, faults, history>>

CountersAnswered(i) ==
  /\ Answered(i, "counters")
  /\ TakeCookie(i)
  /\ IF task[i].pc = "ok"
       THEN /\ data' = [data EXCEPT !.of = Asked(task[i].period)]
            /\ raced' = raced \cup {"period" : p \in {task[i].period} \ {period}}
       ELSE UNCHANGED <<data, raced>>
  /\ Ends(i)
  /\ UNCHANGED <<server, account, period, loading, loadingMore, error, bounds, searched>>

(* The settings page fetches rules, goals and cards when it comes up; each *)
(* failure shows as an empty list.                                         *)
OpenSettings(i) ==
  /\ Tap(i)
  /\ task' = [task EXCEPT ![i] = Sent("extras")]
  /\ raced' = raced \cup Races(i, "extras")
  /\ UNCHANGED <<server, login, shown, faults, searched>>

ExtrasAnswered(i) ==
  /\ Answered(i, "extras")
  /\ TakeCookie(i)
  /\ data' = [data EXCEPT !.extras = IF task[i].pc = "ok" THEN task[i].got.extras ELSE 0]
  /\ raced' = raced \cup {"extras" : pc \in {task[i].pc} \ {"ok"}}
  /\ Ends(i)
  /\ UNCHANGED <<server, account, period, loading, loadingMore, error, bounds, searched>>

TapEdit(i) ==
  /\ Tap(i)
  /\ task' = [task EXCEPT ![i] = [Sent("edit") EXCEPT !.period = period,
                                    !.search = data.search, !.extras = data.extras]]
  /\ raced' = raced \cup Races(i, "edit")
  /\ UNCHANGED <<server, login, shown, faults, searched>>

(* The full load of the render of the tap; some handlers show no error.    *)
EditAnswered(i) ==
  /\ Answered(i, "edit")
  /\ TakeCookie(i)
  /\ IF task[i].pc = "ok"
       THEN /\ StartLoad(i, Load("full", cookie', token, task[i].period,
                                 [search |-> task[i].search, extras |-> task[i].extras]))
            /\ raced' = raced \cup Races(i, "full")
                              \cup {"period" : p \in {task[i].period} \ {period}}
                              \cup {"search" : q \in {task[i].search} \ {data.search}}
       ELSE /\ error' \in {TRUE, error}
            /\ Ends(i)
            /\ UNCHANGED <<loading, raced>>
  /\ UNCHANGED <<server, account, period, data, loadingMore, bounds, searched>>

----------------------------------------------------------------------------
(* The transactions page: search and paging *)

TapSearch(i, q) ==
  /\ Tap(i)
  /\ task' = [task EXCEPT ![i] = [Sent("search") EXCEPT !.search = q]]
  /\ searched' = q
  /\ raced' = raced \cup {"search" : j \in {j \in Slots : task[j].kind = "search"}}
  /\ UNCHANGED <<server, login, shown, faults>>

(* No check that it is still the newest answer.                            *)
SearchAnswered(i) ==
  /\ Answered(i, "search")
  /\ TakeCookie(i)
  /\ IF task[i].pc = "ok"
       THEN /\ data' = [data EXCEPT !.list = task[i].got.list, !.total = task[i].got.total,
                                    !.asOf = task[i].got.asOf, !.search = task[i].search]
            /\ task' = Crossed([task EXCEPT ![i] = Idle])
            /\ raced' = (raced \ {"list"})
                 \cup {"search" : j \in {j \in Slots : task[j].kind \in Loads \cup {"edit"}}}
            /\ UNCHANGED error
       ELSE /\ error' = TRUE
            /\ raced' = raced \cup {"search"}
            /\ Ends(i)
            /\ UNCHANGED data
  /\ UNCHANGED <<server, account, period, loading, loadingMore, bounds, searched>>

OffsetOfSecondPage == Page

(* Where the next page starts.                                             *)
NextOffset == Len(data.list)

TapMore(i) ==
  /\ Tap(i)
  /\ ~loadingMore
  /\ data.total > Len(data.list)
  /\ loadingMore' = TRUE
  /\ task' = [task EXCEPT ![i] = [Sent("more") EXCEPT !.search = data.search,
                                                      !.offset = NextOffset]]
  /\ UNCHANGED <<server, login, period, data, loading, error, faults, history>>

MoreAnswered(i) ==
  /\ Answered(i, "more")
  /\ TakeCookie(i)
  /\ loadingMore' = FALSE
  /\ IF task[i].pc = "ok"
       THEN /\ data' = [data EXCEPT
                 !.list = @ \o task[i].got.list,
                 !.total = IF task[i].got.total = 0 THEN @ ELSE task[i].got.total]
            /\ raced' = raced \cup {"list" : t \in {t \in {task[i]} :
                                      t.crossed \/ t.got.asOf # data.asOf}}
            /\ UNCHANGED error
       ELSE error' = TRUE /\ UNCHANGED <<data, raced>>
  /\ Ends(i)
  /\ UNCHANGED <<server, account, period, loading, bounds, searched>>

----------------------------------------------------------------------------

(* The page has just been opened, with an older session or none.           *)
Init ==
  /\ \E l \in FirstLogins : cookie = l.cookie /\ token = l.token
  /\ live = {0}
  /\ stock = FirstStock /\ settings = 1
  /\ ready = FALSE /\ authed = FALSE /\ passwordLogin = FALSE
  /\ period = FirstPeriod
  /\ data = [of |-> NotAsked, month |-> Now, list |-> <<>>, total |-> 0, asOf |-> 0,
             search |-> Everything, extras |-> 0]
  /\ loading = FALSE /\ loadingMore = FALSE /\ error = FALSE
  /\ task = [i \in Slots |-> IF i = 1 THEN Sent("me") ELSE Idle]
  /\ clicks = 0 /\ faults = 0
  /\ left = FALSE /\ searched = Everything /\ raced = {}

Click(i) ==
  \/ TapLogin(i) \/ TapLogout(i)
  \/ TapRefresh(i)
  \/ ChooseMonth(i) \/ ChoosePreset(i)
  \/ TapLabel(i)
  \/ OpenSettings(i) \/ TapEdit(i)
  \/ \E q \in Searches : TapSearch(i, q)
  \/ TapMore(i)

(* What the server, the network and the handlers do without the user.      *)
Step(i) ==
  \/ Check(i) \/ Serve(i)
  \/ MeAnswered(i) \/ DigestAnswered(i) \/ LoginAnswered(i) \/ LogoutAnswered(i)
  \/ LoadSuperseded(i) \/ LoadSucceeds(i) \/ LoadFails(i)
  \/ CountersAnswered(i) \/ ExtrasAnswered(i) \/ EditAnswered(i)
  \/ SearchAnswered(i) \/ MoreAnswered(i)

Next ==
  \/ \E i \in Slots : Click(i) \/ Step(i) \/ Break(i)
  \/ Arrives
  \/ \E s \in live : Expires(s)

Spec == Init /\ [][Next]_vars

----------------------------------------------------------------------------
(* Properties *)

AtRest == \A i \in Slots : task[i] = Idle

(* The loading bar shows exactly while the newest load is under way, and   *)
(* the load-more button is disabled exactly while a load-more is; there is *)
(* one of each at most.                                                    *)
SpinnersTrue ==
  /\ loading <=> \E i \in Slots : task[i].newest
  /\ loadingMore <=> \E i \in Slots : task[i].kind = "more"
  /\ \A i \in Slots : task[i].newest => task[i].kind \in Loads
  /\ \A i, j \in Slots : task[i].newest /\ task[j].newest => i = j
  /\ \A i, j \in Slots : task[i].kind = "more" /\ task[j].kind = "more" => i = j

(* The login page offers the password the server has; a lost answer of me  *)
(* leaves it saying there is none.                                         *)
LoginOffered ==
  /\ (ready \/ \E i \in Slots : task[i].kind = "digest") /\ HasPassword
       => passwordLogin \/ faults > 0
  /\ \A i \in Slots : task[i].pc = "broken" => faults > 0

(* One tap saves settings once at most, and nobody has settings that are   *)
(* not saved yet.                                                          *)
SettingsCounted ==
  LET editing == {i \in Slots : task[i].kind = "edit" /\ task[i].pc = "sent"} IN
    /\ IsFiniteSet(editing) /\ settings + Cardinality(editing) <= clicks + 1
    /\ data.extras <= settings
    /\ \A i \in Slots : task[i].extras <= settings /\ task[i].got.extras <= settings

(* Without an error the analytics and the month are those of the chosen    *)
(* period, or the newest load brings them.                                 *)
PeriodLoaded ==
  "period" \in raced \/
    /\ \A i \in Slots : task[i].newest => task[i].period = period
    /\ authed /\ ~error =>
         \/ data.of = Asked(period) /\ data.month = ChosenMonth(period)
         \/ \E i \in Slots : task[i].newest

(* The search that loads repeat is the one on screen; the one tapped last  *)
(* is on screen or under way, alone.                                       *)
SearchLoaded ==
  "search" \in raced \/
    /\ \A i \in Slots : task[i].kind \in Loads \cup {"edit"} => task[i].search = data.search
    /\ \A i \in Slots : task[i].kind = "search" => task[i].search = searched
    /\ \A i, j \in Slots : task[i].kind = "search" /\ task[j].kind = "search" => i = j
    /\ data.search = searched \/ \E i \in Slots : task[i].kind = "search"

(* An answer is the page that was asked for, and a load-more starts where  *)
(* the list on screen ends.                                                *)
PagesFit ==
  \A i \in Slots :
    /\ task[i].kind # "more" => task[i].offset = 0
    /\ task[i].pc = "ok" /\ task[i].kind \in Readers =>
         LET all == Matches(task[i].search, task[i].got.asOf) IN
           /\ task[i].got.list = SubSeq(all, task[i].offset + 1,
                                        Smaller(task[i].offset + Page, Len(all)))
           /\ task[i].got.total = Len(all)
    /\ task[i].kind = "more" /\ ~task[i].crossed =>
         task[i].search = data.search /\ task[i].offset = Len(data.list)

(* The transactions on screen are the newest matches of the search without *)
(* a gap or a repetition, however many pages were appended and whatever    *)
(* load or search replaced the list.  Excused: a page asked for before the *)
(* list was replaced, or cut from a ledger that has grown since.           *)
ListContiguous ==
  "list" \in raced \/
    /\ data.list = SubSeq(Matches(data.search, data.asOf), 1, Len(data.list))
    /\ Len(data.list) <= Len(Matches(data.search, data.asOf))
    /\ data.total = Len(Matches(data.search, data.asOf))

(* Unless two of them overlapped, every handler that will write rules,     *)
(* goals and cards has those on screen or newer ones.                      *)
ExtrasHeld ==
  "extras" \in raced \/
    /\ \A i, j \in Slots :
         {task[i].kind, task[j].kind} \subseteq Loads \cup Carriers
           /\ task[i].kind \in Carriers => i = j
    /\ \A i \in Slots :
         /\ task[i].kind = "load" => task[i].extras = data.extras
         /\ task[i].kind \in {"full", "extras"} /\ task[i].pc = "ok" =>
              task[i].got.extras >= data.extras

(* What holds the page together: types, never a month of the future, true  *)
(* spinners, a way to sign in, and handlers that know what they overwrite. *)
ClientInv ==
  /\ TypeOK
  /\ SpinnersTrue
  /\ LoginOffered
  /\ SettingsCounted
  /\ PeriodLoaded
  /\ SearchLoaded
  /\ PagesFit
  /\ ListContiguous
  /\ ExtrasHeld

(* What a page at rest without an error shows is what the user chose: the  *)
(* analytics and the month are those of the period, and the search is the  *)
(* one tapped last, whichever answers came late.  Excused: what counters   *)
(* or a settings edit of an earlier render wrote, an error that a late     *)
(* login answer hid, and a search that met another writer of the list.     *)
ShownIsChosen ==
  AtRest /\ ready /\ authed /\ ~error =>
    /\ "period" \in raced \/ (data.of = Asked(period) /\ data.month = ChosenMonth(period))
    /\ "search" \in raced \/ data.search = searched

(* Rules, goals and cards on screen are never replaced by older ones or by *)
(* none, unless a fetch of them failed or overlapped another load.         *)
ExtrasKept == [][data'.extras >= data.extras \/ "extras" \in raced']_vars

(* After a logout the server knows of, a late answer may sign the page in  *)
(* again and bring the cookie back, and even the session, when a request   *)
(* was being let in at the logout (session.go:107 and 126): then the user  *)
(* is back.  Short of that, and of a lost request, such a page is one whose*)
(* newest load, sent without a token, is still to be refused: it ends up   *)
(* on the login page, and at rest it is there.                             *)
LogoutSticks ==
  left =>
    /\ token = "none"
    /\ authed => \/ faults > 0
                 \/ \E i \in Slots : /\ task[i].newest /\ task[i].pc # "ok"
                                     /\ task[i].token = "none"

=============================================================================
