------------------------------ MODULE Analytics ------------------------------
(***************************************************************************)
(* The home payload: service.Bootstrap answers a period with the analysis, *)
(* the digest and the budgets, part by part, each part a query of its own  *)
(* on a ledger into which messages are booked meanwhile, perhaps past      *)
(* midnight (service/service.go, store/analytics.go, store/features.go).   *)
(*                                                                         *)
(* Days are numbers, in a zone without daylight saving. A part is modelled *)
(* by the transactions each of its labels (a day, a month, a channel ...)  *)
(* counts; the sums over them are left out. The budget is the household's  *)
(* for spending of every kind.                                             *)
(***************************************************************************)
EXTENDS Integers, Sequences, FiniteSets, FiniteSetsExt

CONSTANTS
  LastDay,      \* bound: the days are 0 .. LastDay
  MonthOf,      \* MonthOf[d]: the month of day d, a number that never falls
  Classes,      \* what transactions differ in: [direction, kind, channel]
  All,          \* the filter that takes every kind
  Filters,      \* bound: the kinds asked for, All among them
  DaysAsked,    \* bound: the numbers of days asked for, 0 for all time
  MaxDaily,     \* days of the daily curve, at most (400)
  Week,         \* days of the digest's week (7)
  MaxChannels,  \* channels listed, at most (20)
  MaxTxns       \* bound: transactions booked

VARIABLES
  today,    \* the calendar day
  ledger,   \* transactions in the order they were booked
  ask,      \* the request being answered; None: none
  now,      \* the day the analysis took for today
  digest,   \* the day the digest took for today
  window,   \* [from, toDay, month]: resolved from the request
  part,     \* the parts read so far, in the order of Parts
  at        \* at[i]: how many transactions were booked when part[i] was read

vars == <<today, ledger, ask, now, digest, window, part, at>>

None == [dates |-> <<>>, days |-> -1, kind |-> All, preset |-> -1]

Days   == 0 .. LastDay
Months == {MonthOf[d] : d \in Days}
Txns   == [day : Days, class : Classes]

ASSUME AnalyticsAssumption ==
  /\ LastDay \in Nat /\ MaxTxns \in Nat /\ MaxChannels \in Nat
  /\ MaxDaily \in Nat \ {0} /\ Week \in Nat \ {0}
  /\ MonthOf \in [Days -> Nat]
  /\ \A c, d \in Days : c <= d => MonthOf[c] <= MonthOf[d]
  /\ All \in Filters /\ DaysAsked \subseteq Nat

(* What the API is asked for: two dates, in any order, or so many days up  *)
(* to today, or (no dates, no days) all time; of one kind or of all. The   *)
(* field preset holds the button "n days" (0: all) that led to the request,*)
(* or -1.                                                                  *)
Requests ==
  [dates : Days \X Days, days : {0}, kind : Filters, preset : {-1}]
    \cup [dates : {<<>>}, days : DaysAsked, kind : Filters, preset : {-1}]

MonthStart(m) == Min({d \in Days : MonthOf[d] = m})
MonthEnd(m)   == Max({d \in Days : MonthOf[d] = m}) + 1

(* What the web client sends for that button. Its requests always carry a  *)
(* month, which goes before the days.                                      *)
PresetRequest(n, k) ==
  LET m == MonthOf[today]
  IN  [dates |-> <<MonthStart(m), MonthEnd(m) - 1>>, days |-> 0, kind |-> k, preset |-> n]

----------------------------------------------------------------------------
(* The window *)

(* A variant of DatesWindow: dates given in reverse are not swapped. *)
NoSwap(a, b) ==
  IF a > today THEN <<today, today>> ELSE <<a, Min({b, today})>>

(* The two dates are ordered, and neither is after today.                  *)
DatesWindow(a, b) ==
  LET first == Min({a, b})
      last  == Max({a, b})
  IN  IF first > today THEN <<today, today>> ELSE <<first, Min({last, today})>>

AllTimeWindow ==
  IF ledger = <<>> THEN <<today, today>>
  ELSE <<Min({ledger[t].day : t \in DOMAIN ledger}), today>>

Resolved(r) ==
  IF r.dates # <<>> THEN DatesWindow(r.dates[1], r.dates[2])
  ELSE IF r.days > 0 THEN <<today - (r.days - 1), today>>
  ELSE AllTimeWindow

(* Without dates it is the month the server's own zone is in, which the    *)
(* model takes to be the zone of the days.                                 *)
BudgetMonth(r) == MonthOf[IF r.dates # <<>> THEN r.dates[2] ELSE today]

DayCount == Max({1, window.toDay - window.from + 1})

----------------------------------------------------------------------------
(* The parts: from when, until when (exclusive), and which transactions. *)

Parts == <<"today", "this_month", "range_all_kinds", "range", "prev_range", "daily",
           "monthly", "by_channel", "by_kind", "digest_today", "digest_week", "budgets">>

InRange == <<window.from, window.toDay + 1>>

(* A variant of PrevRange: its end is taken for inclusive. *)
PrevInclusive == <<window.from - DayCount, window.from + 1>>

PrevRange == <<window.from - DayCount, window.from>>

(* A variant of DailyRange: the last day is left out. *)
DailyShort == <<window.from, window.from + Min({DayCount, MaxDaily}) - 1>>

DailyRange ==
  IF DayCount > MaxDaily
  THEN <<window.toDay - (MaxDaily - 1), window.toDay + 1>>
  ELSE <<window.from, window.from + DayCount>>

(* A variant of DigestWeek: a week back from today and today. *)
DigestWeekLong == <<digest' - Week, digest' + 1>>

DigestWeek == <<digest' - (Week - 1), digest' + 1>>

(* A variant of BudgetSpan: until today, exclusive. *)
BudgetSpanToday == <<MonthStart(window.month), now>>

BudgetSpan == <<MonthStart(window.month), MonthEnd(window.month)>>

Span(p) ==
  CASE p = "today"        -> <<now, now + 1>>
    [] p = "this_month"   -> <<MonthStart(MonthOf[now]), now + 1>>
    [] p = "prev_range"   -> PrevRange
    [] p = "daily"        -> DailyRange
    [] p = "digest_today" -> <<digest', digest' + 1>>
    [] p = "digest_week"  -> DigestWeek
    [] p = "budgets"      -> BudgetSpan
    [] OTHER              -> InRange

Selects(p, class) ==
  CASE p \in {"range", "prev_range", "daily", "monthly", "by_channel"} ->
         ask.kind \in {All, class.kind}
    [] p = "budgets" -> class.direction = "out"
    [] OTHER         -> TRUE

Rows(p) ==
  {t \in DOMAIN ledger : /\ ledger[t].day >= Span(p)[1] /\ ledger[t].day < Span(p)[2]
                         /\ Selects(p, ledger[t].class)}

(* The label a transaction is counted under, and the labels a part has     *)
(* even if nothing is counted there.                                       *)
LabelOf(p, t) ==
  CASE p = "daily"      -> ledger[t].day
    [] p = "monthly"    -> MonthOf[ledger[t].day]
    [] p = "by_channel" -> ledger[t].class.channel
    [] p = "by_kind"    -> ledger[t].class.kind
    [] OTHER            -> p

Prefilled(p) ==
  CASE p = "daily"   -> Span(p)[1] .. Span(p)[2] - 1
    [] p = "monthly" -> {MonthOf[d] : d \in Days \cap (window.from .. window.toDay)}
    [] p \in {"by_channel", "by_kind"} -> {}
    [] OTHER         -> {p}

Labels(p) == Prefilled(p) \cup {LabelOf(p, t) : t \in Rows(p)}

(* The channels with the largest sums are listed, whichever they are.      *)
Listings(p) ==
  IF p = "by_channel" /\ Cardinality(Labels(p)) > MaxChannels
  THEN {L \in SUBSET Labels(p) : Cardinality(L) = MaxChannels}
  ELSE {Labels(p)}

----------------------------------------------------------------------------

(* The window while there is no request. *)
Closed(d) == [from |-> d, toDay |-> d, month |-> MonthOf[d]]

Init ==
  /\ today \in Days /\ now = today /\ digest = today
  /\ ledger = <<>>
  /\ ask = None
  /\ window = Closed(today)
  /\ part = <<>> /\ at = <<>>

(* A message is booked under the day its text says, which has no year: it  *)
(* may lie ahead.                                                          *)
Book ==
  /\ Len(ledger) < MaxTxns
  /\ \E t \in Txns : ledger' = Append(ledger, t)
  /\ UNCHANGED <<today, ask, now, digest, window, part, at>>

Midnight ==
  /\ today < LastDay
  /\ today' = today + 1
  /\ UNCHANGED <<ledger, ask, now, digest, window, part, at>>

(* One request at a time: they only read.                                  *)
Ask(r) ==
  /\ ask = None
  /\ ask' = r
  /\ now' = today /\ digest' = today
  /\ window' = [from |-> Resolved(r)[1], toDay |-> Resolved(r)[2], month |-> BudgetMonth(r)]
  /\ part' = <<>> /\ at' = <<>>
  /\ UNCHANGED <<today, ledger>>

(* The next part is read; the digest looks at the clock again.             *)
Read ==
  /\ ask # None /\ Len(part) < Len(Parts)
  /\ LET p == Parts[Len(part) + 1]
     IN  /\ digest' = IF p = "digest_today" THEN today ELSE digest
         /\ \E listed \in Listings(p) :
              part' = Append(part, [l \in listed |-> {t \in Rows(p) : LabelOf(p, t) = l}])
  /\ at' = Append(at, Len(ledger))
  /\ UNCHANGED <<today, ledger, ask, now, window>>

(* The payload is sent when it is complete, and an error when a query      *)
(* fails; nothing is kept of either.                                       *)
Finish ==
  /\ ask # None
  /\ ask' = None
  /\ now' = today /\ digest' = today
  /\ window' = Closed(today)
  /\ part' = <<>> /\ at' = <<>>
  /\ UNCHANGED <<today, ledger>>

Next ==
  \/ Book
  \/ Midnight
  \/ \E r \in Requests : Ask(r)
  \/ \E n \in DaysAsked, k \in Filters : Ask(PresetRequest(n, k))
  \/ Read
  \/ Finish

Spec == Init /\ [][Next]_vars

----------------------------------------------------------------------------
(* Properties *)

TypeOK ==
  /\ today \in Days /\ now \in 0 .. today /\ digest \in now .. today
  /\ ledger \in Seq(Txns) /\ Len(ledger) <= MaxTxns
  /\ ask \in [dates : (Days \X Days) \cup {<<>>}, days : DaysAsked \cup {0, -1},
              kind : Filters, preset : DaysAsked \cup {-1}]
  /\ window \in [from : Int, toDay : 0 .. now, month : Months]
  /\ at \in Seq(0 .. Len(ledger))
  /\ Len(part) = Len(at) /\ Len(part) <= Len(Parts)
  /\ \A i \in DOMAIN part : \A l \in DOMAIN part[i] : part[i][l] \subseteq 1 .. at[i]

Place(p)   == CHOOSE i \in DOMAIN Parts : Parts[i] = p
IsRead(p)  == Place(p) <= Len(part)
Shown(p)   == part[Place(p)]
Counted(p) == UNION {Shown(p)[l] : l \in DOMAIN Shown(p)}

OfKind(t) == ask.kind \in {All, ledger[t].class.kind}
IsOut(t)  == ledger[t].class.direction = "out"

(* Two parts count the same transactions, but for those booked between     *)
(* the two reads.                                                          *)
Agree(earlier, S, T) == S = {t \in T : t <= at[Place(earlier)]}

(* The days a request asks for, and those of them that are over or today.  *)
Asked ==
  CASE ask.dates # <<>> -> (ask.dates[1] .. ask.dates[2]) \cup (ask.dates[2] .. ask.dates[1])
    [] ask.dates = <<>> /\ ask.days > 0 -> {d \in Days : now - d < ask.days}
    [] OTHER -> {d \in Days : d >= window.from}

AskedDays == Asked \cap (0 .. now)

(* Both dates lie ahead. The code answers such a request with today, where *)
(* its comment says "entirely future month -> empty but valid single-day   *)
(* window at today" (analytics.go:357) and the acceptance review asks for  *)
(* an error or nothing (ACCEPTANCE_REVIEW_2026-07-18.md:197-201).          *)
WhollyAhead == ask.dates # <<>> /\ AskedDays = {}

(* The totals of the range count every transaction of the asked days and   *)
(* kind that was booked by then, and no other, whichever date came first.  *)
(* It does not hold of dates that lie wholly ahead, which are left out.    *)
RangeIsAsked ==
  IsRead("range") /\ ~ WhollyAhead =>
    Counted("range") = {t \in 1 .. at[Place("range")] : ledger[t].day \in AskedDays /\ OfKind(t)}

(* The parts that break the range down (by kind of filter, day, month,     *)
(* kind, channel) add up to its totals, with nothing counted twice or left *)
(* out but what was booked between two reads; a range longer than the      *)
(* daily curve shows its last days. Left out is a request for all time     *)
(* when all transactions lie ahead, whose window ends before it begins.    *)
PartsAgree ==
  window.from <= window.toDay =>
    /\ IsRead("range") =>
         Agree("range_all_kinds", {t \in Counted("range_all_kinds") : OfKind(t)}, Counted("range"))
    /\ IsRead("daily") =>
         LET shown == {d \in window.from .. window.toDay : window.toDay - d < MaxDaily}
         IN  /\ DOMAIN Shown("daily") = shown
             /\ Agree("range", {t \in Counted("range") : ledger[t].day \in shown}, Counted("daily"))
    /\ IsRead("monthly") => Agree("range", Counted("range"), Counted("monthly"))
    /\ IsRead("by_kind") => Agree("range_all_kinds", Counted("range_all_kinds"), Counted("by_kind"))
    /\ IsRead("by_channel") =>
         \A c \in DOMAIN Shown("by_channel") :
            Agree("monthly", {t \in Counted("monthly") : ledger[t].class.channel = c},
                             Shown("by_channel")[c])

(* The range and the range it is compared with are as long as each other   *)
(* and share no day.                                                       *)
PrevAdjoins ==
  IsRead("prev_range") /\ window.from <= window.toDay =>
    Counted("prev_range") =
      {t \in 1 .. at[Place("prev_range")] :
         /\ OfKind(t)
         /\ ledger[t].day < window.from
         /\ window.from - ledger[t].day <= window.toDay - window.from + 1}

(* The digest in the same payload says the same of today and of the last   *)
(* week as the analysis, unless midnight fell between them.                *)
DigestAgrees ==
  /\ IsRead("digest_today") /\ digest = now => Agree("today", Counted("today"), Counted("digest_today"))
  /\ IsRead("digest_week") /\ digest = now /\ window.toDay = now /\ window.from = now - (Week - 1) =>
       Agree("range_all_kinds", Counted("range_all_kinds"), Counted("digest_week"))

(* What a budget of a month has spent is what went out by the totals of    *)
(* that month: of this month, or of a request for exactly its days. Both   *)
(* are gross: the headline's expense, which refunds reduce while budgets   *)
(* count outgoing rows only, is another sum and not compared.              *)
BudgetsAgree ==
  LET spent == {t \in Counted("budgets") : ledger[t].day <= now}
      asked == ask.dates # <<>> /\ {ask.dates[1], ask.dates[2]} =
                 {MonthStart(window.month), MonthEnd(window.month) - 1}
  IN  IsRead("budgets") =>
        /\ window.month = MonthOf[now] =>
             Agree("this_month", {t \in Counted("this_month") : IsOut(t)}, spent)
        /\ asked /\ MonthStart(window.month) <= now =>
             Agree("range_all_kinds", {t \in Counted("range_all_kinds") : IsOut(t)}, spent)

(* "Last 7/15/30/90 days" (README.md): the range a preset button leads to  *)
(* is so many days up to today.                                            *)
PresetIsShown ==
  ask.preset > 0 /\ IsRead("range") =>
    Counted("range") = {t \in 1 .. at[Place("range")] :
                          OfKind(t) /\ ledger[t].day \in now - (ask.preset - 1) .. now}

=============================================================================
