--------------------------- MODULE AnalyticsProofs ---------------------------
(***************************************************************************)
(* Proofs about Analytics, for any calendar, classes of transactions and   *)
(* limits: the range counts what was asked for, the range it is compared   *)
(* with adjoins it, and the parts, the digest and the budgets agree.       *)
(***************************************************************************)
EXTENDS Analytics, WellFoundedInduction, TLAPS

(* A set of naturals has a least element, and a set of days a last day.    *)
LEMMA MinNat ==
  ASSUME NEW S \in SUBSET Nat, S # {}
  PROVE  Min(S) \in S /\ \A d \in S : Min(S) <= d
<1> DEFINE R == {ss \in Nat \X Nat : ss[1] < ss[2]}
<1>1. IsWellFoundedOn(R, Nat)
  BY NatLessThanWellFounded, Zenon DEF OpToRel
<1>2. \E x \in S : \A y \in S : ~ (<<y, x>> \in R)
  <2> HIDE DEF R
  <2> QED
    BY <1>1, WFMin
<1>3. \E x \in S : \A y \in S : x <= y
  <2>1. PICK x \in S : \A y \in S : ~ (<<y, x>> \in R)
    BY <1>2
  <2>2. \A y \in S : x <= y
    <3> TAKE y \in S
    <3>1. x \in Nat /\ y \in Nat /\ <<y, x>> \notin R
      BY <2>1
    <3>2. ~ (y < x)
      BY <3>1, Zenon
    <3> QED
      BY <3>1, <3>2
  <2> QED
    BY <2>2
<1> QED
  BY <1>3 DEF Min

LEMMA MaxDay ==
  ASSUME NEW S \in SUBSET Days, S # {}
  PROVE  Max(S) \in S /\ \A d \in S : d <= Max(S)
<1> DEFINE T == {LastDay - d : d \in S}
<1>1. T \in SUBSET Nat /\ T # {}
  <2>1. \A d \in S : LastDay - d \in Nat
    BY AnalyticsAssumption DEF Days
  <2> QED
    BY <2>1
<1>2. PICK d \in S : LastDay - d = Min(T)
  BY <1>1, MinNat
<1>3. \A e \in S : d >= e
  <2> TAKE e \in S
  <2>1. LastDay - d <= LastDay - e
    BY <1>1, <1>2, MinNat
  <2> QED
    BY <2>1, AnalyticsAssumption DEF Days
<1> QED
  BY <1>3 DEF Max

LEMMA MinMaxPair ==
  ASSUME NEW a \in Int, NEW b \in Int
  PROVE  /\ Min({a, b}) = IF a <= b THEN a ELSE b
         /\ Max({a, b}) = IF a <= b THEN b ELSE a
<1>1. /\ \E x \in {a, b} : \A y \in {a, b} : x <= y
      /\ \E x \in {a, b} : \A y \in {a, b} : x >= y
  OBVIOUS
<1> QED
  BY <1>1 DEF Min, Max

(* The months of the calendar begin and end on its days.                   *)
LEMMA MonthBounds ==
  ASSUME NEW d \in Days
  PROVE  /\ MonthStart(MonthOf[d]) \in Days
         /\ MonthEnd(MonthOf[d]) - 1 \in Days
         /\ MonthStart(MonthOf[d]) <= d /\ d <= MonthEnd(MonthOf[d]) - 1
<1> DEFINE S == {e \in Days : MonthOf[e] = MonthOf[d]}
<1>1. S \in SUBSET Days /\ S \in SUBSET Nat /\ d \in S
  BY AnalyticsAssumption DEF Days
<1> HIDE DEF S
<1>2. Min(S) \in S /\ Min(S) <= d /\ Max(S) \in S /\ d <= Max(S)
  BY <1>1, MinNat, MaxDay
<1>3. MonthStart(MonthOf[d]) = Min(S) /\ MonthEnd(MonthOf[d]) = Max(S) + 1
  BY DEF MonthStart, MonthEnd, S
<1>4. Max(S) \in Nat
  BY <1>1, <1>2
<1>5. (Max(S) + 1) - 1 = Max(S)
  BY <1>4
<1> QED
  BY <1>1, <1>2, <1>3, <1>5

----------------------------------------------------------------------------

(* Where the parts stand in the payload.                                   *)
LEMMA Places ==
  /\ Place("today") = 1 /\ Place("this_month") = 2 /\ Place("range_all_kinds") = 3
  /\ Place("range") = 4 /\ Place("prev_range") = 5 /\ Place("daily") = 6
  /\ Place("monthly") = 7 /\ Place("by_channel") = 8 /\ Place("by_kind") = 9
  /\ Place("digest_today") = 10 /\ Place("digest_week") = 11 /\ Place("budgets") = 12
  /\ Len(Parts) = 12
  BY DEF Place, Parts

LEMMA PartNames ==
  /\ Parts[1] = "today" /\ Parts[2] = "this_month" /\ Parts[3] = "range_all_kinds"
  /\ Parts[4] = "range" /\ Parts[5] = "prev_range" /\ Parts[6] = "daily"
  /\ Parts[7] = "monthly" /\ Parts[8] = "by_channel" /\ Parts[9] = "by_kind"
  /\ Parts[10] = "digest_today" /\ Parts[11] = "digest_week" /\ Parts[12] = "budgets"
  BY DEF Parts

(* The digest comes after the analysis, and looks at the clock first.      *)
LEMMA DigestLast ==
  ASSUME NEW i \in 1 .. 12
  PROVE  /\ Parts[i] = "digest_today" => i = 10
         /\ Parts[i] = "digest_week" => i = 11
  BY PartNames

(* The parts are a sequence, of whatever they show.                        *)
PartSeq == \E S : part \in Seq(S)

(* No part is kept without a request.                                      *)
IdleInv == ask = None => part = <<>>

(* The resolved window holds the days that were asked for; it holds today  *)
(* when they all lie ahead.                                                *)
WindowDays == IF WhollyAhead THEN {now} ELSE AskedDays

WindowInv ==
  ask # None =>
    \A d \in Days : d \in WindowDays <=> window.from <= d /\ d <= window.toDay

(* The days of a part that has been read, and which transactions it counts.*)
Frame(p) ==
  CASE p = "today"        -> <<now, now + 1>>
    [] p = "this_month"   -> <<MonthStart(MonthOf[now]), now + 1>>
    [] p = "prev_range"   -> PrevRange
    [] p = "daily"        -> DailyRange
    [] p = "digest_today" -> <<digest, digest + 1>>
    [] p = "digest_week"  -> <<digest - (Week - 1), digest + 1>>
    [] p = "budgets"      -> BudgetSpan
    [] OTHER              -> InRange

Holds(p, t) ==
  /\ Frame(p)[1] <= ledger[t].day /\ ledger[t].day < Frame(p)[2]
  /\ Selects(p, ledger[t].class)

(* A part counts what its query selects of the transactions booked by then.*)
Right(i) ==
  LET p == Parts[i]
  IN  /\ p # "by_channel" =>
           UNION {part[i][l] : l \in DOMAIN part[i]} = {t \in 1 .. at[i] : Holds(p, t)}
      /\ p = "by_channel" =>
           \A c \in DOMAIN part[i] :
             part[i][c] = {t \in 1 .. at[i] : Holds(p, t) /\ ledger[t].class.channel = c}
      /\ p = "daily" => DOMAIN part[i] = Frame(p)[1] .. Frame(p)[2] - 1

PartsRight == \A i \in 1 .. Len(part) : Right(i)

(* Later parts see more of the ledger.                                     *)
Growing == \A i, j \in 1 .. Len(at) : i <= j => at[i] <= at[j]

AnalyticsInv == TypeOK /\ PartSeq /\ IdleInv /\ WindowInv /\ PartsRight /\ Growing

(* What has been read stays right while its frame and its rows do.         *)
LEMMA StaysRight ==
  ASSUME NEW i, Right(i), part'[i] = part[i], at'[i] = at[i], ask' = ask,
         Frame(Parts[i])' = Frame(Parts[i]),
         \A t \in 1 .. at[i] : ledger'[t] = ledger[t]
  PROVE  Right(i)'
<1> DEFINE p == Parts[i]
<1>1. \A t \in 1 .. at[i] : Selects(p, ledger[t].class)' <=> Selects(p, ledger[t].class)
  BY DEF Selects
<1>2. \A t \in 1 .. at[i] : Holds(p, t)' <=> Holds(p, t)
  BY <1>1 DEF Holds
<1>3. {t \in 1 .. at[i] : Holds(p, t)}' = {t \in 1 .. at[i] : Holds(p, t)}
  BY <1>2
<1>4. \A c : {t \in 1 .. at[i] : Holds(p, t) /\ ledger[t].class.channel = c}'
               = {t \in 1 .. at[i] : Holds(p, t) /\ ledger[t].class.channel = c}
  BY <1>2
<1> QED
  BY <1>3, <1>4 DEF Right

LEMMA FrameStays ==
  ASSUME UNCHANGED <<now, digest, window>>
  PROVE  \A p : Frame(p)' = Frame(p)
  BY DEF Frame, PrevRange, DailyRange, DayCount, BudgetSpan, InRange

LEMMA AnalyticsInit == Init => AnalyticsInv
<1> SUFFICES ASSUME Init PROVE AnalyticsInv
  OBVIOUS
<1> USE DEF Init
<1>1. TypeOK
  BY AnalyticsAssumption, Places DEF TypeOK, None, Closed, Days, Months
<1>2. PartSeq /\ IdleInv /\ WindowInv
  <2>1. part \in Seq({})
    OBVIOUS
  <2> QED
    BY <2>1 DEF PartSeq, IdleInv, WindowInv
<1>3. PartsRight /\ Growing
  BY DEF PartsRight, Growing
<1> QED
  BY <1>1, <1>2, <1>3 DEF AnalyticsInv

(* A booked transaction comes after all those counted so far.              *)
LEMMA BookStep == AnalyticsInv /\ Book => AnalyticsInv'
<1> SUFFICES ASSUME AnalyticsInv, Book PROVE AnalyticsInv'
  OBVIOUS
<1>1. PICK new \in Txns : ledger' = Append(ledger, new)
  BY DEF Book
<1>2. UNCHANGED <<today, ask, now, digest, window, part, at>> /\ Len(ledger) < MaxTxns
  BY DEF Book
<1>3. /\ ledger \in Seq(Txns) /\ Len(ledger) \in Nat
      /\ at \in Seq(0 .. Len(ledger)) /\ Len(at) = Len(part)
  BY DEF AnalyticsInv, TypeOK
<1>4. ledger' \in Seq(Txns) /\ Len(ledger') = Len(ledger) + 1
  BY <1>1, <1>3
<1>5. \A t \in 1 .. Len(ledger) : ledger'[t] = ledger[t]
  BY <1>1, <1>3
<1>6. at \in Seq(0 .. Len(ledger'))
  <2>1. \A i \in 1 .. Len(at) : at[i] \in 0 .. Len(ledger')
    BY <1>3, <1>4
  <2> QED
    BY <1>3, <2>1
<1>7. TypeOK'
  BY <1>2, <1>4, <1>6, AnalyticsAssumption DEF AnalyticsInv, TypeOK
<1>8. PartSeq' /\ IdleInv' /\ WindowInv'
  BY <1>2 DEF AnalyticsInv, PartSeq, IdleInv, WindowInv, WindowDays, WhollyAhead, AskedDays, Asked
<1>9. PartsRight'
  <2> SUFFICES ASSUME NEW i \in 1 .. Len(part) PROVE Right(i)'
    BY <1>2 DEF PartsRight
  <2>1. at[i] \in 0 .. Len(ledger)
    BY <1>3
  <2>2. \A t \in 1 .. at[i] : ledger'[t] = ledger[t]
    BY <2>1, <1>3, <1>5
  <2>3. Right(i)
    BY DEF AnalyticsInv, PartsRight
  <2>4. Frame(Parts[i])' = Frame(Parts[i])
    BY <1>2, FrameStays
  <2> QED
    BY <1>2, <2>2, <2>3, <2>4, StaysRight
<1>10. Growing'
  BY <1>2 DEF AnalyticsInv, Growing
<1> QED
  BY <1>7, <1>8, <1>9, <1>10 DEF AnalyticsInv

LEMMA SamePartsRight ==
  ASSUME PartsRight, UNCHANGED <<ledger, ask, now, digest, window, part, at>>
  PROVE  PartsRight'
<1> SUFFICES ASSUME NEW i \in 1 .. Len(part) PROVE Right(i)'
  BY DEF PartsRight
<1>1. Frame(Parts[i])' = Frame(Parts[i])
  BY FrameStays
<1>2. Right(i)
  BY DEF PartsRight
<1> QED
  BY <1>1, <1>2, StaysRight

(* What has been read does not look at the clock.                          *)
LEMMA MidnightStep == AnalyticsInv /\ Midnight => AnalyticsInv'
<1> SUFFICES ASSUME AnalyticsInv, Midnight PROVE AnalyticsInv'
  OBVIOUS
<1>1. /\ UNCHANGED <<ledger, ask, now, digest, window, part, at>>
      /\ today' = today + 1 /\ today < LastDay
  BY DEF Midnight
<1>2. TypeOK'
  BY <1>1, AnalyticsAssumption DEF AnalyticsInv, TypeOK, Days
<1>3. PartSeq' /\ IdleInv' /\ WindowInv'
  BY <1>1 DEF AnalyticsInv, PartSeq, IdleInv, WindowInv, WindowDays, WhollyAhead, AskedDays, Asked
<1>4. PartsRight' /\ Growing'
  BY <1>1, SamePartsRight DEF AnalyticsInv, Growing
<1> QED
  BY <1>2, <1>3, <1>4 DEF AnalyticsInv

LEMMA FinishStep == AnalyticsInv /\ Finish => AnalyticsInv'
<1> SUFFICES ASSUME AnalyticsInv, Finish PROVE AnalyticsInv'
  OBVIOUS
<1> USE DEF Finish
<1>1. TypeOK'
  BY AnalyticsAssumption, Places DEF AnalyticsInv, TypeOK, None, Closed, Days, Months
<1>2. PartSeq' /\ IdleInv' /\ WindowInv'
  <2>1. part' \in Seq({})
    OBVIOUS
  <2> QED
    BY <2>1 DEF PartSeq, IdleInv, WindowInv
<1>3. PartsRight' /\ Growing'
  BY DEF PartsRight, Growing
<1> QED
  BY <1>1, <1>2, <1>3 DEF AnalyticsInv

----------------------------------------------------------------------------

(* What a request looks like, of the API or of a preset button.            *)
IsRequest(r) ==
  /\ r \in [dates : (Days \X Days) \cup {<<>>}, days : DaysAsked \cup {0}, kind : Filters,
            preset : DaysAsked \cup {-1}]

LEMMA RequestShapes ==
  ASSUME today \in Days
  PROVE  /\ \A r \in Requests : IsRequest(r)
         /\ \A n \in DaysAsked, k \in Filters : IsRequest(PresetRequest(n, k))
<1>1. \A r \in Requests : IsRequest(r)
  <2> SUFFICES ASSUME NEW r \in Requests PROVE IsRequest(r)
    OBVIOUS
  <2>1. CASE r \in [dates : Days \X Days, days : {0}, kind : Filters, preset : {-1}]
    BY <2>1 DEF IsRequest
  <2>2. CASE r \in [dates : {<<>>}, days : DaysAsked, kind : Filters, preset : {-1}]
    BY <2>2 DEF IsRequest
  <2> QED
    BY <2>1, <2>2 DEF Requests
<1>2. \A n \in DaysAsked, k \in Filters : IsRequest(PresetRequest(n, k))
  <2> SUFFICES ASSUME NEW n \in DaysAsked, NEW k \in Filters
               PROVE  IsRequest(PresetRequest(n, k))
    OBVIOUS
  <2>1. /\ MonthStart(MonthOf[today]) \in Days
        /\ MonthEnd(MonthOf[today]) - 1 \in Days
    BY MonthBounds
  <2> QED
    BY <2>1 DEF IsRequest, PresetRequest
<1> QED
  BY <1>1, <1>2

(* The days of a request and the window resolved from it: two dates ...    *)
LEMMA DatesAsked ==
  ASSUME NEW a \in Days, NEW b \in Days, today \in Days,
         NEW d \in Days
  PROVE  LET w    == DatesWindow(a, b)
             past == ((a .. b) \cup (b .. a)) \cap (0 .. today)
         IN  /\ w[1] \in Int /\ w[2] \in 0 .. today
             /\ d \in (IF past = {} THEN {today} ELSE past) <=> w[1] <= d /\ d <= w[2]
<1> DEFINE first == Min({a, b})
           last  == Max({a, b})
           w     == DatesWindow(a, b)
           past  == ((a .. b) \cup (b .. a)) \cap (0 .. today)
<1>1. a \in Nat /\ b \in Nat /\ d \in Nat /\ today \in Nat
  BY AnalyticsAssumption DEF Days
<1>2. first = IF a <= b THEN a ELSE b
  BY <1>1, MinMaxPair
<1>3. last = IF a <= b THEN b ELSE a
  BY <1>1, MinMaxPair
<1>4. first \in Nat /\ last \in Nat /\ first <= last
  BY <1>1, <1>2, <1>3
<1>5. Min({last, today}) = IF last <= today THEN last ELSE today
  BY <1>1, <1>4, MinMaxPair
<1>6. w = IF first > today THEN <<today, today>>
          ELSE <<first, IF last <= today THEN last ELSE today>>
  BY <1>5 DEF DatesWindow
<1>7. (a .. b) \cup (b .. a) = first .. last
  BY <1>1, <1>2, <1>3
<1>8. past = (first .. last) \cap (0 .. today)
  BY <1>7
<1> HIDE DEF first, last, w, past
<1>9. past = {} <=> first > today
  <2>1. first <= today => first \in past
    BY <1>8, <1>1, <1>4
  <2> QED
    BY <2>1, <1>8, <1>1, <1>4
<1>10. w[1] \in Int /\ w[2] \in 0 .. today
  BY <1>6, <1>1, <1>4
<1>11. d \in (IF past = {} THEN {today} ELSE past) <=> w[1] <= d /\ d <= w[2]
  BY <1>6, <1>8, <1>9, <1>1, <1>4
<1> QED
  BY <1>10, <1>11 DEF w, past

(* ... or all time, from the first transaction's day.                      *)
LEMMA AllTimeAsked ==
  ASSUME TypeOK
  PROVE  AllTimeWindow[1] \in Int /\ AllTimeWindow[2] = today
<1>1. ledger \in Seq(Txns) /\ today \in Nat
  BY AnalyticsAssumption DEF TypeOK, Days
<1>2. CASE ledger = <<>>
  BY <1>1, <1>2 DEF AllTimeWindow
<1>3. CASE ledger # <<>>
  <2> DEFINE S == {ledger[t].day : t \in DOMAIN ledger}
  <2>1. S \subseteq Nat
    <3>1. \A t \in DOMAIN ledger : ledger[t] \in Txns
      BY <1>1
    <3>2. \A x \in Txns : x.day \in Nat
      BY DEF Txns, Days
    <3> QED
      BY <3>1, <3>2
  <2>2. ledger[1].day \in S
    BY <1>1, <1>3
  <2> HIDE DEF S
  <2>3. Min(S) \in Nat
    BY <2>1, <2>2, MinNat
  <2> QED
    BY <2>3, <1>3 DEF AllTimeWindow, S
<1> QED
  BY <1>2, <1>3

(* A request resolves to a window of the days it asks for.                 *)
LEMMA AskStep ==
  ASSUME NEW r, IsRequest(r), AnalyticsInv, Ask(r)
  PROVE  AnalyticsInv'
<1>1. /\ ask' = r /\ now' = today /\ digest' = today
      /\ window' = [from |-> Resolved(r)[1], toDay |-> Resolved(r)[2], month |-> BudgetMonth(r)]
      /\ part' = <<>> /\ at' = <<>>
      /\ UNCHANGED <<today, ledger>>
  BY DEF Ask
<1>2. TypeOK /\ today \in Days /\ today \in Nat
  BY AnalyticsAssumption DEF AnalyticsInv, TypeOK, Days
<1>3. BudgetMonth(r) \in Months
  BY <1>2 DEF IsRequest, BudgetMonth, Months
<1>4. /\ Resolved(r)[1] \in Int /\ Resolved(r)[2] \in 0 .. today
      /\ WindowInv'
  <2>1. CASE r.dates # <<>>
    <3>1. PICK a \in Days, b \in Days : r.dates = <<a, b>>
      BY <2>1 DEF IsRequest
    <3>2. Resolved(r) = DatesWindow(a, b)
      BY <2>1, <3>1 DEF Resolved
    <3>3. 0 \in Days
      BY AnalyticsAssumption DEF Days
    <3>4. Resolved(r)[1] \in Int /\ Resolved(r)[2] \in 0 .. today
      BY <3>2, <3>3, <1>2, DatesAsked
    <3>5. WindowDays' = LET past == ((a .. b) \cup (b .. a)) \cap (0 .. today)
                        IN  IF past = {} THEN {today} ELSE past
      <4>1. ask'.dates # <<>> /\ ask'.dates[1] = a /\ ask'.dates[2] = b /\ now' = today
        BY <1>1, <2>1, <3>1
      <4>2. Asked' = (a .. b) \cup (b .. a)
        BY <4>1 DEF Asked
      <4> QED
        BY <4>1, <4>2 DEF WindowDays, WhollyAhead, AskedDays
    <3>6. \A d \in Days : d \in WindowDays' <=> Resolved(r)[1] <= d /\ d <= Resolved(r)[2]
      BY <3>2, <3>5, <1>2, DatesAsked
    <3> QED
      BY <3>4, <3>6, <1>1 DEF WindowInv
  <2>2. CASE r.dates = <<>> /\ r.days > 0
    <3>1. r.days \in Nat
      <4>1. r.days \in DaysAsked \cup {0}
        BY DEF IsRequest
      <4>2. \A n \in DaysAsked \cup {0} : n \in Nat
        BY AnalyticsAssumption
      <4> QED
        BY <4>1, <4>2, Zenon
    <3>2. Resolved(r) = <<today - (r.days - 1), today>>
      BY <2>2 DEF Resolved
    <3>3. WindowDays' = {d \in Days : today - d < r.days} \cap (0 .. today)
      <4>1. ask'.dates = <<>> /\ ask'.days = r.days /\ ask'.days > 0 /\ now' = today
        BY <1>1, <2>2
      <4>2. Asked' = {d \in Days : today - d < r.days}
        BY <4>1 DEF Asked
      <4> QED
        BY <4>1, <4>2 DEF WindowDays, WhollyAhead, AskedDays
    <3>4. \A d \in Days : d \in WindowDays' <=> Resolved(r)[1] <= d /\ d <= Resolved(r)[2]
      BY <3>1, <3>2, <3>3, <1>2 DEF Days
    <3> QED
      BY <3>1, <3>2, <3>4, <1>1, <1>2 DEF WindowInv
  <2>3. CASE r.dates = <<>> /\ ~ (r.days > 0)
    <3>1. Resolved(r) = AllTimeWindow
      BY <2>3 DEF Resolved
    <3>2. Resolved(r)[1] \in Int /\ Resolved(r)[2] = today
      BY <3>1, <1>2, AllTimeAsked
    <3>3. WindowDays' = {d \in Days : d >= Resolved(r)[1]} \cap (0 .. today)
      <4>1. /\ ask'.dates = <<>> /\ ~ (ask'.days > 0) /\ now' = today
            /\ window'.from = Resolved(r)[1]
        BY <1>1, <2>3
      <4>2. Asked' = {d \in Days : d >= Resolved(r)[1]}
        BY <4>1 DEF Asked
      <4> QED
        BY <4>1, <4>2 DEF WindowDays, WhollyAhead, AskedDays
    <3>4. \A d \in Days : d \in WindowDays' <=> Resolved(r)[1] <= d /\ d <= Resolved(r)[2]
      BY <3>2, <3>3, <1>2 DEF Days
    <3> QED
      BY <3>2, <3>4, <1>1, <1>2 DEF WindowInv
  <2> QED
    BY <2>1, <2>2, <2>3
<1>5. TypeOK'
  BY <1>1, <1>2, <1>3, <1>4, Places DEF TypeOK, IsRequest
<1>6. PartSeq' /\ IdleInv'
  <2>1. part' \in Seq({})
    BY <1>1
  <2> QED
    BY <2>1, <1>1 DEF PartSeq, IdleInv
<1>7. PartsRight' /\ Growing'
  BY <1>1 DEF PartsRight, Growing
<1> QED
  BY <1>4, <1>5, <1>6, <1>7 DEF AnalyticsInv

----------------------------------------------------------------------------

(* Every transaction of a part has a label there.                          *)
LEMMA Labelled ==
  ASSUME NEW p
  PROVE  \A t \in Rows(p) : LabelOf(p, t) \in Labels(p)
BY DEF Labels

(* A part but the list of channels shows whatever it counts.               *)
LEMMA AllListed ==
  ASSUME NEW p, p # "by_channel"
  PROVE  Listings(p) = {Labels(p)}
BY DEF Listings

(* The digest's look at the clock is the one it keeps.                     *)
LEMMA FrameRead ==
  ASSUME UNCHANGED <<now, window>>
  PROVE  \A p : Frame(p)' = Span(p)
BY DEF Frame, Span, PrevRange, DailyRange, DayCount, DigestWeek, BudgetSpan, InRange

(* The daily curve shows each day of its frame.                            *)
LEMMA DailyLabels ==
  ASSUME ledger \in Seq(Txns), Span("daily")[1] \in Int, Span("daily")[2] \in Int
  PROVE  Labels("daily") = Span("daily")[1] .. Span("daily")[2] - 1
<1>1. \A t \in DOMAIN ledger : ledger[t].day \in Int
  <2> TAKE t \in DOMAIN ledger
  <2>1. ledger[t] \in Txns
    OBVIOUS
  <2> QED
    BY <2>1 DEF Txns, Days
<1>2. Prefilled("daily") = Span("daily")[1] .. Span("daily")[2] - 1
  BY DEF Prefilled
<1>3. \A t \in Rows("daily") : LabelOf("daily", t) \in Span("daily")[1] .. Span("daily")[2] - 1
  <2> TAKE t \in Rows("daily")
  <2>1. /\ t \in DOMAIN ledger
        /\ ledger[t].day >= Span("daily")[1] /\ ledger[t].day < Span("daily")[2]
    BY DEF Rows
  <2>2. LabelOf("daily", t) = ledger[t].day
    BY DEF LabelOf
  <2> QED
    BY <1>1, <2>1, <2>2
<1> QED
  BY <1>2, <1>3 DEF Labels

LEMMA DailySpan ==
  ASSUME TypeOK
  PROVE  /\ Span("daily")[1] \in Int /\ Span("daily")[2] \in Int
         /\ window.from <= window.toDay =>
              /\ DayCount = window.toDay - window.from + 1
              /\ DailyRange[2] = window.toDay + 1
              /\ \A d \in Int : DailyRange[1] <= d <=>
                                  window.from <= d /\ window.toDay - d < MaxDaily
<1>1. window.from \in Int /\ window.toDay \in Int /\ MaxDaily \in Nat \ {0}
  BY AnalyticsAssumption DEF TypeOK
<1> DEFINE length == window.toDay - window.from + 1
<1>2. length \in Int /\ DayCount = Max({1, length})
  BY <1>1 DEF DayCount
<1> HIDE DEF length
<1>3. DayCount = IF 1 <= length THEN length ELSE 1
  BY <1>2, MinMaxPair
<1>4. DayCount \in Int
  BY <1>2, <1>3
<1>5. Span("daily") = DailyRange
  BY DEF Span
<1>6. CASE DayCount > MaxDaily
  BY <1>1, <1>2, <1>3, <1>4, <1>5, <1>6 DEF DailyRange, length
<1>7. CASE ~ (DayCount > MaxDaily)
  BY <1>1, <1>2, <1>3, <1>4, <1>5, <1>7 DEF DailyRange, length
<1> QED
  BY <1>6, <1>7

(* A part is read on the ledger of the moment, and stays as it was read.   *)
LEMMA ReadStep == AnalyticsInv /\ Read => AnalyticsInv'
<1> SUFFICES ASSUME AnalyticsInv, Read PROVE AnalyticsInv'
  OBVIOUS
<1>a. Len(part) \in Nat /\ Len(part) + 1 \in 1 .. 12
  BY Places DEF AnalyticsInv, PartSeq, Read
<1>b. PICK n \in 1 .. 12 : n = Len(part) + 1
  BY <1>a
<1>c. PICK p : p = Parts[n]
  OBVIOUS
<1>1. /\ ask # None /\ Len(part) < Len(Parts)
      /\ digest' = IF p = "digest_today" THEN today ELSE digest
      /\ at' = Append(at, Len(ledger))
      /\ UNCHANGED <<today, ledger, ask, now, window>>
  BY <1>b, <1>c DEF Read
<1>2. PICK listed \in Listings(p) :
        part' = Append(part, [l \in listed |-> {t \in Rows(p) : LabelOf(p, t) = l}])
  BY <1>b, <1>c DEF Read
<1> DEFINE x == [l \in listed |-> {t \in Rows(p) : LabelOf(p, t) = l}]
<1>3. PICK S : part \in Seq(S)
  BY DEF AnalyticsInv, PartSeq
<1>4. /\ at \in Seq(0 .. Len(ledger)) /\ Len(at) = Len(part)
      /\ ledger \in Seq(Txns) /\ Len(ledger) \in Nat
      /\ DOMAIN part = 1 .. Len(part) /\ Len(part) \in Nat
  BY <1>3 DEF AnalyticsInv, TypeOK
<1>5. \A l \in DOMAIN x : x[l] \subseteq 1 .. Len(ledger)
  <2>1. Rows(p) \subseteq 1 .. Len(ledger)
    BY <1>4 DEF Rows
  <2> QED
    BY <2>1
<1> HIDE DEF x
<1>6. part' = Append(part, x)
  BY <1>2 DEF x
<1>7. /\ part \in Seq(S \cup {x}) /\ part' \in Seq(S \cup {x})
      /\ Len(part') = n /\ part'[n] = x /\ DOMAIN part' = 1 .. n
      /\ \A i \in 1 .. Len(part) : part'[i] = part[i]
  <2>1. part \in Seq(S \cup {x})
    BY <1>3
  <2> QED
    BY <2>1, <1>6, <1>b
<1>8. /\ at' \in Seq(0 .. Len(ledger))
      /\ Len(at') = n /\ at'[n] = Len(ledger)
      /\ \A i \in 1 .. Len(part) : at'[i] = at[i]
  BY <1>1, <1>4, <1>b
<1>9. TypeOK'
  <2>1. digest' \in now' .. today' /\ today' \in Days /\ now' \in 0 .. today'
    BY <1>1, AnalyticsAssumption DEF AnalyticsInv, TypeOK, Days
  <2>2. Len(part') = Len(at') /\ Len(part') <= Len(Parts)
    BY <1>1, <1>7, <1>8, <1>4, <1>b, Places
  <2>3. \A i \in DOMAIN part' : \A l \in DOMAIN part'[i] : part'[i][l] \subseteq 1 .. at'[i]
    <3> SUFFICES ASSUME NEW i \in 1 .. n
                 PROVE  \A l \in DOMAIN part'[i] : part'[i][l] \subseteq 1 .. at'[i]
      BY <1>7
    <3>1. CASE i = n
      BY <3>1, <1>5, <1>7, <1>8
    <3>2. CASE i \in 1 .. Len(part)
      <4>1. part'[i] = part[i] /\ at'[i] = at[i] /\ i \in DOMAIN part
        BY <3>2, <1>4, <1>7, <1>8
      <4> QED
        BY <4>1 DEF AnalyticsInv, TypeOK
    <3> QED
      BY <3>1, <3>2, <1>4, <1>b
  <2> QED
    BY <1>1, <1>8, <2>1, <2>2, <2>3 DEF AnalyticsInv, TypeOK
<1>10. PartSeq' /\ IdleInv' /\ WindowInv'
  BY <1>1, <1>7 DEF AnalyticsInv, PartSeq, IdleInv, WindowInv, WindowDays, WhollyAhead, AskedDays, Asked
<1>11. Right(n)'
  <2>1. Frame(p)' = Span(p)
    <3>1. UNCHANGED <<now, window>>
      BY <1>1
    <3>2. \A q : Frame(q)' = Span(q)
      BY <3>1, FrameRead
    <3> QED
      BY <3>2
  <2>2. Rows(p) = {t \in 1 .. at[n] : Holds(p, t)}'
    <3>1. DOMAIN ledger = 1 .. at'[n]
      BY <1>4, <1>8
    <3>2. \A t \in DOMAIN ledger : Selects(p, ledger[t].class)' <=> Selects(p, ledger[t].class)
      BY <1>1 DEF Selects
    <3>3. \A t \in DOMAIN ledger : Holds(p, t)' <=>
            /\ Span(p)[1] <= ledger[t].day /\ ledger[t].day < Span(p)[2]
            /\ Selects(p, ledger[t].class)
      BY <1>1, <2>1, <3>2 DEF Holds
    <3> QED
      BY <1>1, <3>1, <3>3 DEF Rows
  <2>3. ASSUME p # "by_channel" PROVE UNION {x[l] : l \in DOMAIN x} = Rows(p)
    <3>1. listed = Labels(p)
      BY <1>2, <2>3, AllListed
    <3>2. \A t \in Rows(p) : LabelOf(p, t) \in Labels(p)
      BY Labelled
    <3> QED
      BY <3>1, <3>2 DEF x
  <2>4. ASSUME p = "by_channel", NEW c \in DOMAIN x
        PROVE  x[c] = {t \in Rows(p) : ledger[t].class.channel = c}
    <3>1. \A t : LabelOf(p, t) = ledger[t].class.channel
      BY <2>4 DEF LabelOf
    <3> QED
      BY <2>4, <3>1 DEF x
  <2>5. ASSUME p = "daily" PROVE DOMAIN x = Frame(p)'[1] .. Frame(p)'[2] - 1
    <3>1. listed = Labels("daily")
      BY <1>2, <2>5, AllListed
    <3>2. Labels("daily") = Span("daily")[1] .. Span("daily")[2] - 1
      BY <1>4, DailyLabels, DailySpan DEF AnalyticsInv
    <3> QED
      BY <2>1, <2>5, <3>1, <3>2 DEF x
  <2>6. p # "by_channel" => UNION {x[l] : l \in DOMAIN x} = {t \in 1 .. at[n] : Holds(p, t)}'
    BY <2>2, <2>3
  <2>7. p = "by_channel" =>
          \A c \in DOMAIN x :
            x[c] = {t \in 1 .. at[n] : Holds(p, t) /\ ledger[t].class.channel = c}'
    <3> SUFFICES ASSUME p = "by_channel", NEW c \in DOMAIN x
                 PROVE  x[c] = {t \in 1 .. at[n] : Holds(p, t) /\ ledger[t].class.channel = c}'
      OBVIOUS
    <3>1. x[c] = {t \in Rows(p) : ledger[t].class.channel = c}
      BY <2>4
    <3> QED
      BY <3>1, <2>2, <1>1
  <2>8. p = "daily" => DOMAIN x = Frame(p)'[1] .. Frame(p)'[2] - 1
    BY <2>5
  <2> QED
    BY <1>7, <1>c, <2>6, <2>7, <2>8 DEF Right
<1>12. PartsRight'
  <2> SUFFICES ASSUME NEW i \in 1 .. n PROVE Right(i)'
    BY <1>7 DEF PartsRight
  <2>1. CASE i = n
    BY <1>11, <2>1
  <2>2. CASE i \in 1 .. Len(part)
    <3>1. n \in 1 .. 12 /\ i \in 1 .. 12 /\ i < n
      BY <1>a, <1>b, <2>2
    <3>2. digest' = digest \/ n = 10
      BY <1>1, <1>c, DigestLast
    <3>3. Frame(Parts[i])' = Frame(Parts[i])
      <4>1. CASE digest' = digest
        BY <1>1, <4>1, FrameStays
      <4>2. CASE n = 10
        <5>1. Parts[i] # "digest_today" /\ Parts[i] # "digest_week"
          BY <3>1, <4>2, DigestLast
        <5> QED
          BY <1>1, <5>1 DEF Frame, PrevRange, DailyRange, DayCount, BudgetSpan, InRange
      <4> QED
        BY <3>2, <4>1, <4>2
    <3>4. Right(i) /\ part'[i] = part[i] /\ at'[i] = at[i]
      BY <1>7, <1>8, <2>2 DEF AnalyticsInv, PartsRight
    <3> QED
      BY <1>1, <3>3, <3>4, StaysRight
  <2> QED
    BY <2>1, <2>2, <1>4, <1>b
<1>13. Growing'
  <2> SUFFICES ASSUME NEW i \in 1 .. n, NEW j \in 1 .. n, i <= j PROVE at'[i] <= at'[j]
    BY <1>8 DEF Growing
  <2>1. CASE j = n
    <3>1. at'[i] \in 0 .. Len(ledger)
      BY <1>8
    <3> QED
      BY <1>8, <2>1, <3>1
  <2>2. CASE j \in 1 .. Len(part)
    <3>1. i \in 1 .. Len(at) /\ j \in 1 .. Len(at)
      BY <1>4, <2>2
    <3> QED
      BY <1>4, <1>8, <2>2, <3>1 DEF AnalyticsInv, Growing
  <2> QED
    BY <2>1, <2>2, <1>4, <1>b
<1> QED
  BY <1>9, <1>10, <1>12, <1>13 DEF AnalyticsInv

----------------------------------------------------------------------------
(* The theorems *)

(* The inductive invariant.                                                *)
THEOREM AnalyticsInductive == Spec => []AnalyticsInv
<1>1. AnalyticsInv /\ [Next]_vars => AnalyticsInv'
  <2> SUFFICES ASSUME AnalyticsInv, [Next]_vars PROVE AnalyticsInv'
    OBVIOUS
  <2>1. today \in Days
    BY DEF AnalyticsInv, TypeOK
  <2>2. CASE Book
    BY <2>2, BookStep
  <2>3. CASE Midnight
    BY <2>3, MidnightStep
  <2>4. CASE \E r \in Requests : Ask(r)
    BY <2>1, <2>4, RequestShapes, AskStep
  <2>5. CASE \E n \in DaysAsked, k \in Filters : Ask(PresetRequest(n, k))
    BY <2>1, <2>5, RequestShapes, AskStep
  <2>6. CASE Read
    BY <2>6, ReadStep
  <2>7. CASE Finish
    BY <2>7, FinishStep
  <2>8. CASE UNCHANGED vars
    <3>1. UNCHANGED <<today, ledger, ask, now, digest, window, part, at>>
      BY <2>8 DEF vars
    <3>2. TypeOK' /\ PartSeq' /\ IdleInv'
      BY <3>1 DEF AnalyticsInv, TypeOK, PartSeq, IdleInv
    <3>3. WindowInv'
      BY <3>1 DEF AnalyticsInv, WindowInv, WindowDays, WhollyAhead, AskedDays, Asked
    <3>4. PartsRight' /\ Growing'
      BY <3>1, SamePartsRight DEF AnalyticsInv, Growing
    <3> QED
      BY <3>2, <3>3, <3>4 DEF AnalyticsInv
  <2> QED
    BY <2>2, <2>3, <2>4, <2>5, <2>6, <2>7, <2>8 DEF Next
<1> QED
  BY AnalyticsInit, <1>1, PTL DEF Spec

(* The window is never after today and every part counts only transactions *)
(* that had been booked when it was read.                                  *)
THEOREM AnalyticsTypeCorrect == Spec => []TypeOK
<1>1. AnalyticsInv => TypeOK
  BY DEF AnalyticsInv
<1> QED
  BY AnalyticsInductive, <1>1, PTL

(* What a part that has been read counts.                                  *)
LEMMA PartCounts ==
  ASSUME AnalyticsInv, NEW p, IsRead(p), NEW k \in 1 .. 12, Place(p) = k, Parts[k] = p
  PROVE  /\ k <= Len(part) /\ k \in DOMAIN at /\ at[k] \in 0 .. Len(ledger)
         /\ \A t \in 1 .. at[k] : ledger[t].day \in Days /\ ledger[t].day \in Int
         /\ p # "by_channel" => Counted(p) = {t \in 1 .. at[k] : Holds(p, t)}
         /\ Right(k)
<1>1. /\ ledger \in Seq(Txns) /\ at \in Seq(0 .. Len(ledger)) /\ Len(at) = Len(part)
  BY DEF AnalyticsInv, TypeOK
<1>2. k <= Len(part) /\ Len(part) \in Nat
  BY <1>1 DEF IsRead
<1>3. k \in DOMAIN at /\ at[k] \in 0 .. Len(ledger)
  BY <1>1, <1>2
<1>4. \A t \in 1 .. at[k] : ledger[t].day \in Days /\ ledger[t].day \in Int
  <2> TAKE t \in 1 .. at[k]
  <2>1. ledger[t] \in Txns
    BY <1>1, <1>3
  <2> QED
    BY <2>1 DEF Txns, Days
<1>5. Right(k)
  BY <1>2 DEF AnalyticsInv, PartsRight
<1> QED
  BY <1>2, <1>3, <1>4, <1>5 DEF Right, Counted, Shown

(* The totals of the range count exactly the transactions of the days and  *)
(* the kind that were asked for, whatever is booked meanwhile, unless both *)
(* dates lie ahead.                                                        *)
THEOREM RangeCountsAsked == Spec => []RangeIsAsked
<1>1. AnalyticsInv => RangeIsAsked
  <2> SUFFICES ASSUME AnalyticsInv, IsRead("range"), ~ WhollyAhead
               PROVE  Counted("range") = {t \in 1 .. at[4] : ledger[t].day \in AskedDays /\ OfKind(t)}
    BY Places DEF RangeIsAsked
  <2>1. /\ ledger \in Seq(Txns) /\ at \in Seq(0 .. Len(ledger)) /\ Len(at) = Len(part)
        /\ window.from \in Int /\ window.toDay \in Int
    BY DEF AnalyticsInv, TypeOK
  <2>2. /\ Len(part) >= 4 /\ at[4] \in 0 .. Len(ledger)
        /\ \A t \in 1 .. at[4] : ledger[t].day \in Days /\ ledger[t].day \in Int
        /\ Counted("range") = {t \in 1 .. at[4] : Holds("range", t)}
    BY Places, PartNames, PartCounts
  <2>3. ask # None
    BY <2>2 DEF AnalyticsInv, IdleInv
  <2>4. \A t \in 1 .. at[4] : ledger[t].day \in AskedDays <=>
          window.from <= ledger[t].day /\ ledger[t].day < window.toDay + 1
    BY <2>1, <2>2, <2>3 DEF AnalyticsInv, WindowInv, WindowDays
  <2>5. \A t \in 1 .. at[4] : Holds("range", t) <=>
          /\ window.from <= ledger[t].day /\ ledger[t].day < window.toDay + 1
          /\ OfKind(t)
    BY DEF Holds, Frame, InRange, Selects, OfKind
  <2> QED
    BY <2>2, <2>4, <2>5
<1> QED
  BY AnalyticsInductive, <1>1, PTL

(* The range is compared with one as long that ends the day before it.     *)
THEOREM PrevRangeAdjoins == Spec => []PrevAdjoins
<1>1. AnalyticsInv => PrevAdjoins
  <2> SUFFICES ASSUME AnalyticsInv, IsRead("prev_range"), window.from <= window.toDay
               PROVE  Counted("prev_range") =
                        {t \in 1 .. at[5] :
                           /\ OfKind(t)
                           /\ ledger[t].day < window.from
                           /\ window.from - ledger[t].day <= window.toDay - window.from + 1}
    BY Places DEF PrevAdjoins
  <2>1. /\ ledger \in Seq(Txns) /\ at \in Seq(0 .. Len(ledger)) /\ Len(at) = Len(part)
        /\ window.from \in Int /\ window.toDay \in Int
    BY DEF AnalyticsInv, TypeOK
  <2>2. /\ \A t \in 1 .. at[5] : ledger[t].day \in Int
        /\ Counted("prev_range") = {t \in 1 .. at[5] : Holds("prev_range", t)}
    BY Places, PartNames, PartCounts
  <2>3. DayCount = window.toDay - window.from + 1
    BY DailySpan DEF AnalyticsInv
  <2>4. \A t \in 1 .. at[5] :
          window.from - DayCount <= ledger[t].day <=>
            window.from - ledger[t].day <= window.toDay - window.from + 1
    BY <2>1, <2>2, <2>3
  <2>5. \A t \in 1 .. at[5] : Holds("prev_range", t) <=>
          /\ window.from - DayCount <= ledger[t].day /\ ledger[t].day < window.from
          /\ OfKind(t)
    BY DEF Holds, Frame, PrevRange, Selects, OfKind
  <2> QED
    BY <2>2, <2>4, <2>5
<1> QED
  BY AnalyticsInductive, <1>1, PTL

(* An earlier part and a later one, as far as both have been read.         *)
LEMMA TwoParts ==
  ASSUME AnalyticsInv,
         NEW e, NEW k \in 1 .. 12, Place(e) = k, Parts[k] = e, e # "by_channel",
         NEW p, NEW j \in 1 .. 12, Place(p) = j, Parts[j] = p, IsRead(p), k <= j
  PROVE  /\ at[k] \in Nat /\ at[j] \in Nat /\ at[k] <= at[j]
         /\ \A t \in 1 .. at[j] : ledger[t].day \in Days /\ ledger[t].day \in Int
         /\ Counted(e) = {t \in 1 .. at[k] : Holds(e, t)}
         /\ p # "by_channel" => Counted(p) = {t \in 1 .. at[j] : Holds(p, t)}
         /\ ask # None
<1>1. /\ at \in Seq(0 .. Len(ledger)) /\ Len(at) = Len(part) /\ ledger \in Seq(Txns)
  BY DEF AnalyticsInv, TypeOK
<1>2. j <= Len(part) /\ Len(part) \in Nat
  BY <1>1 DEF IsRead
<1>3. IsRead(e)
  BY <1>2 DEF IsRead
<1>4. at[k] \in Nat /\ at[j] \in Nat
  BY <1>1, <1>2
<1>5. at[k] <= at[j]
  <2>1. k \in 1 .. Len(at) /\ j \in 1 .. Len(at)
    BY <1>1, <1>2
  <2> QED
    BY <2>1 DEF AnalyticsInv, Growing
<1>6. Counted(e) = {t \in 1 .. at[k] : Holds(e, t)}
  BY <1>3, PartCounts
<1>7. /\ \A t \in 1 .. at[j] : ledger[t].day \in Days /\ ledger[t].day \in Int
      /\ p # "by_channel" => Counted(p) = {t \in 1 .. at[j] : Holds(p, t)}
  BY PartCounts
<1>8. ask # None
  BY <1>2 DEF AnalyticsInv, IdleInv
<1> QED
  BY <1>4, <1>5, <1>6, <1>7, <1>8

(* The breakdowns by kind of filter, day, month, kind and channel add up   *)
(* to the totals of the range.                                             *)
THEOREM PartsAddUp == Spec => []PartsAgree
<1>1. AnalyticsInv => PartsAgree
  <2> SUFFICES ASSUME AnalyticsInv, window.from <= window.toDay PROVE PartsAgree
    BY DEF PartsAgree
  <2>1. window.from \in Int /\ window.toDay \in Int
    BY DEF AnalyticsInv, TypeOK
  <2>2. ASSUME IsRead("range")
        PROVE  Agree("range_all_kinds", {t \in Counted("range_all_kinds") : OfKind(t)},
                                        Counted("range"))
    <3>1. /\ at[3] \in Nat /\ at[4] \in Nat /\ at[3] <= at[4]
          /\ Counted("range_all_kinds") = {t \in 1 .. at[3] : Holds("range_all_kinds", t)}
          /\ Counted("range") = {t \in 1 .. at[4] : Holds("range", t)}
      BY <2>2, Places, PartNames, TwoParts
    <3>2. \A t : Holds("range", t) <=> Holds("range_all_kinds", t) /\ OfKind(t)
      BY DEF Holds, Frame, Selects, OfKind
    <3> QED
      BY <3>1, <3>2, Places DEF Agree
  <2>3. ASSUME IsRead("daily")
        PROVE  LET shown == {d \in window.from .. window.toDay : window.toDay - d < MaxDaily}
               IN  /\ DOMAIN Shown("daily") = shown
                   /\ Agree("range", {t \in Counted("range") : ledger[t].day \in shown},
                                     Counted("daily"))
    <3> DEFINE shown == {d \in window.from .. window.toDay : window.toDay - d < MaxDaily}
    <3>1. /\ at[4] \in Nat /\ at[6] \in Nat /\ at[4] <= at[6]
          /\ \A t \in 1 .. at[6] : ledger[t].day \in Int
          /\ Counted("range") = {t \in 1 .. at[4] : Holds("range", t)}
          /\ Counted("daily") = {t \in 1 .. at[6] : Holds("daily", t)}
      BY <2>3, Places, PartNames, TwoParts
    <3>2. /\ DailyRange[1] \in Int /\ DailyRange[2] = window.toDay + 1
          /\ \A d \in Int : DailyRange[1] <= d <=>
                              window.from <= d /\ window.toDay - d < MaxDaily
      BY DailySpan DEF AnalyticsInv, Span
    <3>3. Frame("daily") = DailyRange
      BY DEF Frame
    <3>4. DOMAIN Shown("daily") = DailyRange[1] .. DailyRange[2] - 1
      <4>1. Right(6)
        BY <2>3, Places, PartNames, PartCounts
      <4> QED
        BY <4>1, <3>3, Places, PartNames DEF Right, Shown
    <3>5. DOMAIN Shown("daily") = shown
      <4>1. DailyRange[2] - 1 = window.toDay
        BY <3>2, <2>1
      <4>2. \A d : d \in DailyRange[1] .. window.toDay <=> d \in shown
        BY <3>2, <2>1
      <4> QED
        BY <3>4, <4>1, <4>2
    <3>6. \A t \in 1 .. at[6] :
            Holds("daily", t) <=> Holds("range", t) /\ ledger[t].day \in shown
      <4> TAKE t \in 1 .. at[6]
      <4>1. Holds("daily", t) <=> /\ DailyRange[1] <= ledger[t].day
                                  /\ ledger[t].day < window.toDay + 1
                                  /\ OfKind(t)
        BY <3>2, <3>3 DEF Holds, Selects, OfKind
      <4>2. Holds("range", t) <=> /\ window.from <= ledger[t].day
                                  /\ ledger[t].day < window.toDay + 1
                                  /\ OfKind(t)
        BY DEF Holds, Frame, InRange, Selects, OfKind
      <4> QED
        BY <4>1, <4>2, <3>1, <3>2, <2>1
    <3> HIDE DEF shown
    <3>7. Agree("range", {t \in Counted("range") : ledger[t].day \in shown}, Counted("daily"))
      BY <3>1, <3>6, Places DEF Agree
    <3> QED
      BY <3>5, <3>7 DEF shown
  <2>4. ASSUME IsRead("monthly")
        PROVE  Agree("range", Counted("range"), Counted("monthly"))
    <3>1. /\ at[4] \in Nat /\ at[7] \in Nat /\ at[4] <= at[7]
          /\ Counted("range") = {t \in 1 .. at[4] : Holds("range", t)}
          /\ Counted("monthly") = {t \in 1 .. at[7] : Holds("monthly", t)}
      BY <2>4, Places, PartNames, TwoParts
    <3>2. \A t : Holds("monthly", t) <=> Holds("range", t)
      BY DEF Holds, Frame, Selects
    <3> QED
      BY <3>1, <3>2, Places DEF Agree
  <2>5. ASSUME IsRead("by_kind")
        PROVE  Agree("range_all_kinds", Counted("range_all_kinds"), Counted("by_kind"))
    <3>1. /\ at[3] \in Nat /\ at[9] \in Nat /\ at[3] <= at[9]
          /\ Counted("range_all_kinds") = {t \in 1 .. at[3] : Holds("range_all_kinds", t)}
          /\ Counted("by_kind") = {t \in 1 .. at[9] : Holds("by_kind", t)}
      BY <2>5, Places, PartNames, TwoParts
    <3>2. \A t : Holds("by_kind", t) <=> Holds("range_all_kinds", t)
      BY DEF Holds, Frame, Selects
    <3> QED
      BY <3>1, <3>2, Places DEF Agree
  <2>6. ASSUME IsRead("by_channel"), NEW c \in DOMAIN Shown("by_channel")
        PROVE  Agree("monthly", {t \in Counted("monthly") : ledger[t].class.channel = c},
                                Shown("by_channel")[c])
    <3>1. /\ at[7] \in Nat /\ at[8] \in Nat /\ at[7] <= at[8]
          /\ Counted("monthly") = {t \in 1 .. at[7] : Holds("monthly", t)}
      BY <2>6, Places, PartNames, TwoParts
    <3>2. Right(8) /\ Parts[8] = "by_channel" /\ Shown("by_channel") = part[8]
      BY <2>6, Places, PartNames, PartCounts DEF Shown
    <3>3. Shown("by_channel")[c] =
            {t \in 1 .. at[8] : Holds("by_channel", t) /\ ledger[t].class.channel = c}
      BY <2>6, <3>2 DEF Right
    <3>4. \A t : Holds("monthly", t) <=> Holds("by_channel", t)
      BY DEF Holds, Frame, Selects
    <3> QED
      BY <3>1, <3>3, <3>4, Places DEF Agree
  <2> QED
    BY <2>2, <2>3, <2>4, <2>5, <2>6 DEF PartsAgree
<1> QED
  BY AnalyticsInductive, <1>1, PTL

(* On the same day the digest says of today and of the last week what the  *)
(* analysis says.                                                          *)
THEOREM DigestTellsTheSame == Spec => []DigestAgrees
<1>1. AnalyticsInv => DigestAgrees
  <2> SUFFICES ASSUME AnalyticsInv, digest = now PROVE DigestAgrees
    BY DEF DigestAgrees
  <2>1. ASSUME IsRead("digest_today")
        PROVE  Agree("today", Counted("today"), Counted("digest_today"))
    <3>1. /\ at[1] \in Nat /\ at[10] \in Nat /\ at[1] <= at[10]
          /\ Counted("today") = {t \in 1 .. at[1] : Holds("today", t)}
          /\ Counted("digest_today") = {t \in 1 .. at[10] : Holds("digest_today", t)}
      BY <2>1, Places, PartNames, TwoParts
    <3>2. \A t : Holds("digest_today", t) <=> Holds("today", t)
      BY DEF Holds, Frame, Selects
    <3> QED
      BY <3>1, <3>2, Places DEF Agree
  <2>2. ASSUME IsRead("digest_week"), window.toDay = now, window.from = now - (Week - 1)
        PROVE  Agree("range_all_kinds", Counted("range_all_kinds"), Counted("digest_week"))
    <3>1. /\ at[3] \in Nat /\ at[11] \in Nat /\ at[3] <= at[11]
          /\ Counted("range_all_kinds") = {t \in 1 .. at[3] : Holds("range_all_kinds", t)}
          /\ Counted("digest_week") = {t \in 1 .. at[11] : Holds("digest_week", t)}
      BY <2>2, Places, PartNames, TwoParts
    <3>2. \A t : Holds("digest_week", t) <=> Holds("range_all_kinds", t)
      BY <2>2 DEF Holds, Frame, InRange, Selects
    <3> QED
      BY <3>1, <3>2, Places DEF Agree
  <2> QED
    BY <2>1, <2>2 DEF DigestAgrees
<1> QED
  BY AnalyticsInductive, <1>1, PTL

(* What the budgets of a month have spent is what went out by its totals.  *)
THEOREM BudgetsTellTheSame == Spec => []BudgetsAgree
<1>1. AnalyticsInv => BudgetsAgree
  <2> SUFFICES ASSUME AnalyticsInv, IsRead("budgets") PROVE BudgetsAgree
    BY DEF BudgetsAgree
  <2> DEFINE first == MonthStart(window.month)
             last  == MonthEnd(window.month) - 1
             spent == {t \in Counted("budgets") : ledger[t].day <= now}
  <2>1. /\ now \in Days /\ now \in Nat /\ window.month \in Months
        /\ window.from \in Int /\ window.toDay \in Int
    BY AnalyticsAssumption DEF AnalyticsInv, TypeOK, Days
  <2>2. first \in Days /\ last \in Days /\ first <= last
    <3>1. PICK d \in Days : window.month = MonthOf[d]
      BY <2>1 DEF Months
    <3>2. /\ MonthStart(MonthOf[d]) \in Days /\ MonthEnd(MonthOf[d]) - 1 \in Days
          /\ MonthStart(MonthOf[d]) <= d /\ d <= MonthEnd(MonthOf[d]) - 1
      BY MonthBounds
    <3> DEFINE a == MonthStart(MonthOf[d])
               b == MonthEnd(MonthOf[d]) - 1
    <3>3. a \in Days /\ b \in Days /\ a <= d /\ d <= b
      BY <3>2
    <3> HIDE DEF a, b
    <3>4. a <= b
      BY <3>3, AnalyticsAssumption DEF Days
    <3> QED
      BY <3>1, <3>3, <3>4 DEF a, b
  <2>3. \A d \in Int : d < MonthEnd(window.month) <=> d <= last
    <3>1. MonthEnd(window.month) \in Int
      <4>1. PICK d \in Days : window.month = MonthOf[d]
        BY <2>1 DEF Months
      <4> DEFINE S == {e \in Days : MonthOf[e] = MonthOf[d]}
      <4>2. S \in SUBSET Days /\ d \in S
        BY <4>1
      <4> HIDE DEF S
      <4>3. Max(S) \in Int
        <5>1. Max(S) \in Days
          BY <4>2, MaxDay
        <5> QED
          BY <5>1, AnalyticsAssumption DEF Days
      <4>4. MonthEnd(window.month) = Max(S) + 1
        BY <4>1 DEF MonthEnd, S
      <4> QED
        BY <4>3, <4>4
    <3> QED
      BY <3>1
  <2> HIDE DEF first, last
  <2>4. /\ at[12] \in Nat
        /\ \A t \in 1 .. at[12] : ledger[t].day \in Days /\ ledger[t].day \in Int
        /\ Counted("budgets") = {t \in 1 .. at[12] : Holds("budgets", t)}
    BY Places, PartNames, TwoParts
  <2>5. \A t \in 1 .. at[12] : Holds("budgets", t) <=>
          first <= ledger[t].day /\ ledger[t].day <= last /\ IsOut(t)
    <3> TAKE t \in 1 .. at[12]
    <3>1. Holds("budgets", t) <=>
            first <= ledger[t].day /\ ledger[t].day < MonthEnd(window.month) /\ IsOut(t)
      BY DEF Holds, Frame, BudgetSpan, Selects, IsOut, first
    <3> QED
      BY <3>1, <2>3, <2>4
  <2>6. ASSUME window.month = MonthOf[now]
        PROVE  Agree("this_month", {t \in Counted("this_month") : IsOut(t)}, spent)
    <3>1. /\ at[2] \in Nat /\ at[2] <= at[12]
          /\ Counted("this_month") = {t \in 1 .. at[2] : Holds("this_month", t)}
      BY Places, PartNames, TwoParts
    <3>2. now <= last
      BY <2>1, <2>6, MonthBounds DEF last
    <3>3. \A t \in 1 .. at[12] : Holds("this_month", t) <=>
            first <= ledger[t].day /\ ledger[t].day < now + 1
      BY <2>6 DEF Holds, Frame, Selects, first
    <3>4. \A t \in 1 .. at[12] : Holds("this_month", t) /\ IsOut(t) <=>
            Holds("budgets", t) /\ ledger[t].day <= now
      BY <3>2, <3>3, <2>1, <2>2, <2>4, <2>5 DEF Days
    <3> QED
      BY <3>1, <3>4, <2>4, Places DEF Agree
  <2>7. ASSUME ask.dates # <<>>, {ask.dates[1], ask.dates[2]} = {first, last}, first <= now
        PROVE  Agree("range_all_kinds", {t \in Counted("range_all_kinds") : IsOut(t)}, spent)
    <3>1. /\ at[3] \in Nat /\ at[3] <= at[12] /\ ask # None
          /\ Counted("range_all_kinds") = {t \in 1 .. at[3] : Holds("range_all_kinds", t)}
      BY Places, PartNames, TwoParts
    <3>2. Asked = first .. last
      <4>1. Asked = (ask.dates[1] .. ask.dates[2]) \cup (ask.dates[2] .. ask.dates[1])
        BY <2>7 DEF Asked
      <4>2. \/ ask.dates[1] = first /\ ask.dates[2] = last
            \/ ask.dates[1] = last /\ ask.dates[2] = first
        BY <2>7
      <4>3. first \in Nat /\ last \in Nat
        BY <2>2 DEF Days
      <4>4. (first .. last) \cup (last .. first) = first .. last
        BY <4>3, <2>2
      <4> QED
        BY <4>1, <4>2, <4>4
    <3>3. WindowDays = (first .. last) \cap (0 .. now)
      <4>1. first \in (first .. last) \cap (0 .. now)
        BY <2>1, <2>2, <2>7 DEF Days
      <4> QED
        BY <3>2, <4>1 DEF WindowDays, WhollyAhead, AskedDays
    <3>4. \A d \in Days : first <= d /\ d <= last /\ d <= now <=>
                            window.from <= d /\ d <= window.toDay
      <4>1. \A d \in Days : d \in WindowDays <=> window.from <= d /\ d <= window.toDay
        BY <3>1 DEF AnalyticsInv, WindowInv
      <4>2. \A d \in Days : d \in WindowDays <=> first <= d /\ d <= last /\ d <= now
        BY <3>3, <2>1, <2>2 DEF Days
      <4> QED
        BY <4>1, <4>2
    <3>5. \A t \in 1 .. at[12] : Holds("range_all_kinds", t) <=>
            window.from <= ledger[t].day /\ ledger[t].day <= window.toDay
      <4> TAKE t \in 1 .. at[12]
      <4>1. Holds("range_all_kinds", t) <=>
              window.from <= ledger[t].day /\ ledger[t].day < window.toDay + 1
        BY DEF Holds, Frame, InRange, Selects
      <4> QED
        BY <4>1, <2>1, <2>4
    <3>6. \A t \in 1 .. at[12] : Holds("range_all_kinds", t) /\ IsOut(t) <=>
            Holds("budgets", t) /\ ledger[t].day <= now
      BY <3>4, <3>5, <2>4, <2>5
    <3> QED
      BY <3>1, <3>6, <2>4, Places DEF Agree
  <2> QED
    BY <2>6, <2>7 DEF BudgetsAgree, first, last
<1> QED
  BY AnalyticsInductive, <1>1, PTL

=============================================================================
