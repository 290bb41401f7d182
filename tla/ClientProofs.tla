---------------------------- MODULE ClientProofs ----------------------------
(***************************************************************************)
(* Proofs about the web client: Client, for every search, page size and    *)
(* number of handlers, taps and losses, and, at the end, the scratch card  *)
(* of Scratch, for any two delays of which the inner one is the shorter.   *)
(*                                                                         *)
(* Client: first the ledger's pages (Matches is a list of the matches in   *)
(* descending order, and adjoining pages make a longer one), then what a   *)
(* new handler in a slot leaves alone (OthersKept, Quiet), then one lemma  *)
(* for each action, then the theorems.                                     *)
(***************************************************************************)
EXTENDS Client, Scratch, FiniteSetTheorems, FunctionTheorems, SequenceTheorems, TLAPS

----------------------------------------------------------------------------
(* Pages and handlers *)

(* Of a set of numbers, a smaller member has a later place.                *)
LEMMA Places ==
  ASSUME NEW n \in Nat, NEW S \in SUBSET (1..n)
  PROVE  /\ IsFiniteSet(S) /\ Cardinality(S) \in Nat
         /\ \A t \in S : Place(S, t) \in 1..Cardinality(S)
         /\ \A t, u \in S : t < u => Place(S, u) < Place(S, t)
         /\ \A k \in 1..Cardinality(S) : \E t \in S : Place(S, t) = k
<1> DEFINE From(t) == {u \in S : u >= t}
<1>1. IsFiniteSet(S) /\ Cardinality(S) \in Nat
  <2>1. IsFiniteSet(1..n)
    BY FS_Interval
  <2> QED
    BY <2>1, FS_Subset, FS_CardinalityType
<1>2. ASSUME NEW t \in S
      PROVE  IsFiniteSet(From(t)) /\ Place(S, t) = Cardinality(From(t)) /\ Place(S, t) \in 1..Cardinality(S)
  <2>1. From(t) \in SUBSET S /\ t \in From(t)
    OBVIOUS
  <2>2. IsFiniteSet(From(t)) /\ Cardinality(From(t)) \in Nat
        /\ Cardinality(From(t)) <= Cardinality(S)
    BY <1>1, <2>1, FS_Subset, FS_CardinalityType
  <2>3. Cardinality(From(t)) # 0
    BY <2>1, <2>2, FS_EmptySet
  <2> QED
    BY <1>1, <2>2, <2>3 DEF Place
<1>3. ASSUME NEW t \in S, NEW u \in S, t < u
      PROVE  Place(S, u) < Place(S, t)
  <2>1. From(u) \in SUBSET From(t) /\ From(u) # From(t)
    <3>1. t \in From(t) /\ t \notin From(u)
      BY <1>3
    <3>2. \A v \in S : v >= u => v >= t
      BY <1>3
    <3> QED
      BY <3>1, <3>2
  <2> HIDE DEF From
  <2>2. Cardinality(From(u)) < Cardinality(From(t))
    BY <1>2, <2>1, FS_Subset, FS_CardinalityType
  <2> QED
    BY <1>2, <2>2
<1>4. ASSUME NEW k \in 1..Cardinality(S)
      PROVE  \E t \in S : Place(S, t) = k
  <2> DEFINE at == [t \in S |-> Place(S, t)]
  <2>1. at \in [S -> 1..Cardinality(S)]
    BY <1>2
  <2>2. \A t, u \in S : at[t] = at[u] => t = u
    <3> SUFFICES ASSUME NEW t \in S, NEW u \in S, at[t] = at[u]
                 PROVE  t = u
      OBVIOUS
    <3>1. Place(S, t) = Place(S, u)
      BY DEF at
    <3>3. Place(S, t) \in 1..Cardinality(S)
      BY <1>2
    <3>4. Place(S, t) \in Nat
      BY <1>1, <3>3
    <3>2. ~(t < u) /\ ~(u < t)
      BY <1>3, <3>1, <3>4
    <3> QED
      BY <3>2
  <2>3. at \in Injection(S, 1..Cardinality(S))
    BY <2>1, <2>2, Fun_IsInj
  <2>4. IsFiniteSet(1..Cardinality(S)) /\ Cardinality(1..Cardinality(S)) = Cardinality(S)
    BY <1>1, FS_Interval
  <2> HIDE DEF at
  <2>5. at \in Surjection(S, 1..Cardinality(S))
    BY <2>3, <2>4, FS_Injection
  <2>6. PICK t \in S : at[t] = k
    BY <2>5 DEF Surjection
  <2> QED
    BY <2>6 DEF at
<1> QED
  BY <1>1, <1>2, <1>3, <1>4

(* The listing of a search has the matches, each once, newest first.       *)
LEMMA MatchesListed ==
  ASSUME NEW q \in Searches, NEW n \in 0..MaxStock
  PROVE  /\ Matches(q, n) \in Seq(1..MaxStock)
         /\ Len(Matches(q, n)) = Cardinality(Hits[q] \cap (1..n))
         /\ Len(Matches(q, n)) \in Nat
         /\ \A k, m \in 1..Len(Matches(q, n)) : k < m => Matches(q, n)[m] < Matches(q, n)[k]
         /\ \A t : t \in Hits[q] \cap (1..n)
              <=> \E k \in 1..Len(Matches(q, n)) : Matches(q, n)[k] = t
<1> DEFINE S == Hits[q] \cap (1..n)
           all == Matches(q, n)
<1>1. n \in Nat /\ S \in SUBSET (1..n) /\ 1..n \subseteq 1..MaxStock
  BY ClientAssumption
<1>2. /\ IsFiniteSet(S) /\ Cardinality(S) \in Nat
      /\ \A t \in S : Place(S, t) \in 1..Cardinality(S)
      /\ \A t, u \in S : t < u => Place(S, u) < Place(S, t)
      /\ \A k \in 1..Cardinality(S) : \E t \in S : Place(S, t) = k
  BY <1>1, Places
<1>3. all = [k \in 1..Cardinality(S) |-> CHOOSE t \in S : Place(S, t) = k]
  BY DEF Matches
<1>4. \A k \in 1..Cardinality(S) : all[k] \in S /\ Place(S, all[k]) = k
  <2> SUFFICES ASSUME NEW k \in 1..Cardinality(S)
               PROVE  all[k] \in S /\ Place(S, all[k]) = k
    OBVIOUS
  <2>1. all[k] = CHOOSE t \in S : Place(S, t) = k
    BY <1>3
  <2>2. \E t \in S : Place(S, t) = k
    BY <1>2
  <2> QED
    BY <2>1, <2>2
<1>5. all \in [1..Cardinality(S) -> 1..MaxStock]
  <2>1. \A k \in 1..Cardinality(S) : all[k] \in 1..MaxStock
    BY <1>1, <1>4
  <2>2. all = [k \in 1..Cardinality(S) |-> all[k]]
    BY <1>3
  <2> HIDE DEF all, S
  <2> QED
    BY <2>1, <2>2
<1>6. all \in Seq(1..MaxStock) /\ Len(all) = Cardinality(S)
  <2> HIDE DEF all, S
  <2>1. all \in Seq(1..MaxStock)
    BY <1>2, <1>5, SeqDef
  <2> QED
    BY <1>2, <1>5, <2>1, LenProperties
<1> HIDE DEF all
<1>7. \A k, m \in 1..Cardinality(S) : k < m => all[m] < all[k]
  <2> SUFFICES ASSUME NEW k \in 1..Cardinality(S), NEW m \in 1..Cardinality(S), k < m
               PROVE  all[m] < all[k]
    OBVIOUS
  <2>1. all[m] \in S /\ all[k] \in S /\ Place(S, all[m]) = m /\ Place(S, all[k]) = k
    BY <1>4
  <2>2. all[m] \in Nat /\ all[k] \in Nat
    BY <1>1, <2>1
  <2> HIDE DEF S
  <2>3. CASE all[k] < all[m]
    BY <1>2, <2>1, <2>3
  <2>4. CASE all[k] = all[m]
    BY <2>1, <2>4
  <2> QED
    BY <2>2, <2>3, <2>4
<1>8. \A t \in S : \E k \in 1..Cardinality(S) : all[k] = t
  <2> SUFFICES ASSUME NEW t \in S PROVE \E k \in 1..Cardinality(S) : all[k] = t
    OBVIOUS
  <2>1. Place(S, t) \in 1..Cardinality(S)
    BY <1>2
  <2>2. PICK k \in 1..Cardinality(S) : k = Place(S, t)
    BY <2>1
  <2>3. all[k] \in S /\ Place(S, all[k]) = Place(S, t)
    BY <1>4, <2>2
  <2>4. all[k] \in Nat /\ t \in Nat
    BY <1>1, <2>3
  <2>5. Place(S, t) \in Nat
    BY <1>2, <2>1
  <2> HIDE DEF S
  <2>6. ~(t < all[k]) /\ ~(all[k] < t)
    BY <1>2, <2>3, <2>5
  <2> QED
    BY <2>4, <2>6
<1> QED
  BY <1>2, <1>4, <1>6, <1>7, <1>8 DEF all

(* What the server answers: one page of what it has.                       *)
LEMMA AnswerPages ==
  ASSUME stock \in 0..MaxStock, settings \in Nat, NEW q \in Searches, NEW offset \in Nat
  PROVE  /\ AnswerOf(q, offset) \in Listing
         /\ AnswerOf(q, offset).extras = settings /\ AnswerOf(q, offset).asOf = stock
         /\ AnswerOf(q, offset).list =
              SubSeq(Matches(q, stock), offset + 1, Smaller(offset + Page, Len(Matches(q, stock))))
         /\ AnswerOf(q, offset).total = Len(Matches(q, stock))
<1> DEFINE all == Matches(q, stock)
           last == Smaller(offset + Page, Len(all))
<1>1. all \in Seq(1..MaxStock) /\ Len(all) \in Nat
  BY MatchesListed
<1>2. last \in Nat /\ last <= Len(all)
  BY <1>1, ClientAssumption DEF Smaller
<1>3. SubSeq(all, offset + 1, last) \in Seq(1..MaxStock)
  <2> HIDE DEF all, last
  <2>1. \A k \in (offset + 1)..last : all[k] \in 1..MaxStock
    <3>1. all \in [1..Len(all) -> 1..MaxStock]
      BY <1>1, LenProperties
    <3>2. (offset + 1)..last \subseteq 1..Len(all)
      BY <1>1, <1>2
    <3> QED
      BY <3>1, <3>2
  <2>2. offset + 1 \in Int /\ last \in Int
    BY <1>2
  <2> QED
    BY <2>1, <2>2, SubSeqProperties
<1>4. AnswerOf(q, offset) = [list |-> SubSeq(all, offset + 1, last), total |-> Len(all),
                             extras |-> settings, asOf |-> stock]
  BY DEF AnswerOf
<1>5. AnswerOf(q, offset) \in Listing
  <2> HIDE DEF all, last
  <2> QED
    BY <1>1, <1>3, <1>4 DEF Listing
<1>6. /\ AnswerOf(q, offset).list = SubSeq(all, offset + 1, last)
      /\ AnswerOf(q, offset).total = Len(all)
      /\ AnswerOf(q, offset).extras = settings /\ AnswerOf(q, offset).asOf = stock
  <2> DEFINE list == SubSeq(all, offset + 1, last)
             total == Len(all)
  <2>1. AnswerOf(q, offset) = [list |-> list, total |-> total, extras |-> settings,
                               asOf |-> stock]
    BY <1>4
  <2> HIDE DEF list, total
  <2>2. /\ AnswerOf(q, offset).list = list /\ AnswerOf(q, offset).total = total
        /\ AnswerOf(q, offset).extras = settings /\ AnswerOf(q, offset).asOf = stock
    BY <2>1
  <2> QED
    BY <2>2 DEF list, total
<1> QED
  BY <1>5, <1>6

(* The first page, and a page that goes on where the list ends.            *)
LEMMA PageExtends ==
  ASSUME NEW all \in Seq(1..MaxStock), NEW n \in Nat, n <= Len(all)
  PROVE  LET last == Smaller(n + Page, Len(all)) IN
           /\ last \in Nat /\ last <= Len(all)
           /\ SubSeq(all, 1, n) \o SubSeq(all, n + 1, last) = SubSeq(all, 1, last)
           /\ SubSeq(all, 1, last) \in Seq(1..MaxStock)
           /\ Len(SubSeq(all, 1, last)) = last
<1> DEFINE last == Smaller(n + Page, Len(all))
<1>1. Len(all) \in Nat
  BY LenProperties
<1>2. last \in Nat /\ last <= Len(all) /\ n <= last
  BY <1>1, ClientAssumption DEF Smaller
<1> HIDE DEF last
<1>3. SubSeq(all, 1, n) \o SubSeq(all, n + 1, last) = SubSeq(all, 1, last)
  <2>1. 1 \in 1..(Len(all) + 1) /\ n \in (1 - 1)..Len(all) /\ last \in n..Len(all)
    BY <1>1, <1>2
  <2> QED
    BY <2>1, ConcatAdjacentSubSeq
<1>4. /\ SubSeq(all, 1, last) \in Seq(1..MaxStock)
      /\ Len(SubSeq(all, 1, last)) = last
  <2>1. \A k \in 1..last : all[k] \in 1..MaxStock
    <3>1. all \in [1..Len(all) -> 1..MaxStock]
      BY <1>1, LenProperties
    <3>2. 1..last \subseteq 1..Len(all)
      BY <1>1, <1>2
    <3> QED
      BY <3>1, <3>2
  <2>2. 1 \in Int /\ last \in Int
    BY <1>2
  <2>3. /\ SubSeq(all, 1, last) \in Seq(1..MaxStock)
        /\ Len(SubSeq(all, 1, last)) = IF 1 <= last THEN last - 1 + 1 ELSE 0
    BY <2>1, <2>2, SubSeqProperties
  <2> QED
    BY <1>2, <2>3
<1> QED
  BY <1>2, <1>3, <1>4 DEF last

----------------------------------------------------------------------------
(* Requests and slots *)

LEMMA IdleHandler ==
  /\ Idle \in Handler /\ NoAnswer \in Listing /\ FirstPeriod \in Period
  /\ Idle.kind = "idle" /\ Idle.pc = "sent" /\ ~Idle.newest /\ Idle.offset = 0
  /\ Idle.extras = 0 /\ Idle.got = NoAnswer /\ ~Idle.crossed /\ NoAnswer.extras = 0
<1>1. NoAnswer \in Listing /\ NoAnswer.extras = 0
  <2>1. <<>> \in Seq(1..MaxStock)
    BY EmptySeq
  <2> QED
    BY <2>1, ClientAssumption DEF NoAnswer, Listing
<1>2. FirstPeriod \in Period
  BY ClientAssumption DEF FirstPeriod, Period
<1>3. NoSession \in NoSession..MaxClicks /\ 0 \in 0..MaxClicks
  BY ClientAssumption DEF NoSession
<1>4. Idle \in Handler
  BY <1>1, <1>2, <1>3, ClientAssumption DEF Idle, Handler, Kinds
<1> QED
  BY <1>1, <1>2, <1>4 DEF Idle

LEMMA RequestHandler ==
  ASSUME NEW k \in Kinds, NEW c \in NoSession..MaxClicks, NEW t \in {"none", "good", "bad"}
  PROVE  LET r == Request(k, c, t) IN
           /\ r \in Handler
           /\ r.kind = k /\ r.pc = "sent" /\ ~r.newest /\ r.offset = 0
           /\ r.extras = 0 /\ r.got = NoAnswer /\ ~r.crossed
<1>1. Request(k, c, t) = [Idle EXCEPT !.kind = k, !.cookie = c, !.token = t]
  BY DEF Request
<1> QED
  BY <1>1, IdleHandler DEF Handler

LEMMA LoadHandler ==
  ASSUME NEW k \in Loads, NEW c \in NoSession..MaxClicks, NEW t \in {"none", "good", "bad"},
         NEW p \in Period, NEW d, d.search \in Searches, d.extras \in Nat
  PROVE  LET r == Load(k, c, t, p, d) IN
           /\ r \in Handler
           /\ r.kind = k /\ r.pc = "sent" /\ r.newest /\ r.offset = 0
           /\ r.period = p /\ r.search = d.search /\ r.extras = d.extras
           /\ r.got = NoAnswer /\ ~r.crossed
<1> DEFINE r == Request(k, c, t)
<1>1. k \in Kinds
  BY DEF Kinds, Loads
<1>2. /\ r \in Handler /\ r.kind = k /\ r.pc = "sent" /\ r.offset = 0
      /\ r.got = NoAnswer /\ ~r.crossed
  BY <1>1, RequestHandler
<1>3. Load(k, c, t, p, d) = [r EXCEPT !.period = p, !.search = d.search,
                                      !.extras = d.extras, !.newest = TRUE]
  BY DEF Load
<1> HIDE DEF r
<1> QED
  BY <1>2, <1>3 DEF Handler

(* Slot j keeps its handler, which may be superseded or crossed.           *)
Kept(j) ==
  /\ task'[j].kind = task[j].kind /\ task'[j].pc = task[j].pc
  /\ task'[j].period = task[j].period /\ task'[j].search = task[j].search
  /\ task'[j].offset = task[j].offset /\ task'[j].extras = task[j].extras
  /\ task'[j].got = task[j].got
  /\ task'[j].newest => task[j].newest
  /\ task[j].kind = "more" /\ task[j].crossed => task'[j].crossed

OthersKept(i) == \A j \in Slots \ {i} : Kept(j)

(* A handler's turn changes one slot.                                      *)
LEMMA OneSlot ==
  ASSUME task \in [Slots -> Handler], NEW i \in Slots, NEW r \in Handler,
         task' = [task EXCEPT ![i] = r]
  PROVE  /\ task' \in [Slots -> Handler] /\ task'[i] = r
         /\ \A j \in Slots \ {i} : task'[j] = task[j]
         /\ OthersKept(i)
<1>1. /\ task' \in [Slots -> Handler] /\ task'[i] = r
      /\ \A j \in Slots \ {i} : task'[j] = task[j]
  OBVIOUS
<1> QED
  BY <1>1 DEF OthersKept, Kept

(* A load supersedes the newest one.                                       *)
LEMMA LoadSlots ==
  ASSUME task \in [Slots -> Handler], NEW i \in Slots, NEW l \in Handler, StartLoad(i, l)
  PROVE  /\ task' \in [Slots -> Handler] /\ task'[i] = l
         /\ \A j \in Slots \ {i} : ~task'[j].newest
         /\ OthersKept(i)
<1>1. task' = [j \in Slots |-> IF j = i THEN l ELSE [task[j] EXCEPT !.newest = FALSE]]
  BY DEF StartLoad
<1>2. \A j \in Slots : task[j] \in Handler
  OBVIOUS
<1>3. \A j \in Slots \ {i} : /\ [task[j] EXCEPT !.newest = FALSE] \in Handler
                             /\ task'[j] = [task[j] EXCEPT !.newest = FALSE]
  BY <1>1, <1>2 DEF Handler
<1>4. task'[i] = l
  BY <1>1
<1>5. task' \in [Slots -> Handler]
  BY <1>1, <1>3
<1>6. ASSUME NEW j \in Slots \ {i}
      PROVE  ~task'[j].newest /\ Kept(j)
  <2> DEFINE t == task[j]
  <2>1. t \in Handler /\ task'[j] = [t EXCEPT !.newest = FALSE]
    BY <1>2, <1>3
  <2> HIDE DEF t
  <2>2. /\ task'[j].kind = t.kind /\ task'[j].pc = t.pc /\ task'[j].period = t.period
        /\ task'[j].search = t.search /\ task'[j].offset = t.offset
        /\ task'[j].extras = t.extras /\ task'[j].got = t.got
        /\ task'[j].newest = FALSE /\ task'[j].crossed = t.crossed
    BY <2>1 DEF Handler
  <2> QED
    BY <2>2 DEF Kept, t
<1> QED
  BY <1>4, <1>5, <1>6 DEF OthersKept

(* A new list crosses the load-more under way.                             *)
LEMMA CrossedSlots ==
  ASSUME task \in [Slots -> Handler], NEW i \in Slots, NEW r \in Handler,
         r.kind # "more", ~r.crossed,
         task' = Crossed([task EXCEPT ![i] = r])
  PROVE  /\ task' \in [Slots -> Handler] /\ task'[i] = r
         /\ \A j \in Slots \ {i} : task'[j].newest = task[j].newest
         /\ \A j \in Slots : task'[j].kind = "more" => task'[j].crossed
         /\ OthersKept(i)
<1> DEFINE f == [task EXCEPT ![i] = r]
<1>1. f \in [Slots -> Handler] /\ f[i] = r /\ \A j \in Slots \ {i} : f[j] = task[j]
  OBVIOUS
<1> HIDE DEF f
<1>2. task' = [j \in Slots |-> [f[j] EXCEPT !.crossed = f[j].kind = "more"]]
  BY DEF Crossed, f
<1>3. \A j \in Slots : f[j] \in Handler /\ task'[j] = [f[j] EXCEPT !.crossed = f[j].kind = "more"]
  BY <1>1, <1>2
<1>4. ASSUME NEW j \in Slots
      PROVE  /\ task'[j] \in Handler
             /\ task'[j].kind = f[j].kind /\ task'[j].pc = f[j].pc
             /\ task'[j].period = f[j].period /\ task'[j].search = f[j].search
             /\ task'[j].offset = f[j].offset /\ task'[j].extras = f[j].extras
             /\ task'[j].got = f[j].got /\ task'[j].newest = f[j].newest
             /\ f[j].kind = "more" => task'[j].crossed = TRUE
  <2> DEFINE t == f[j]
             c == t.kind = "more"
  <2>1. t \in Handler /\ task'[j] = [t EXCEPT !.crossed = c]
    BY <1>3
  <2>2. c \in BOOLEAN /\ (t.kind = "more" => c = TRUE)
    OBVIOUS
  <2> HIDE DEF t, c
  <2>3. /\ task'[j] \in Handler
        /\ task'[j].kind = t.kind /\ task'[j].pc = t.pc /\ task'[j].period = t.period
        /\ task'[j].search = t.search /\ task'[j].offset = t.offset
        /\ task'[j].extras = t.extras /\ task'[j].got = t.got
        /\ task'[j].newest = t.newest /\ task'[j].crossed = c
    BY <2>1, <2>2 DEF Handler
  <2> QED
    BY <2>2, <2>3 DEF t
<1>5. task' \in [Slots -> Handler]
  BY <1>2, <1>4
<1>6. task'[i] = r
  <2> DEFINE c == r.kind = "more"
  <2>1. c = FALSE /\ r.crossed = FALSE
    BY DEF Handler
  <2>2. task'[i] = [r EXCEPT !.crossed = c]
    BY <1>1, <1>3
  <2> HIDE DEF c
  <2> QED
    BY <2>1, <2>2 DEF Handler
<1>7. ASSUME NEW j \in Slots \ {i}
      PROVE  Kept(j)
  <2>1. f[j] = task[j] /\ j \in Slots
    BY <1>1
  <2>2. /\ task'[j].kind = task[j].kind /\ task'[j].pc = task[j].pc
        /\ task'[j].period = task[j].period /\ task'[j].search = task[j].search
        /\ task'[j].offset = task[j].offset /\ task'[j].extras = task[j].extras
        /\ task'[j].got = task[j].got /\ task'[j].newest = task[j].newest
        /\ task[j].kind = "more" => task'[j].crossed = TRUE
    BY <1>4, <2>1
  <2> QED
    BY <2>2 DEF Kept
<1> QED
  BY <1>1, <1>4, <1>5, <1>6, <1>7 DEF OthersKept

(* The overlaps that a new handler is flagged with.                        *)
LEMMA RacesFlagged ==
  ASSUME NEW i \in Slots, NEW k \in Kinds
  PROVE  /\ Races(i, k) \subseteq {"extras"}
         /\ \A j \in Slots \ {i} :
              {k, task[j].kind} \subseteq Loads \cup Carriers
                /\ (k \in Carriers \/ task[j].kind \in Carriers) => "extras" \in Races(i, k)
  BY DEF Races

----------------------------------------------------------------------------
(* Steps that many actions have in common *)

(* Handlers that write neither list, search, settings nor the bar.         *)
QuietKinds == {"idle", "me", "digest", "login", "logout", "counters"}

Quiet(r) ==
  /\ r \in Handler /\ r.kind \in QuietKinds
  /\ ~r.newest /\ r.offset = 0 /\ r.extras = 0 /\ r.got.extras = 0

(* What a quiet turn leaves alone: of the data, all but the analytics.     *)
ListKept ==
  /\ data'.list = data.list /\ data'.total = data.total /\ data'.asOf = data.asOf
  /\ data'.search = data.search /\ data'.extras = data.extras

(* A turn that starts no edit and saves nothing.                           *)
LEMMA SettingsStay ==
  ASSUME TypeOK, SettingsCounted, NEW i \in Slots, OthersKept(i), settings' = settings,
         task'[i].kind = "edit" /\ task'[i].pc = "sent" =>
           task[i].kind = "edit" /\ task[i].pc = "sent",
         task'[i].extras <= settings, task'[i].got.extras <= settings,
         data'.extras <= settings, clicks' \in Nat, clicks <= clicks'
  PROVE  SettingsCounted'
<1> DEFINE editing == {j \in Slots : task[j].kind = "edit" /\ task[j].pc = "sent"}
<1>1. editing' \in SUBSET editing
  BY DEF OthersKept, Kept
<1>2. IsFiniteSet(editing) /\ settings + Cardinality(editing) <= clicks + 1
  BY DEF SettingsCounted
<1>3. settings \in Nat /\ clicks \in Nat
  BY DEF TypeOK
<1> HIDE DEF editing
<1>4. IsFiniteSet(editing') /\ Cardinality(editing') <= Cardinality(editing)
      /\ Cardinality(editing) \in Nat /\ Cardinality(editing') \in Nat
  BY <1>1, <1>2, FS_Subset, FS_CardinalityType
<1>5. settings' + Cardinality(editing') <= clicks' + 1
  BY <1>2, <1>3, <1>4
<1>6. \A j \in Slots : task'[j].extras <= settings' /\ task'[j].got.extras <= settings'
  BY DEF SettingsCounted, OthersKept, Kept
<1> QED
  BY <1>4, <1>5, <1>6 DEF SettingsCounted, editing

(* A slot that held nothing of the list turns to a quiet handler.          *)
LEMMA QuietTurn ==
  ASSUME ClientInv, NEW i \in Slots, NEW r, Quiet(r), task[i].kind \notin {"search", "more"},
         task' = [task EXCEPT ![i] = r],
         ListKept, UNCHANGED <<searched, settings, loadingMore>>,
         clicks' \in Nat, clicks <= clicks', raced \subseteq raced'
  PROVE  /\ task' \in [Slots -> Handler]
         /\ SettingsCounted' /\ SearchLoaded' /\ PagesFit' /\ ListContiguous' /\ ExtrasHeld'
<1> USE DEF ClientInv
<1>1. /\ task' \in [Slots -> Handler] /\ task'[i] = r
      /\ \A j \in Slots \ {i} : task'[j] = task[j]
  BY OneSlot DEF TypeOK, Quiet
<1>2. /\ r.kind \notin Loads \cup Carriers \cup Readers /\ r.kind \notin {"search", "more", "edit"}
      /\ ~r.newest /\ r.offset = 0 /\ r.extras = 0 /\ r.got.extras = 0
  BY DEF Quiet, QuietKinds, Loads, Carriers, Readers
<1>3. SettingsCounted'
  <2>1. OthersKept(i) /\ data'.extras <= settings /\ 0 <= settings
    BY <1>1 DEF OthersKept, Kept, SettingsCounted, ListKept, TypeOK
  <2> QED
    BY <1>1, <1>2, <2>1, SettingsStay
<1>4. SearchLoaded'
  BY <1>1, <1>2 DEF SearchLoaded, ListKept
<1>5. PagesFit'
  BY <1>1, <1>2 DEF PagesFit, ListKept
<1>6. ListContiguous'
  BY DEF ListContiguous, ListKept
<1>7. ExtrasHeld'
  <2>1. CASE "extras" \in raced
    BY <2>1 DEF ExtrasHeld
  <2>2. CASE "extras" \notin raced
    <3>1. \A j, k \in Slots :
            {task'[j].kind, task'[k].kind} \subseteq Loads \cup Carriers
              /\ task'[j].kind \in Carriers => j = k
      BY <1>1, <1>2, <2>2 DEF ExtrasHeld
    <3>2. \A j \in Slots :
            /\ task'[j].kind = "load" => task'[j].extras = data'.extras
            /\ task'[j].kind \in {"full", "extras"} /\ task'[j].pc = "ok" =>
                 task'[j].got.extras >= data'.extras
      BY <1>1, <1>2, <2>2 DEF ExtrasHeld, ListKept, Loads, Carriers
    <3> QED
      BY <3>1, <3>2 DEF ExtrasHeld
  <2> QED
    BY <2>1, <2>2
<1> QED
  BY <1>1, <1>3, <1>4, <1>5, <1>6, <1>7

(* loadAll: the load repeats the search, and a plain one the settings, of  *)
(* the render that starts it.                                              *)
LEMMA LoadStarts ==
  ASSUME ClientInv, NEW i \in Slots, task[i].kind \notin {"search", "more"},
         NEW k \in Loads, NEW c \in NoSession..MaxClicks, NEW t \in {"none", "good", "bad"},
         NEW p \in Period, NEW d, d.search \in Searches, d.extras \in Nat,
         d.extras <= settings, k = "load" => d.extras = data.extras,
         StartLoad(i, Load(k, c, t, p, d)),
         UNCHANGED <<data, searched, settings, loadingMore>>,
         clicks' \in Nat, clicks <= clicks', raced \cup Races(i, k) \subseteq raced',
         p = period' \/ "period" \in raced', d.search = data.search \/ "search" \in raced'
  PROVE  /\ task' \in [Slots -> Handler] /\ OthersKept(i)
         /\ task'[i].kind = k /\ task'[i].pc = "sent"
         /\ SpinnersTrue' /\ SettingsCounted' /\ PeriodLoaded' /\ SearchLoaded' /\ PagesFit'
         /\ ListContiguous' /\ ExtrasHeld'
<1> USE DEF ClientInv
<1> DEFINE l == Load(k, c, t, p, d)
<1>1. /\ l \in Handler /\ l.kind = k /\ l.pc = "sent" /\ l.newest /\ l.offset = 0
      /\ l.period = p /\ l.search = d.search /\ l.extras = d.extras /\ l.got = NoAnswer
      /\ NoAnswer.extras = 0
  BY LoadHandler, IdleHandler
<1>2. /\ task' \in [Slots -> Handler] /\ task'[i] = l
      /\ \A j \in Slots \ {i} : ~task'[j].newest
      /\ OthersKept(i) /\ loading' = TRUE /\ error' = FALSE
  <2> HIDE DEF l
  <2>1. StartLoad(i, l)
    BY DEF l
  <2>2. task \in [Slots -> Handler]
    BY DEF TypeOK
  <2> QED
    BY <1>1, <2>1, <2>2, LoadSlots DEF StartLoad
<1> HIDE DEF l
<1>3. /\ k \in Kinds /\ k \notin {"search", "more", "edit", "idle", "digest", "me"}
  BY DEF Loads, Kinds
<1>4. SpinnersTrue'
  <2>1. \A j \in Slots : task'[j].newest <=> j = i
    BY <1>1, <1>2
  <2>2. \A j \in Slots : task'[j].kind = "more" <=> task[j].kind = "more"
    BY <1>1, <1>2, <1>3 DEF OthersKept, Kept
  <2> QED
    BY <1>1, <1>2, <2>1, <2>2 DEF SpinnersTrue
<1>5. SettingsCounted'
  <2>1. data'.extras <= settings /\ 0 <= settings
    BY DEF SettingsCounted, TypeOK
  <2> QED
    BY <1>1, <1>2, <1>3, <2>1, SettingsStay
<1>6. PeriodLoaded'
  BY <1>1, <1>2 DEF PeriodLoaded
<1>7. SearchLoaded'
  BY <1>1, <1>2, <1>3 DEF SearchLoaded, OthersKept, Kept
<1>8. PagesFit'
  BY <1>1, <1>2, <1>3 DEF PagesFit, OthersKept, Kept
<1>9. ListContiguous'
  BY DEF ListContiguous
<1>10. ExtrasHeld'
  <2>1. CASE "extras" \in raced'
    BY <2>1 DEF ExtrasHeld
  <2>2. CASE "extras" \notin raced'
    <3>1. "extras" \notin raced /\ "extras" \notin Races(i, k)
      BY <2>2
    <3>2. \A j \in Slots \ {i} :
            {k, task[j].kind} \subseteq Loads \cup Carriers =>
              k \notin Carriers /\ task[j].kind \notin Carriers
      BY <1>3, <3>1, RacesFlagged
    <3>3. \A j, m \in Slots :
            {task'[j].kind, task'[m].kind} \subseteq Loads \cup Carriers
              /\ task'[j].kind \in Carriers => j = m
      BY <1>1, <1>2, <3>1, <3>2 DEF ExtrasHeld, OthersKept, Kept
    <3>4. \A j \in Slots :
            /\ task'[j].kind = "load" => task'[j].extras = data'.extras
            /\ task'[j].kind \in {"full", "extras"} /\ task'[j].pc = "ok" =>
                 task'[j].got.extras >= data'.extras
      BY <1>1, <1>2, <3>1 DEF ExtrasHeld, OthersKept, Kept
    <3> QED
      BY <3>3, <3>4 DEF ExtrasHeld
  <2> QED
    BY <2>1, <2>2
<1> QED
  BY <1>1, <1>2, <1>4, <1>5, <1>6, <1>7, <1>8, <1>9, <1>10

(* A load of the render on screen.                                         *)
LEMMA RenderLoads ==
  ASSUME ClientInv, NEW i \in Slots, task[i].kind \notin {"search", "more"},
         NEW c \in NoSession..MaxClicks, NEW p \in Period,
         StartLoad(i, Load("load", c, token, p, data)), period' = p,
         raced' = raced \cup Races(i, "load"),
         UNCHANGED <<data, searched, settings, loadingMore>>,
         clicks' \in Nat, clicks <= clicks'
  PROVE  /\ task' \in [Slots -> Handler] /\ OthersKept(i)
         /\ task'[i].kind = "load" /\ task'[i].pc = "sent"
         /\ loading' = TRUE /\ error' = FALSE
         /\ raced' \subseteq {"extras", "list", "period", "search"}
         /\ SpinnersTrue' /\ SettingsCounted' /\ PeriodLoaded' /\ SearchLoaded' /\ PagesFit'
         /\ ListContiguous' /\ ExtrasHeld'
<1> USE DEF ClientInv
<1>1. "load" \in Loads /\ "load" \in Kinds
  BY DEF Loads, Kinds
<1>2. token \in {"none", "good", "bad"} /\ data.search \in Searches /\ data.extras \in Nat
      /\ data.extras <= settings
  BY DEF TypeOK, Shown, SettingsCounted
<1>3. /\ task' \in [Slots -> Handler] /\ OthersKept(i)
      /\ task'[i].kind = "load" /\ task'[i].pc = "sent"
      /\ SpinnersTrue' /\ SettingsCounted' /\ PeriodLoaded' /\ SearchLoaded' /\ PagesFit'
      /\ ListContiguous' /\ ExtrasHeld'
  BY <1>1, <1>2, LoadStarts
<1>4. raced' \subseteq {"extras", "list", "period", "search"}
  BY <1>1, RacesFlagged DEF TypeOK
<1> QED
  BY <1>3, <1>4 DEF StartLoad

(* Among quiet handlers, the spinners and the newest load stay what they   *)
(* are.                                                                    *)
LEMMA QuietKeeps ==
  ASSUME ClientInv, NEW i \in Slots, NEW r, Quiet(r), task[i].kind \in QuietKinds,
         task' = [task EXCEPT ![i] = r],
         ListKept, UNCHANGED <<searched, settings, loading, loadingMore>>,
         clicks' \in Nat, clicks <= clicks', raced \subseteq raced'
  PROVE  /\ task' \in [Slots -> Handler] /\ task'[i] = r
         /\ \A j \in Slots \ {i} : task'[j] = task[j]
         /\ \A j \in Slots : (task'[j].newest <=> task[j].newest)
                             /\ (task[j].newest => task'[j] = task[j])
         /\ SpinnersTrue' /\ SettingsCounted' /\ SearchLoaded' /\ PagesFit'
         /\ ListContiguous' /\ ExtrasHeld'
<1> USE DEF ClientInv
<1>1. task[i].kind \notin {"search", "more"} /\ task[i].kind \notin Loads
  BY DEF QuietKinds, Loads
<1>2. /\ task' \in [Slots -> Handler]
      /\ SettingsCounted' /\ SearchLoaded' /\ PagesFit' /\ ListContiguous' /\ ExtrasHeld'
  BY <1>1, QuietTurn
<1>3. task'[i] = r /\ \A j \in Slots \ {i} : task'[j] = task[j]
  BY DEF TypeOK
<1>4. ~r.newest /\ r.kind # "more" /\ ~task[i].newest
  BY <1>1 DEF Quiet, QuietKinds, SpinnersTrue
<1>5. SpinnersTrue'
  BY <1>1, <1>3, <1>4 DEF SpinnersTrue
<1> QED
  BY <1>2, <1>3, <1>4, <1>5

----------------------------------------------------------------------------
(* Signing in and out *)

(* What the browser takes from an answer is a session's cookie or nothing.  *)
LEMMA TakeCookieTyped ==
  ASSUME ClientInv, NEW i \in Slots, TakeCookie(i)
  PROVE  cookie' \in NoSession..MaxClicks
BY DEF TakeCookie, ClientInv, TypeOK, Handler

(* A quiet handler, sent with the credentials of the page.                 *)
LEMMA SentQuiet ==
  ASSUME TypeOK, NEW k \in QuietKinds
  PROVE  Quiet(Sent(k)) /\ Sent(k).kind = k /\ Sent(k).pc = "sent" /\ Quiet(Idle)
<1>1. k \in Kinds /\ cookie \in NoSession..MaxClicks /\ token \in {"none", "good", "bad"}
  BY DEF QuietKinds, Kinds, TypeOK
<1>2. /\ Sent(k) \in Handler
      /\ Sent(k).kind = k /\ Sent(k).pc = "sent" /\ ~Sent(k).newest /\ Sent(k).offset = 0
      /\ Sent(k).extras = 0 /\ Sent(k).got = NoAnswer
  BY <1>1, RequestHandler DEF Sent
<1> QED
  BY <1>2, IdleHandler DEF Quiet, QuietKinds

(* A page that was not signed in is: the load starts in the slot of the    *)
(* handler that found out.                                                 *)
LEMMA SignInLoads ==
  ASSUME ClientInv, NEW i \in Slots, task[i].kind \in {"me", "digest", "login"},
         NEW c \in NoSession..MaxClicks, SignedIn(i, c), ~authed,
         UNCHANGED <<settings, token, period, data, loadingMore, clicks, searched>>
  PROVE  /\ task' \in [Slots -> Handler] /\ OthersKept(i)
         /\ task'[i].kind = "load" /\ task'[i].pc = "sent"
         /\ loading' = TRUE /\ error' = FALSE
         /\ raced' \subseteq {"extras", "list", "period", "search"}
         /\ SpinnersTrue' /\ SettingsCounted' /\ PeriodLoaded' /\ SearchLoaded' /\ PagesFit'
         /\ ListContiguous' /\ ExtrasHeld'
<1>1. /\ StartLoad(i, Load("load", c, token, period, data))
      /\ raced' = raced \cup Races(i, "load")
  BY DEF SignedIn
<1>2. /\ period \in Period /\ clicks' \in Nat /\ clicks <= clicks'
      /\ task[i].kind \notin {"search", "more"}
  BY DEF ClientInv, TypeOK
<1> QED
  BY <1>1, <1>2, RenderLoads

LEMMA MeAnsweredKeepsInv ==
  ASSUME ClientInv, NEW i \in Slots, MeAnswered(i)
  PROVE  ClientInv'
<1> USE DEF ClientInv
<1>1. /\ task[i].kind = "me"
      /\ UNCHANGED <<live, stock, settings, cookie, token, left, period, data, loadingMore,
                     clicks, faults, searched>>
  BY DEF MeAnswered, Answered, server, bounds
<1>2. passwordLogin' \in BOOLEAN /\ (HasPassword => passwordLogin' \/ faults' > 0)
  BY <1>1, ClientAssumption DEF MeAnswered, Answered, LoginOffered
<1>3. cookie \in NoSession..MaxClicks /\ clicks' \in Nat /\ clicks <= clicks'
  BY <1>1 DEF TypeOK
<1>4. CASE SignedIn(i, cookie) /\ ready' = TRUE /\ ~authed
  <2>1. /\ task' \in [Slots -> Handler] /\ OthersKept(i)
        /\ task'[i].kind = "load" /\ task'[i].pc = "sent"
        /\ loading' = TRUE /\ error' = FALSE
        /\ raced' \subseteq {"extras", "list", "period", "search"}
        /\ SpinnersTrue' /\ SettingsCounted' /\ PeriodLoaded' /\ SearchLoaded' /\ PagesFit'
        /\ ListContiguous' /\ ExtrasHeld'
    BY <1>1, <1>3, <1>4, SignInLoads
  <2>2. TypeOK'
    BY <1>1, <1>2, <1>4, <2>1 DEF TypeOK, SignedIn
  <2>3. LoginOffered'
    BY <1>1, <1>2, <2>1 DEF LoginOffered, OthersKept, Kept
  <2> QED
    BY <2>1, <2>2, <2>3
<1>5. ASSUME NEW r, Quiet(r), r.pc = "sent", task' = [task EXCEPT ![i] = r],
             ready' \in BOOLEAN, UNCHANGED <<authed, loading, error, raced>>
      PROVE  ClientInv'
  <2>1. task[i].kind \in QuietKinds
    BY <1>1 DEF QuietKinds
  <2>2. /\ task' \in [Slots -> Handler] /\ task'[i] = r
        /\ \A j \in Slots \ {i} : task'[j] = task[j]
        /\ \A j \in Slots : (task'[j].newest <=> task[j].newest)
                            /\ (task[j].newest => task'[j] = task[j])
        /\ SpinnersTrue' /\ SettingsCounted' /\ SearchLoaded' /\ PagesFit'
        /\ ListContiguous' /\ ExtrasHeld'
    BY <1>1, <1>3, <1>5, <2>1, QuietKeeps DEF ListKept
  <2>3. TypeOK'
    BY <1>1, <1>2, <1>5, <2>2 DEF TypeOK
  <2>4. LoginOffered'
    BY <1>1, <1>2, <1>5, <2>2 DEF LoginOffered
  <2>5. PeriodLoaded'
    BY <1>1, <1>5, <2>2 DEF PeriodLoaded
  <2> QED
    BY <2>2, <2>3, <2>4, <2>5
<1>6. Quiet(Sent("digest")) /\ Sent("digest").pc = "sent" /\ Quiet(Idle) /\ Idle.pc = "sent"
  BY SentQuiet, IdleHandler DEF QuietKinds
<1>7. CASE SignedIn(i, cookie) /\ ready' = TRUE /\ authed
  <2>1. task' = [task EXCEPT ![i] = Idle] /\ UNCHANGED <<authed, loading, error, raced>>
    BY <1>7 DEF SignedIn, Ends, TypeOK
  <2> QED
    BY <1>5, <1>6, <1>7, <2>1
<1>8. CASE task' = [task EXCEPT ![i] = Sent("digest")]
           /\ UNCHANGED <<ready, authed, loading, error, raced>>
  BY <1>5, <1>6, <1>8 DEF TypeOK
<1>9. CASE ready' = TRUE /\ Ends(i) /\ UNCHANGED <<authed, loading, error, raced>>
  BY <1>5, <1>6, <1>9 DEF Ends
<1> QED
  BY <1>4, <1>7, <1>8, <1>9 DEF MeAnswered

LEMMA DigestAnsweredKeepsInv ==
  ASSUME ClientInv, NEW i \in Slots, DigestAnswered(i)
  PROVE  ClientInv'
<1> USE DEF ClientInv
<1>1. /\ task[i].kind = "digest" /\ ready' = TRUE
      /\ UNCHANGED <<live, stock, settings, cookie, token, passwordLogin, left, period, data,
                     loadingMore, clicks, faults, searched>>
  BY DEF DigestAnswered, Answered, server, bounds
<1>2. HasPassword => passwordLogin' \/ faults' > 0
  BY <1>1 DEF LoginOffered
<1>3. cookie \in NoSession..MaxClicks /\ clicks' \in Nat /\ clicks <= clicks'
  BY <1>1 DEF TypeOK
<1>4. CASE SignedIn(i, cookie) /\ ~authed
  <2>1. /\ task' \in [Slots -> Handler] /\ OthersKept(i)
        /\ task'[i].kind = "load" /\ task'[i].pc = "sent"
        /\ loading' = TRUE /\ error' = FALSE
        /\ raced' \subseteq {"extras", "list", "period", "search"}
        /\ SpinnersTrue' /\ SettingsCounted' /\ PeriodLoaded' /\ SearchLoaded' /\ PagesFit'
        /\ ListContiguous' /\ ExtrasHeld'
    BY <1>1, <1>3, <1>4, SignInLoads
  <2>2. TypeOK'
    BY <1>1, <1>4, <2>1 DEF TypeOK, SignedIn
  <2>3. LoginOffered'
    BY <1>1, <1>2, <2>1 DEF LoginOffered, OthersKept, Kept
  <2> QED
    BY <2>1, <2>2, <2>3
<1>5. CASE Ends(i) /\ UNCHANGED <<authed, loading, error, raced>>
  <2>1. task[i].kind \in QuietKinds /\ Quiet(Idle) /\ Idle.pc = "sent"
    BY <1>1, SentQuiet, IdleHandler DEF QuietKinds
  <2>2. /\ task' \in [Slots -> Handler] /\ task'[i] = Idle
        /\ \A j \in Slots \ {i} : task'[j] = task[j]
        /\ \A j \in Slots : (task'[j].newest <=> task[j].newest)
                            /\ (task[j].newest => task'[j] = task[j])
        /\ SpinnersTrue' /\ SettingsCounted' /\ SearchLoaded' /\ PagesFit'
        /\ ListContiguous' /\ ExtrasHeld'
    BY <1>1, <1>3, <1>5, <2>1, QuietKeeps DEF ListKept, Ends
  <2>3. TypeOK'
    BY <1>1, <1>5, <2>2 DEF TypeOK
  <2>4. LoginOffered'
    BY <1>1, <1>2, <2>1, <2>2 DEF LoginOffered
  <2>5. PeriodLoaded'
    BY <1>1, <1>5, <2>2 DEF PeriodLoaded
  <2> QED
    BY <2>2, <2>3, <2>4, <2>5
<1> QED
  BY <1>4, <1>5 DEF DigestAnswered, SignedIn, TypeOK

LEMMA LoginAnsweredKeepsInv ==
  ASSUME ClientInv, NEW i \in Slots, LoginAnswered(i)
  PROVE  ClientInv'
<1> USE DEF ClientInv
<1>1. /\ task[i].kind = "login"
      /\ UNCHANGED <<live, stock, settings, token, ready, passwordLogin, period, data,
                     loadingMore, clicks, faults, searched>>
  BY DEF LoginAnswered, Answered, server, bounds
<1>2. /\ cookie' \in NoSession..MaxClicks
      /\ clicks' \in Nat /\ clicks <= clicks'
  BY <1>1, TakeCookieTyped DEF LoginAnswered, TypeOK
<1>3. CASE task[i].pc = "ok" /\ ~authed
  <2>1. /\ SignedIn(i, cookie') /\ authed' = TRUE /\ left' = FALSE
    BY <1>3 DEF LoginAnswered
  <2>2. /\ task' \in [Slots -> Handler] /\ OthersKept(i)
        /\ task'[i].kind = "load" /\ task'[i].pc = "sent"
        /\ loading' = TRUE /\ error' = FALSE
        /\ raced' \subseteq {"extras", "list", "period", "search"}
        /\ SpinnersTrue' /\ SettingsCounted' /\ PeriodLoaded' /\ SearchLoaded' /\ PagesFit'
        /\ ListContiguous' /\ ExtrasHeld'
    BY <1>1, <1>2, <1>3, <2>1, SignInLoads
  <2>3. TypeOK'
    BY <1>1, <1>2, <2>1, <2>2 DEF TypeOK
  <2>4. LoginOffered'
    BY <1>1, <2>2 DEF LoginOffered, OthersKept, Kept
  <2> QED
    BY <2>2, <2>3, <2>4
<1>4. CASE task[i].pc # "ok" \/ authed
  <2>1. /\ Ends(i) /\ UNCHANGED loading
        /\ left' \in BOOLEAN /\ authed' \in BOOLEAN
        /\ error' \in BOOLEAN /\ raced \subseteq raced' /\ raced' \subseteq raced \cup {"period"}
        /\ error' = TRUE \/ "period" \in raced' \/ UNCHANGED <<authed, error>>
    BY <1>2, <1>4 DEF LoginAnswered, TypeOK
  <2>2. task[i].kind \in QuietKinds /\ Quiet(Idle) /\ Idle.pc = "sent" /\ Idle.kind = "idle"
    BY <1>1, SentQuiet, IdleHandler DEF QuietKinds
  <2>3. /\ task' \in [Slots -> Handler] /\ task'[i] = Idle
        /\ \A j \in Slots \ {i} : task'[j] = task[j]
        /\ \A j \in Slots : (task'[j].newest <=> task[j].newest)
                            /\ (task[j].newest => task'[j] = task[j])
        /\ SpinnersTrue' /\ SettingsCounted' /\ SearchLoaded' /\ PagesFit'
        /\ ListContiguous' /\ ExtrasHeld'
    BY <1>1, <1>2, <2>1, <2>2, QuietKeeps DEF ListKept, Ends
  <2>4. TypeOK'
    BY <1>1, <1>2, <2>1, <2>3 DEF TypeOK
  <2>5. LoginOffered'
    BY <1>1, <2>2, <2>3 DEF LoginOffered
  <2>6. PeriodLoaded'
    BY <1>1, <2>1, <2>3 DEF PeriodLoaded
  <2> QED
    BY <2>3, <2>4, <2>5, <2>6
<1> QED
  BY <1>3, <1>4

LEMMA TapLoginKeepsInv ==
  ASSUME ClientInv, NEW i \in Slots, TapLogin(i)
  PROVE  ClientInv'
<1> USE DEF ClientInv
<1> DEFINE r == [Sent("login") EXCEPT !.click = clicks + 1]
<1>1. /\ task[i] = Idle /\ task' = [task EXCEPT ![i] = r] /\ error' = FALSE /\ ~authed
      /\ clicks < MaxClicks /\ clicks' = clicks + 1
      /\ UNCHANGED <<live, stock, settings, cookie, token, ready, authed, passwordLogin, left,
                     period, data, loading, loadingMore, faults, searched, raced>>
  BY DEF TapLogin, Free, server, login, account, history
<1>2. clicks + 1 \in 0..MaxClicks /\ clicks' \in Nat /\ clicks <= clicks'
  BY <1>1, ClientAssumption DEF TypeOK
<1>3. Quiet(r) /\ r.pc = "sent" /\ r.kind = "login"
  <2>1. Quiet(Sent("login")) /\ Sent("login").kind = "login" /\ Sent("login").pc = "sent"
    BY SentQuiet DEF QuietKinds
  <2> QED
    BY <1>2, <2>1 DEF Quiet, Handler
<1>4. task[i].kind \in QuietKinds /\ task[i].kind = "idle"
  BY <1>1, IdleHandler DEF QuietKinds
<1> HIDE DEF r
<1>5. /\ task' \in [Slots -> Handler] /\ task'[i] = r
      /\ \A j \in Slots \ {i} : task'[j] = task[j]
      /\ \A j \in Slots : (task'[j].newest <=> task[j].newest)
                          /\ (task[j].newest => task'[j] = task[j])
      /\ SpinnersTrue' /\ SettingsCounted' /\ SearchLoaded' /\ PagesFit'
      /\ ListContiguous' /\ ExtrasHeld'
  BY <1>1, <1>2, <1>3, <1>4, QuietKeeps DEF ListKept
<1>6. TypeOK'
  BY <1>1, <1>2, <1>5 DEF TypeOK
<1>7. LoginOffered'
  BY <1>1, <1>3, <1>5 DEF LoginOffered
<1>8. PeriodLoaded'
  BY <1>1, <1>5 DEF PeriodLoaded
<1> QED
  BY <1>5, <1>6, <1>7, <1>8

LEMMA TapLogoutKeepsInv ==
  ASSUME ClientInv, NEW i \in Slots, TapLogout(i)
  PROVE  ClientInv'
<1> USE DEF ClientInv
<1>1. /\ task[i] = Idle /\ task' = [task EXCEPT ![i] = Sent("logout")]
      /\ clicks < MaxClicks /\ clicks' = clicks + 1
      /\ UNCHANGED <<live, stock, settings, cookie, token, ready, authed, passwordLogin, left,
                     period, data, loading, loadingMore, error, faults, searched, raced>>
  BY DEF TapLogout, Tap, Free, server, login, account, shown, history
<1>2. clicks' \in 0..MaxClicks /\ clicks' \in Nat /\ clicks <= clicks'
  BY <1>1, ClientAssumption DEF TypeOK
<1>3. Quiet(Sent("logout")) /\ Sent("logout").pc = "sent" /\ Sent("logout").kind = "logout"
  BY SentQuiet DEF QuietKinds
<1>4. task[i].kind \in QuietKinds /\ task[i].kind = "idle"
  BY <1>1, IdleHandler DEF QuietKinds
<1>5. /\ task' \in [Slots -> Handler] /\ task'[i] = Sent("logout")
      /\ \A j \in Slots \ {i} : task'[j] = task[j]
      /\ \A j \in Slots : (task'[j].newest <=> task[j].newest)
                          /\ (task[j].newest => task'[j] = task[j])
      /\ SpinnersTrue' /\ SettingsCounted' /\ SearchLoaded' /\ PagesFit'
      /\ ListContiguous' /\ ExtrasHeld'
  BY <1>1, <1>2, <1>3, <1>4, QuietKeeps DEF ListKept
<1>6. TypeOK'
  BY <1>1, <1>2, <1>5 DEF TypeOK
<1>7. LoginOffered'
  BY <1>1, <1>3, <1>5 DEF LoginOffered
<1>8. PeriodLoaded'
  BY <1>1, <1>5 DEF PeriodLoaded
<1> QED
  BY <1>5, <1>6, <1>7, <1>8

LEMMA LogoutAnsweredKeepsInv ==
  ASSUME ClientInv, NEW i \in Slots, LogoutAnswered(i)
  PROVE  ClientInv'
<1> USE DEF ClientInv
<1>1. /\ task[i].kind = "logout" /\ task' = [task EXCEPT ![i] = Idle]
      /\ token' = "none" /\ authed' = FALSE
      /\ UNCHANGED <<live, stock, settings, ready, passwordLogin, period, data, loading,
                     loadingMore, error, clicks, faults, searched, raced>>
  BY DEF LogoutAnswered, Answered, Ends, server, shown, bounds, history
<1>2. cookie' \in NoSession..MaxClicks /\ left' \in BOOLEAN
  BY ClientAssumption DEF LogoutAnswered, TypeOK, NoSession
<1>3. clicks' \in Nat /\ clicks <= clicks'
  BY <1>1 DEF TypeOK
<1>4. task[i].kind \in QuietKinds /\ Quiet(Idle) /\ Idle.pc = "sent" /\ Idle.kind = "idle"
  BY <1>1, SentQuiet, IdleHandler DEF QuietKinds
<1>5. /\ task' \in [Slots -> Handler] /\ task'[i] = Idle
      /\ \A j \in Slots \ {i} : task'[j] = task[j]
      /\ \A j \in Slots : (task'[j].newest <=> task[j].newest)
                          /\ (task[j].newest => task'[j] = task[j])
      /\ SpinnersTrue' /\ SettingsCounted' /\ SearchLoaded' /\ PagesFit'
      /\ ListContiguous' /\ ExtrasHeld'
  BY <1>1, <1>3, <1>4, QuietKeeps DEF ListKept
<1>6. TypeOK'
  BY <1>1, <1>2, <1>5 DEF TypeOK
<1>7. LoginOffered'
  BY <1>1, <1>4, <1>5 DEF LoginOffered
<1>8. PeriodLoaded'
  BY <1>1, <1>5 DEF PeriodLoaded
<1> QED
  BY <1>5, <1>6, <1>7, <1>8

----------------------------------------------------------------------------
(* Labels: the counters alone *)

LEMMA TapLabelKeepsInv ==
  ASSUME ClientInv, NEW i \in Slots, TapLabel(i)
  PROVE  ClientInv'
<1> USE DEF ClientInv
<1> DEFINE r == [Sent("counters") EXCEPT !.period = period]
<1>1. /\ task[i] = Idle /\ task' = [task EXCEPT ![i] = r]
      /\ clicks < MaxClicks /\ clicks' = clicks + 1
      /\ UNCHANGED <<live, stock, settings, cookie, token, ready, authed, passwordLogin, left,
                     period, data, loading, loadingMore, error, faults, searched, raced>>
  BY DEF TapLabel, Tap, Free, server, login, account, shown, history
<1>2. clicks' \in 0..MaxClicks /\ clicks' \in Nat /\ clicks <= clicks'
  BY <1>1, ClientAssumption DEF TypeOK
<1>3. Quiet(r) /\ r.pc = "sent" /\ r.kind = "counters"
  <2>1. /\ Quiet(Sent("counters")) /\ Sent("counters").kind = "counters"
        /\ Sent("counters").pc = "sent" /\ period \in Period
    BY SentQuiet DEF QuietKinds, TypeOK
  <2> QED
    BY <2>1 DEF Quiet, Handler
<1>4. task[i].kind \in QuietKinds /\ task[i].kind = "idle"
  BY <1>1, IdleHandler DEF QuietKinds
<1> HIDE DEF r
<1>5. /\ task' \in [Slots -> Handler] /\ task'[i] = r
      /\ \A j \in Slots \ {i} : task'[j] = task[j]
      /\ \A j \in Slots : (task'[j].newest <=> task[j].newest)
                          /\ (task[j].newest => task'[j] = task[j])
      /\ SpinnersTrue' /\ SettingsCounted' /\ SearchLoaded' /\ PagesFit'
      /\ ListContiguous' /\ ExtrasHeld'
  BY <1>1, <1>2, <1>3, <1>4, QuietKeeps DEF ListKept
<1>6. TypeOK'
  BY <1>1, <1>2, <1>5 DEF TypeOK
<1>7. LoginOffered'
  BY <1>1, <1>3, <1>5 DEF LoginOffered
<1>8. PeriodLoaded'
  BY <1>1, <1>5 DEF PeriodLoaded
<1> QED
  BY <1>5, <1>6, <1>7, <1>8

(* What is asked for is a month up to now.                                 *)
LEMMA AskedMonth ==
  ASSUME NEW p \in Period
  PROVE  Asked(p) \in 1..Now /\ ChosenMonth(p) \in 1..Now
  BY ClientAssumption DEF Asked, ChosenMonth, Period

LEMMA CountersAnsweredKeepsInv ==
  ASSUME ClientInv, NEW i \in Slots, CountersAnswered(i)
  PROVE  ClientInv'
<1> USE DEF ClientInv
<1>1. /\ cookie' \in NoSession..MaxClicks
      /\ task[i].kind = "counters" /\ task' = [task EXCEPT ![i] = Idle]
      /\ UNCHANGED <<live, stock, settings, token, ready, authed, passwordLogin, left,
                     period, loading, loadingMore, error, clicks, faults, searched>>
  BY TakeCookieTyped DEF CountersAnswered, Answered, Ends, server, account, bounds
<1>2. /\ data' \in Shown /\ ListKept /\ data'.month = data.month
      /\ raced \subseteq raced' /\ raced' \subseteq raced \cup {"period"}
      /\ data'.of = data.of \/ data'.of = Asked(period) \/ "period" \in raced'
  <2>1. CASE task[i].pc = "ok"
    <3>1. /\ data' = [data EXCEPT !.of = Asked(task[i].period)]
          /\ raced' = raced \cup {"period" : p \in {task[i].period} \ {period}}
      BY <2>1 DEF CountersAnswered
    <3>2. Asked(task[i].period) \in 0..Now
      BY AskedMonth DEF TypeOK, Handler
    <3>3. data \in Shown
      BY DEF TypeOK
    <3>4. /\ data' \in Shown /\ ListKept /\ data'.month = data.month
          /\ data'.of = Asked(task[i].period)
      BY <3>1, <3>2, <3>3 DEF Shown, ListKept
    <3> QED
      BY <3>1, <3>4
  <2>2. CASE task[i].pc # "ok"
    BY <2>2 DEF CountersAnswered, ListKept, TypeOK
  <2> QED
    BY <2>1, <2>2
<1>3. clicks' \in Nat /\ clicks <= clicks'
  BY <1>1 DEF TypeOK
<1>4. task[i].kind \in QuietKinds /\ Quiet(Idle) /\ Idle.pc = "sent" /\ Idle.kind = "idle"
  BY <1>1, SentQuiet, IdleHandler DEF QuietKinds
<1>5. /\ task' \in [Slots -> Handler] /\ task'[i] = Idle
      /\ \A j \in Slots \ {i} : task'[j] = task[j]
      /\ \A j \in Slots : (task'[j].newest <=> task[j].newest)
                          /\ (task[j].newest => task'[j] = task[j])
      /\ SpinnersTrue' /\ SettingsCounted' /\ SearchLoaded' /\ PagesFit'
      /\ ListContiguous' /\ ExtrasHeld'
  BY <1>1, <1>2, <1>3, <1>4, QuietKeeps
<1>6. TypeOK'
  BY <1>1, <1>2, <1>5 DEF TypeOK
<1>7. LoginOffered'
  BY <1>1, <1>4, <1>5 DEF LoginOffered
<1>8. PeriodLoaded'
  BY <1>1, <1>2, <1>5 DEF PeriodLoaded
<1> QED
  BY <1>5, <1>6, <1>7, <1>8

----------------------------------------------------------------------------
(* Loads: taps that start one, and its end *)

LEMMA TapRefreshKeepsInv ==
  ASSUME ClientInv, NEW i \in Slots, TapRefresh(i)
  PROVE  ClientInv'
<1> USE DEF ClientInv
<1>1. /\ task[i] = Idle /\ StartLoad(i, Load("load", cookie, token, period, data))
      /\ raced' = raced \cup Races(i, "load")
      /\ clicks < MaxClicks /\ clicks' = clicks + 1
      /\ UNCHANGED <<live, stock, settings, cookie, token, ready, authed, passwordLogin, left,
                     period, data, loadingMore, faults, searched>>
  BY DEF TapRefresh, Tap, Free, server, login, account
<1>2. clicks' \in 0..MaxClicks /\ clicks' \in Nat /\ clicks <= clicks'
  BY <1>1, ClientAssumption DEF TypeOK
<1>3. /\ task[i].kind \notin {"search", "more"}
      /\ cookie \in NoSession..MaxClicks /\ period \in Period
  BY <1>1, IdleHandler DEF TypeOK
<1>4. /\ task' \in [Slots -> Handler] /\ OthersKept(i)
      /\ task'[i].kind = "load" /\ task'[i].pc = "sent"
      /\ loading' = TRUE /\ error' = FALSE
      /\ raced' \subseteq {"extras", "list", "period", "search"}
      /\ SpinnersTrue' /\ SettingsCounted' /\ PeriodLoaded' /\ SearchLoaded' /\ PagesFit'
      /\ ListContiguous' /\ ExtrasHeld'
  BY <1>1, <1>2, <1>3, RenderLoads
<1>5. TypeOK'
  BY <1>1, <1>2, <1>4 DEF TypeOK
<1>6. LoginOffered'
  BY <1>1, <1>4 DEF LoginOffered, OthersKept, Kept
<1> QED
  BY <1>4, <1>5, <1>6

LEMMA ChoosePeriodKeepsInv ==
  ASSUME ClientInv, NEW i \in Slots, NEW p \in Period, ChoosePeriod(i, p)
  PROVE  ClientInv'
<1> USE DEF ClientInv
<1>1. /\ task[i] = Idle /\ StartLoad(i, Load("load", cookie, token, p, data))
      /\ period' = p /\ raced' = raced \cup Races(i, "load")
      /\ clicks < MaxClicks /\ clicks' = clicks + 1
      /\ UNCHANGED <<live, stock, settings, cookie, token, ready, authed, passwordLogin, left,
                     data, loadingMore, faults, searched>>
  BY DEF ChoosePeriod, Tap, Free, server, login, account
<1>2. clicks' \in 0..MaxClicks /\ clicks' \in Nat /\ clicks <= clicks'
  BY <1>1, ClientAssumption DEF TypeOK
<1>3. task[i].kind \notin {"search", "more"} /\ cookie \in NoSession..MaxClicks
  BY <1>1, IdleHandler DEF TypeOK
<1>4. /\ task' \in [Slots -> Handler] /\ OthersKept(i)
      /\ task'[i].kind = "load" /\ task'[i].pc = "sent"
      /\ loading' = TRUE /\ error' = FALSE
      /\ raced' \subseteq {"extras", "list", "period", "search"}
      /\ SpinnersTrue' /\ SettingsCounted' /\ PeriodLoaded' /\ SearchLoaded' /\ PagesFit'
      /\ ListContiguous' /\ ExtrasHeld'
  BY <1>1, <1>2, <1>3, RenderLoads
<1>5. TypeOK'
  BY <1>1, <1>2, <1>4 DEF TypeOK
<1>6. LoginOffered'
  BY <1>1, <1>4 DEF LoginOffered, OthersKept, Kept
<1> QED
  BY <1>4, <1>5, <1>6

(* Arrows, typed months and "by month" never leave 1..Now.                 *)
LEMMA ChooseMonthKeepsInv ==
  ASSUME ClientInv, NEW i \in Slots, ChooseMonth(i)
  PROVE  ClientInv'
<1>1. PICK m \in Months(data.month) \cup Months(period.month) :
        ChoosePeriod(i, [period EXCEPT !.mode = "month", !.month = m])
  BY DEF ChooseMonth
<1>2. ASSUME NEW n \in 1..Now, NEW k \in Months(n)
      PROVE  k \in 1..Now
  BY <1>2, ClientAssumption
     DEF Months, Arrows, shiftMonth, clampMonth, canGoNextMonth, Smaller
<1>3. data.month \in 1..Now /\ period \in Period /\ period.month \in 1..Now
  BY DEF ClientInv, TypeOK, Shown, Period
<1>4. m \in 1..Now
  BY <1>2, <1>3
<1>5. [period EXCEPT !.mode = "month", !.month = m] \in Period
  BY <1>3, <1>4 DEF Period
<1> QED
  BY <1>1, <1>5, ChoosePeriodKeepsInv

LEMMA ChoosePresetKeepsInv ==
  ASSUME ClientInv, NEW i \in Slots, ChoosePreset(i)
  PROVE  ClientInv'
<1>1. [period EXCEPT !.mode = "preset"] \in Period
  BY DEF ClientInv, TypeOK, Period
<1> QED
  BY <1>1, ChoosePeriodKeepsInv DEF ChoosePreset

LEMMA LoadSupersededKeepsInv ==
  ASSUME ClientInv, NEW i \in Slots, LoadSuperseded(i)
  PROVE  ClientInv'
<1> USE DEF ClientInv
<1>1. /\ cookie' \in NoSession..MaxClicks
      /\ task[i].kind \in Loads /\ ~task[i].newest /\ task' = [task EXCEPT ![i] = Idle]
      /\ UNCHANGED <<live, stock, settings, token, ready, authed, passwordLogin, left,
                     period, data, loading, loadingMore, error, clicks, faults, searched, raced>>
  BY TakeCookieTyped DEF LoadSuperseded, Answered, Ends, server, account, shown, bounds, history
<1>2. /\ clicks' \in Nat /\ clicks <= clicks' /\ task[i].kind \notin {"search", "more"}
      /\ Quiet(Idle) /\ Idle.pc = "sent" /\ Idle.kind = "idle" /\ ~Idle.newest
  BY <1>1, SentQuiet, IdleHandler DEF TypeOK, Loads, QuietKinds
<1>3. /\ task' \in [Slots -> Handler]
      /\ SettingsCounted' /\ SearchLoaded' /\ PagesFit' /\ ListContiguous' /\ ExtrasHeld'
  BY <1>1, <1>2, QuietTurn DEF ListKept
<1>4. task'[i] = Idle /\ \A j \in Slots \ {i} : task'[j] = task[j]
  BY <1>1 DEF TypeOK
<1>5. TypeOK'
  BY <1>1, <1>3 DEF TypeOK
<1>6. SpinnersTrue'
  BY <1>1, <1>2, <1>4 DEF SpinnersTrue
<1>7. LoginOffered'
  BY <1>1, <1>2, <1>4 DEF LoginOffered
<1>8. PeriodLoaded'
  BY <1>1, <1>2, <1>4 DEF PeriodLoaded
<1> QED
  BY <1>3, <1>5, <1>6, <1>7, <1>8

LEMMA LoadFailsKeepsInv ==
  ASSUME ClientInv, NEW i \in Slots, LoadFails(i)
  PROVE  ClientInv'
<1> USE DEF ClientInv
<1>1. /\ cookie' \in NoSession..MaxClicks
      /\ task[i].kind \in Loads /\ task[i].newest /\ task' = [task EXCEPT ![i] = Idle]
      /\ error' = TRUE /\ loading' = FALSE
      /\ UNCHANGED <<live, stock, settings, token, ready, passwordLogin, left,
                     period, data, loadingMore, clicks, faults, searched, raced>>
  BY TakeCookieTyped DEF LoadFails, Answered, Ends, server, bounds, history
<1>2. /\ clicks' \in Nat /\ clicks <= clicks' /\ task[i].kind \notin {"search", "more"}
      /\ Quiet(Idle) /\ Idle.pc = "sent" /\ Idle.kind = "idle" /\ ~Idle.newest
  BY <1>1, SentQuiet, IdleHandler DEF TypeOK, Loads, QuietKinds
<1>3. /\ task' \in [Slots -> Handler]
      /\ SettingsCounted' /\ SearchLoaded' /\ PagesFit' /\ ListContiguous' /\ ExtrasHeld'
  BY <1>1, <1>2, QuietTurn DEF ListKept
<1>4. task'[i] = Idle /\ \A j \in Slots \ {i} : task'[j] = task[j]
  BY <1>1 DEF TypeOK
<1>5. TypeOK'
  <2>1. authed' \in BOOLEAN
    BY DEF LoadFails, TypeOK
  <2> QED
    BY <1>1, <1>3, <2>1 DEF TypeOK
<1>6. SpinnersTrue'
  BY <1>1, <1>2, <1>4 DEF SpinnersTrue
<1>7. LoginOffered'
  BY <1>1, <1>2, <1>4 DEF LoginOffered
<1>8. PeriodLoaded'
  BY <1>1, <1>2, <1>4 DEF PeriodLoaded
<1> QED
  BY <1>3, <1>5, <1>6, <1>7, <1>8

(* What a load brings.                                                     *)
LEMMA BroughtData ==
  ASSUME ClientInv, NEW i \in Slots, task[i].kind \in Loads, task[i].pc = "ok",
         data' = Brought(task[i])
  PROVE  /\ data' \in Shown
         /\ data'.of = Asked(task[i].period) /\ data'.month = ChosenMonth(task[i].period)
         /\ data'.search = task[i].search /\ data'.extras <= settings
         /\ data'.extras = IF task[i].kind = "full" THEN task[i].got.extras ELSE task[i].extras
         /\ data'.list = SubSeq(Matches(data'.search, data'.asOf), 1, Len(data'.list))
         /\ Len(data'.list) <= Len(Matches(data'.search, data'.asOf))
         /\ data'.total = Len(Matches(data'.search, data'.asOf))
<1> DEFINE t == task[i]
           all == Matches(t.search, t.got.asOf)
<1>1. t \in Handler /\ t.got \in Listing /\ t.period \in Period
  BY DEF ClientInv, TypeOK, Handler
<1>2. /\ data'.of = Asked(t.period) /\ data'.month = ChosenMonth(t.period)
      /\ data'.list = t.got.list /\ data'.total = t.got.total /\ data'.asOf = t.got.asOf
      /\ data'.search = t.search
      /\ data'.extras = IF t.kind = "full" THEN t.got.extras ELSE t.extras
  BY DEF Brought
<1>3. data'.extras \in Nat /\ data'.extras <= settings
  BY <1>1, <1>2 DEF ClientInv, SettingsCounted, Handler, Listing
<1>4. data' \in Shown
  <2>1. Asked(t.period) \in 0..Now /\ ChosenMonth(t.period) \in 1..Now
    BY <1>1, AskedMonth
  <2>2. /\ t.got.list \in Seq(1..MaxStock) /\ t.got.total \in Nat /\ t.got.asOf \in 0..MaxStock
        /\ t.search \in Searches
    BY <1>1 DEF Handler, Listing
  <2>3. data' = [of |-> data'.of, month |-> data'.month, list |-> data'.list,
                 total |-> data'.total, asOf |-> data'.asOf, search |-> data'.search,
                 extras |-> data'.extras]
    BY DEF Brought
  <2> QED
    BY <1>2, <1>3, <2>1, <2>2, <2>3 DEF Shown
<1>5. /\ t.got.list = SubSeq(all, 0 + 1, Smaller(0 + Page, Len(all)))
      /\ t.got.total = Len(all)
  BY DEF ClientInv, PagesFit, Loads, Readers
<1>6. all \in Seq(1..MaxStock) /\ Len(all) \in Nat
  BY <1>1, MatchesListed DEF Handler, Listing
<1> HIDE DEF all, t
<1> DEFINE last == Smaller(0 + Page, Len(all))
<1>7. last <= Len(all) /\ Len(SubSeq(all, 1, last)) = last
  BY <1>6, PageExtends
<1>8. t.got.list = SubSeq(all, 1, last)
  BY <1>5
<1> HIDE DEF last
<1>9. /\ data'.list = SubSeq(all, 1, Len(data'.list)) /\ Len(data'.list) <= Len(all)
      /\ data'.total = Len(all)
  BY <1>2, <1>5, <1>7, <1>8
<1>10. all = Matches(data'.search, data'.asOf)
  BY <1>2 DEF all
<1> QED
  BY <1>2, <1>3, <1>4, <1>9, <1>10 DEF t

(* The end of the newest load: what it brought is on screen.               *)
LEMMA LoadSucceedsKeepsInv ==
  ASSUME ClientInv, NEW i \in Slots, LoadSucceeds(i)
  PROVE  ClientInv'
<1> USE DEF ClientInv
<1>1. /\ cookie' \in NoSession..MaxClicks
      /\ task[i].kind \in Loads /\ task[i].newest /\ task[i].pc = "ok"
      /\ data' = Brought(task[i]) /\ authed' = TRUE
      /\ UNCHANGED <<live, stock, settings, token, ready, passwordLogin, left, period,
                     loadingMore, clicks, faults, searched>>
  BY TakeCookieTyped DEF LoadSucceeds, Answered, server, bounds
<1>2. /\ data' \in Shown
      /\ data'.of = Asked(task[i].period) /\ data'.month = ChosenMonth(task[i].period)
      /\ data'.search = task[i].search /\ data'.extras <= settings
      /\ data'.extras = IF task[i].kind = "full" THEN task[i].got.extras ELSE task[i].extras
      /\ data'.list = SubSeq(Matches(data'.search, data'.asOf), 1, Len(data'.list))
      /\ Len(data'.list) <= Len(Matches(data'.search, data'.asOf))
      /\ data'.total = Len(Matches(data'.search, data'.asOf))
  BY <1>1, BroughtData
<1> DEFINE next == Load("load", cookie', token, period, data')
           after == raced \ ({"list"} \cup {"period" : p \in {task[i].period} \cap {period}})
<1>3. PICK r : /\ task' = Crossed([task EXCEPT ![i] = r])
               /\ \/ r = Idle /\ loading' = FALSE /\ error' = error /\ raced' = after
                  \/ r = next /\ loading' = TRUE /\ error' = FALSE
                       /\ raced' = after \cup Races(i, "load")
  <2>1. CASE authed
    BY <2>1 DEF LoadSucceeds
  <2>2. CASE ~authed
    BY <2>2 DEF LoadSucceeds
  <2> QED
    BY <2>1, <2>2
<1>4. /\ next \in Handler /\ next.kind = "load" /\ next.pc = "sent" /\ next.newest
      /\ next.offset = 0 /\ next.period = period /\ next.search = data'.search
      /\ next.extras = data'.extras /\ next.got = NoAnswer /\ ~next.crossed
  <2>1. /\ "load" \in Loads /\ cookie' \in NoSession..MaxClicks
        /\ token \in {"none", "good", "bad"} /\ period \in Period
        /\ data'.search \in Searches /\ data'.extras \in Nat
    BY <1>1, <1>2 DEF TypeOK, Shown, Loads
  <2> QED
    BY <2>1, LoadHandler
<1> HIDE DEF next
<1>5. /\ r \in Handler /\ r.kind \in {"idle", "load"} /\ r.pc = "sent" /\ ~r.crossed
      /\ r.offset = 0 /\ r.got.extras = 0 /\ r.extras <= settings
      /\ r.newest <=> loading' = TRUE
      /\ r.kind = "load" <=> loading' = TRUE
      /\ r.newest => r.period = period
      /\ r.kind = "load" => r.search = data'.search /\ r.extras = data'.extras
  BY <1>2, <1>3, <1>4, IdleHandler DEF TypeOK
<1>6. /\ raced' \subseteq {"extras", "list", "period", "search"}
      /\ raced \ {"list", "period"} \subseteq raced'
      /\ task[i].period # period /\ "period" \in raced => "period" \in raced'
      /\ r.kind = "load" => Races(i, "load") \subseteq raced'
  <2>1. Races(i, "load") \subseteq {"extras"}
    BY RacesFlagged DEF Kinds, Loads
  <2> QED
    BY <1>3, <2>1, IdleHandler DEF TypeOK
<1>7. /\ task' \in [Slots -> Handler] /\ task'[i] = r
      /\ \A j \in Slots \ {i} : task'[j].newest = task[j].newest
      /\ \A j \in Slots : task'[j].kind = "more" => task'[j].crossed
      /\ OthersKept(i)
  BY <1>3, <1>5, CrossedSlots DEF TypeOK
<1>8. error' \in BOOLEAN /\ loading' \in BOOLEAN
  BY <1>3 DEF TypeOK
<1>9. TypeOK'
  BY <1>1, <1>2, <1>6, <1>7, <1>8 DEF TypeOK
<1>10. SpinnersTrue'
  <2>1. \A j \in Slots : task'[j].newest => j = i
    BY <1>1, <1>7 DEF SpinnersTrue
  <2>2. \A j \in Slots : task'[j].kind = "more" <=> task[j].kind = "more"
    BY <1>1, <1>5, <1>7 DEF OthersKept, Kept, Loads
  <2>3. r.newest => r.kind \in Loads
    BY <1>5 DEF Loads
  <2> QED
    BY <1>1, <1>5, <1>7, <1>8, <2>1, <2>2, <2>3 DEF SpinnersTrue
<1>11. LoginOffered'
  BY <1>1, <1>5, <1>7 DEF LoginOffered, OthersKept, Kept
<1>12. SettingsCounted'
  BY <1>1, <1>2, <1>5, <1>7, SettingsStay DEF TypeOK
<1>13. PeriodLoaded'
  <2>1. CASE task[i].period = period
    <3>1. \A j \in Slots : task'[j].newest => task'[j].period = period'
      BY <1>1, <1>5, <1>7 DEF SpinnersTrue
    <3> QED
      BY <1>1, <1>2, <2>1, <3>1 DEF PeriodLoaded
  <2>2. CASE task[i].period # period
    BY <1>1, <1>6, <2>2 DEF PeriodLoaded
  <2> QED
    BY <2>1, <2>2
<1>14. SearchLoaded'
  BY <1>1, <1>2, <1>5, <1>6, <1>7 DEF SearchLoaded, OthersKept, Kept, Loads
<1>15. PagesFit'
  BY <1>1, <1>5, <1>7 DEF PagesFit, OthersKept, Kept
<1>16. ListContiguous'
  BY <1>2 DEF ListContiguous
<1>17. ExtrasHeld'
  <2>1. CASE "extras" \in raced'
    BY <2>1 DEF ExtrasHeld
  <2>2. CASE "extras" \notin raced'
    <3>1. "extras" \notin raced
      BY <1>6, <2>2
    <3>2. r.kind = "load" => \A j \in Slots \ {i} : task[j].kind \notin Carriers
      <4>1. \A j \in Slots \ {i} :
              {"load", task[j].kind} \subseteq Loads \cup Carriers
                /\ task[j].kind \in Carriers => "extras" \in Races(i, "load")
        BY RacesFlagged DEF Kinds, Loads
      <4> QED
        BY <1>6, <2>2, <4>1 DEF Loads
    <3>3. \A j, k \in Slots :
            {task'[j].kind, task'[k].kind} \subseteq Loads \cup Carriers
              /\ task'[j].kind \in Carriers => j = k
      <4>1. r.kind \notin Carriers /\ (r.kind \in Loads => r.kind = "load")
        BY <1>5 DEF Carriers, Loads
      <4> QED
        BY <1>7, <3>1, <3>2, <4>1 DEF ExtrasHeld, OthersKept, Kept
    <3>4. CASE task[i].kind = "load"
      <4>1. data'.extras = data.extras
        BY <1>2, <3>1, <3>4 DEF ExtrasHeld
      <4>2. \A j \in Slots :
              /\ task'[j].kind = "load" => task'[j].extras = data'.extras
              /\ task'[j].kind \in {"full", "extras"} /\ task'[j].pc = "ok" =>
                   task'[j].got.extras >= data'.extras
        BY <1>5, <1>7, <3>1, <4>1 DEF ExtrasHeld, OthersKept, Kept
      <4> QED
        BY <3>3, <4>2 DEF ExtrasHeld
    <3>5. CASE task[i].kind = "full"
      <4>1. \A j \in Slots \ {i} : task[j].kind \notin Loads \cup Carriers
        BY <3>1, <3>5 DEF ExtrasHeld, Loads, Carriers
      <4>2. \A j \in Slots :
              /\ task'[j].kind = "load" => task'[j].extras = data'.extras
              /\ task'[j].kind \in {"full", "extras"} /\ task'[j].pc = "ok" =>
                   task'[j].got.extras >= data'.extras
        BY <1>5, <1>7, <4>1 DEF OthersKept, Kept, Loads, Carriers
      <4> QED
        BY <3>3, <4>2 DEF ExtrasHeld
    <3> QED
      BY <1>1, <3>4, <3>5 DEF Loads
  <2> QED
    BY <2>1, <2>2
<1> QED
  BY <1>9, <1>10, <1>11, <1>12, <1>13, <1>14, <1>15, <1>16, <1>17

----------------------------------------------------------------------------
(* Settings: edits, and what the settings page fetches *)

(* A new handler that brings rules, goals and cards.                       *)
LEMMA CarrierStarts ==
  ASSUME ClientInv, NEW i \in Slots, task[i] = Idle, NEW r \in Handler,
         r.kind \in {"edit", "extras"}, r.pc = "sent", ~r.newest, r.offset = 0,
         r.kind = "edit" => r.search = data.search,
         r.extras <= settings, r.got.extras = 0, task' = [task EXCEPT ![i] = r],
         raced' = raced \cup Races(i, r.kind), clicks < MaxClicks, clicks' = clicks + 1,
         UNCHANGED <<live, stock, settings, cookie, token, ready, authed, passwordLogin, left,
                     period, data, loading, loadingMore, error, faults, searched>>
  PROVE  ClientInv'
<1> USE DEF ClientInv
<1>1. clicks \in Nat /\ clicks' \in 0..MaxClicks /\ settings \in Nat
  BY ClientAssumption DEF TypeOK
<1>2. /\ task' \in [Slots -> Handler] /\ task'[i] = r
      /\ \A j \in Slots \ {i} : task'[j] = task[j]
  BY DEF TypeOK
<1>3. task[i].kind = "idle" /\ ~task[i].newest
  BY IdleHandler
<1>4. r.kind \in Kinds /\ r.kind \in Carriers
  BY DEF Kinds, Carriers
<1>5. TypeOK'
  <2>1. raced' \subseteq {"extras", "list", "period", "search"}
    BY <1>4, RacesFlagged DEF TypeOK
  <2> QED
    BY <1>1, <1>2, <2>1 DEF TypeOK
<1>6. SpinnersTrue'
  BY <1>2, <1>3 DEF SpinnersTrue
<1>7. LoginOffered'
  BY <1>2 DEF LoginOffered
<1>8. SettingsCounted'
  <2> DEFINE editing == {j \in Slots : task[j].kind = "edit" /\ task[j].pc = "sent"}
             more == editing \cup {i}
  <2>1. editing' \in SUBSET more
    BY <1>2
  <2>2. IsFiniteSet(editing) /\ settings + Cardinality(editing) <= clicks + 1
    BY DEF SettingsCounted
  <2>3. i \notin editing
    BY <1>3
  <2> HIDE DEF editing
  <2>4. /\ IsFiniteSet(more) /\ Cardinality(more) = Cardinality(editing) + 1
        /\ Cardinality(editing) \in Nat
    BY <2>2, <2>3, FS_AddElement, FS_CardinalityType
  <2> HIDE DEF more
  <2>5. IsFiniteSet(editing') /\ Cardinality(editing') <= Cardinality(more)
        /\ Cardinality(editing') \in Nat /\ Cardinality(more) \in Nat
    BY <2>1, <2>4, FS_Subset, FS_CardinalityType
  <2>6. settings' + Cardinality(editing') <= clicks' + 1
    BY <1>1, <2>2, <2>4, <2>5
  <2>7. \A j \in Slots : task'[j].extras <= settings' /\ task'[j].got.extras <= settings'
    BY <1>1, <1>2 DEF SettingsCounted
  <2>8. data'.extras <= settings'
    BY DEF SettingsCounted
  <2> QED
    BY <2>5, <2>6, <2>7, <2>8 DEF SettingsCounted, editing
<1>9. PeriodLoaded'
  <2>1. "period" \in raced => "period" \in raced'
    OBVIOUS
  <2>2. \A j \in Slots : (task'[j].newest <=> task[j].newest)
                      /\ (task[j].newest => task'[j] = task[j])
    BY <1>2, <1>3
  <2> QED
    BY <2>1, <2>2 DEF PeriodLoaded
<1>10. SearchLoaded'
  BY <1>2, <1>3 DEF SearchLoaded, Loads
<1>11. PagesFit'
  BY <1>2 DEF PagesFit
<1>12. ListContiguous'
  BY DEF ListContiguous
<1>13. ExtrasHeld'
  <2>1. CASE "extras" \in raced'
    BY <2>1 DEF ExtrasHeld
  <2>2. CASE "extras" \notin raced'
    <3>1. "extras" \notin raced /\ "extras" \notin Races(i, r.kind)
      BY <2>2
    <3>2. \A j \in Slots \ {i} : task[j].kind \notin Loads \cup Carriers
      BY <1>4, <3>1, RacesFlagged
    <3>3. \A j, k \in Slots :
            {task'[j].kind, task'[k].kind} \subseteq Loads \cup Carriers
              /\ task'[j].kind \in Carriers => j = k
      BY <1>2, <3>2
    <3>4. \A j \in Slots :
            /\ task'[j].kind = "load" => task'[j].extras = data'.extras
            /\ task'[j].kind \in {"full", "extras"} /\ task'[j].pc = "ok" =>
                 task'[j].got.extras >= data'.extras
      BY <1>2, <3>2 DEF Loads, Carriers
    <3> QED
      BY <3>3, <3>4 DEF ExtrasHeld
  <2> QED
    BY <2>1, <2>2
<1> QED
  BY <1>5, <1>6, <1>7, <1>8, <1>9, <1>10, <1>11, <1>12, <1>13

LEMMA OpenSettingsKeepsInv ==
  ASSUME ClientInv, NEW i \in Slots, OpenSettings(i)
  PROVE  ClientInv'
<1> DEFINE r == Sent("extras")
<1>1. /\ r \in Handler /\ r.kind = "extras" /\ r.pc = "sent" /\ ~r.newest /\ r.offset = 0
      /\ r.extras = 0 /\ r.got.extras = 0
  <2>1. "extras" \in Kinds /\ cookie \in NoSession..MaxClicks /\ token \in {"none", "good", "bad"}
    BY DEF ClientInv, TypeOK, Kinds, Carriers
  <2> QED
    BY <2>1, RequestHandler, IdleHandler DEF Sent
<1>2. r.extras <= settings
  BY <1>1 DEF ClientInv, TypeOK
<1>3. /\ task[i] = Idle /\ task' = [task EXCEPT ![i] = r] /\ raced' = raced \cup Races(i, r.kind)
      /\ clicks < MaxClicks /\ clicks' = clicks + 1
      /\ UNCHANGED <<live, stock, settings, cookie, token, ready, authed, passwordLogin, left,
                     period, data, loading, loadingMore, error, faults, searched>>
  BY <1>1 DEF OpenSettings, Tap, Free, server, login, account, shown
<1> HIDE DEF r
<1> QED
  BY <1>1, <1>2, <1>3, CarrierStarts

LEMMA TapEditKeepsInv ==
  ASSUME ClientInv, NEW i \in Slots, TapEdit(i)
  PROVE  ClientInv'
<1> DEFINE s == Sent("edit")
           r == [s EXCEPT !.period = period, !.search = data.search, !.extras = data.extras]
<1>1. /\ s \in Handler /\ s.kind = "edit" /\ s.pc = "sent" /\ ~s.newest /\ s.offset = 0
      /\ s.got.extras = 0
  <2>1. "edit" \in Kinds /\ cookie \in NoSession..MaxClicks /\ token \in {"none", "good", "bad"}
    BY DEF ClientInv, TypeOK, Kinds, Carriers
  <2> QED
    BY <2>1, RequestHandler, IdleHandler DEF Sent
<1>2. period \in Period /\ data.search \in Searches /\ data.extras \in Nat /\ data.extras <= settings
  BY DEF ClientInv, TypeOK, Shown, SettingsCounted
<1>3. /\ task[i] = Idle /\ task' = [task EXCEPT ![i] = r] /\ raced' = raced \cup Races(i, "edit")
      /\ clicks < MaxClicks /\ clicks' = clicks + 1
      /\ UNCHANGED <<live, stock, settings, cookie, token, ready, authed, passwordLogin, left,
                     period, data, loading, loadingMore, error, faults, searched>>
  BY DEF TapEdit, Tap, Free, server, login, account, shown
<1> HIDE DEF s
<1>4. /\ r \in Handler /\ r.kind = "edit" /\ r.pc = "sent" /\ ~r.newest /\ r.offset = 0
      /\ r.search = data.search /\ r.extras = data.extras /\ r.got.extras = 0
  BY <1>1, <1>2 DEF Handler
<1> HIDE DEF r
<1> QED
  BY <1>2, <1>3, <1>4, CarrierStarts

LEMMA EditAnsweredKeepsInv ==
  ASSUME ClientInv, NEW i \in Slots, EditAnswered(i)
  PROVE  ClientInv'
<1> USE DEF ClientInv
<1>1. /\ cookie' \in NoSession..MaxClicks
      /\ task[i].kind = "edit"
      /\ UNCHANGED <<live, stock, settings, token, ready, authed, passwordLogin, left,
                     period, data, loadingMore, clicks, faults, searched>>
  BY TakeCookieTyped DEF EditAnswered, Answered, server, account, bounds
<1>2. /\ clicks' \in Nat /\ clicks <= clicks' /\ task[i].kind \notin {"search", "more"}
      /\ ~task[i].newest
  BY <1>1 DEF TypeOK, SpinnersTrue, Loads
<1>3. CASE task[i].pc = "ok"
  <2> DEFINE d == [search |-> task[i].search, extras |-> task[i].extras]
  <2>1. /\ StartLoad(i, Load("full", cookie', token, task[i].period, d))
        /\ raced' = raced \cup Races(i, "full")
                          \cup {"period" : p \in {task[i].period} \ {period}}
                          \cup {"search" : q \in {task[i].search} \ {data.search}}
    BY <1>3 DEF EditAnswered
  <2>2. /\ task[i].period \in Period /\ d.search \in Searches /\ d.extras \in Nat
        /\ d.search = task[i].search
        /\ d.extras <= settings /\ cookie' \in NoSession..MaxClicks
        /\ token \in {"none", "good", "bad"}
    BY <1>1 DEF TypeOK, Handler, SettingsCounted
  <2>3. "full" \in Loads /\ "full" \in Kinds
    BY DEF Loads, Kinds
  <2> HIDE DEF d
  <2>4. /\ raced \cup Races(i, "full") \subseteq raced'
        /\ task[i].period = period' \/ "period" \in raced'
        /\ d.search = data.search \/ "search" \in raced'
        /\ raced' \subseteq {"extras", "list", "period", "search"}
    BY <1>1, <2>1, <2>2, <2>3, RacesFlagged DEF TypeOK
  <2>5. /\ task' \in [Slots -> Handler] /\ OthersKept(i)
        /\ task'[i].kind = "full" /\ task'[i].pc = "sent"
        /\ SpinnersTrue' /\ SettingsCounted' /\ PeriodLoaded' /\ SearchLoaded' /\ PagesFit'
        /\ ListContiguous' /\ ExtrasHeld'
    BY <1>1, <1>2, <2>1, <2>2, <2>3, <2>4, LoadStarts
  <2>6. TypeOK'
    BY <1>1, <2>1, <2>4, <2>5 DEF TypeOK, StartLoad
  <2>7. LoginOffered'
    BY <1>1, <2>5 DEF LoginOffered, OthersKept, Kept
  <2> QED
    BY <2>5, <2>6, <2>7
<1>4. CASE task[i].pc # "ok"
  <2>1. /\ task' = [task EXCEPT ![i] = Idle] /\ error' \in {TRUE, error}
        /\ UNCHANGED <<loading, raced>>
    BY <1>4 DEF EditAnswered, Ends
  <2>2. Quiet(Idle) /\ Idle.pc = "sent" /\ Idle.kind = "idle" /\ ~Idle.newest
    BY SentQuiet, IdleHandler DEF QuietKinds
  <2>3. /\ task' \in [Slots -> Handler]
        /\ SettingsCounted' /\ SearchLoaded' /\ PagesFit' /\ ListContiguous' /\ ExtrasHeld'
    BY <1>1, <1>2, <2>1, <2>2, QuietTurn DEF ListKept
  <2>4. task'[i] = Idle /\ \A j \in Slots \ {i} : task'[j] = task[j]
    BY <2>1 DEF TypeOK
  <2>5. TypeOK'
    BY <1>1, <2>1, <2>3 DEF TypeOK
  <2>6. SpinnersTrue'
    BY <1>1, <1>2, <2>1, <2>2, <2>4 DEF SpinnersTrue
  <2>7. LoginOffered'
    BY <1>1, <2>2, <2>4 DEF LoginOffered
  <2>8. PeriodLoaded'
    <3>1. error' = TRUE \/ error' = error
      BY <2>1
    <3>2. \A j \in Slots : (task'[j].newest <=> task[j].newest)
                        /\ (task[j].newest => task'[j] = task[j])
      BY <1>2, <2>2, <2>4
    <3> QED
      BY <1>1, <2>1, <3>1, <3>2 DEF PeriodLoaded
  <2> QED
    BY <2>3, <2>5, <2>6, <2>7, <2>8
<1> QED
  BY <1>3, <1>4

(* What the settings page fetched is not older than what it replaces.      *)
LEMMA ExtrasAnsweredKeepsInv ==
  ASSUME ClientInv, NEW i \in Slots, ExtrasAnswered(i)
  PROVE  ClientInv'
<1> USE DEF ClientInv
<1>1. /\ cookie' \in NoSession..MaxClicks
      /\ task[i].kind = "extras" /\ task' = [task EXCEPT ![i] = Idle]
      /\ data' = [data EXCEPT !.extras = IF task[i].pc = "ok" THEN task[i].got.extras ELSE 0]
      /\ raced' = raced \cup {"extras" : pc \in {task[i].pc} \ {"ok"}}
      /\ UNCHANGED <<live, stock, settings, token, ready, authed, passwordLogin, left,
                     period, loading, loadingMore, error, clicks, faults, searched>>
  BY TakeCookieTyped DEF ExtrasAnswered, Answered, Ends, server, account, bounds
<1>2. /\ task' \in [Slots -> Handler] /\ task'[i] = Idle
      /\ \A j \in Slots \ {i} : task'[j] = task[j]
      /\ OthersKept(i)
  BY <1>1, IdleHandler, OneSlot DEF TypeOK
<1>3. /\ data' \in Shown /\ data'.extras <= settings
      /\ data'.of = data.of /\ data'.month = data.month /\ data'.list = data.list
      /\ data'.total = data.total /\ data'.asOf = data.asOf /\ data'.search = data.search
  <2> DEFINE e == IF task[i].pc = "ok" THEN task[i].got.extras ELSE 0
  <2>1. e \in Nat /\ e <= settings /\ data \in Shown
    BY DEF TypeOK, SettingsCounted, Handler, Listing
  <2>2. data' = [data EXCEPT !.extras = e]
    BY <1>1
  <2> HIDE DEF e
  <2> QED
    BY <2>1, <2>2 DEF Shown
<1>4. /\ Idle.pc = "sent" /\ Idle.kind = "idle" /\ ~Idle.newest /\ Idle.offset = 0
      /\ Idle.extras = 0 /\ Idle.got.extras = 0 /\ ~task[i].newest
  BY <1>1, IdleHandler DEF SpinnersTrue, Loads
<1>5. raced \subseteq raced' /\ raced' \subseteq raced \cup {"extras"}
  BY <1>1
<1>6. TypeOK'
  BY <1>1, <1>2, <1>3, <1>5 DEF TypeOK
<1>7. SpinnersTrue'
  BY <1>1, <1>2, <1>4 DEF SpinnersTrue
<1>8. LoginOffered'
  BY <1>1, <1>2, <1>4 DEF LoginOffered
<1>9. SettingsCounted'
  <2>1. clicks' \in Nat /\ clicks <= clicks' /\ 0 <= settings
    BY <1>1 DEF TypeOK
  <2> QED
    BY <1>1, <1>2, <1>3, <1>4, <2>1, SettingsStay
<1>10. PeriodLoaded'
  BY <1>1, <1>2, <1>3, <1>4, <1>5 DEF PeriodLoaded
<1>11. SearchLoaded'
  BY <1>1, <1>2, <1>3, <1>4, <1>5 DEF SearchLoaded, Loads
<1>12. PagesFit'
  BY <1>2, <1>3, <1>4 DEF PagesFit
<1>13. ListContiguous'
  BY <1>3, <1>5 DEF ListContiguous
<1>14. ExtrasHeld'
  <2>1. CASE "extras" \in raced'
    BY <2>1 DEF ExtrasHeld
  <2>2. CASE "extras" \notin raced'
    <3>1. \A j \in Slots \ {i} : task[j].kind \notin Loads \cup Carriers
      BY <1>1, <1>5, <2>2 DEF ExtrasHeld, Carriers
    <3>2. \A j \in Slots : task'[j].kind \notin Loads \cup Carriers
      BY <1>2, <1>4, <3>1 DEF Loads, Carriers
    <3> QED
      BY <3>2 DEF ExtrasHeld, Loads, Carriers
  <2> QED
    BY <2>1, <2>2
<1> QED
  BY <1>6, <1>7, <1>8, <1>9, <1>10, <1>11, <1>12, <1>13, <1>14

----------------------------------------------------------------------------
(* The transactions page *)

LEMMA TapSearchKeepsInv ==
  ASSUME ClientInv, NEW i \in Slots, NEW q \in Searches, TapSearch(i, q)
  PROVE  ClientInv'
<1> USE DEF ClientInv
<1> DEFINE s == Sent("search")
           r == [s EXCEPT !.search = q]
<1>1. /\ s \in Handler /\ s.kind = "search" /\ s.pc = "sent" /\ ~s.newest /\ s.offset = 0
      /\ s.extras = 0 /\ s.got.extras = 0
  <2>1. "search" \in Kinds /\ cookie \in NoSession..MaxClicks /\ token \in {"none", "good", "bad"}
    BY DEF TypeOK, Kinds
  <2> QED
    BY <2>1, RequestHandler, IdleHandler DEF Sent
<1>2. /\ task[i] = Idle /\ task' = [task EXCEPT ![i] = r] /\ searched' = q
      /\ raced' = raced \cup {"search" : j \in {j \in Slots : task[j].kind = "search"}}
      /\ clicks < MaxClicks /\ clicks' = clicks + 1
      /\ UNCHANGED <<live, stock, settings, cookie, token, ready, authed, passwordLogin, left,
                     period, data, loading, loadingMore, error, faults>>
  BY DEF TapSearch, Tap, Free, server, login, account, shown
<1> HIDE DEF s
<1>3. /\ r \in Handler /\ r.kind = "search" /\ r.pc = "sent" /\ ~r.newest /\ r.offset = 0
      /\ r.search = q /\ r.extras = 0 /\ r.got.extras = 0
  BY <1>1 DEF Handler
<1> HIDE DEF r
<1>4. /\ task' \in [Slots -> Handler] /\ task'[i] = r
      /\ \A j \in Slots \ {i} : task'[j] = task[j]
      /\ OthersKept(i)
  BY <1>2, <1>3, OneSlot DEF TypeOK
<1>5. task[i].kind = "idle" /\ ~task[i].newest
  BY <1>2, IdleHandler
<1>6. raced \subseteq raced' /\ raced' \subseteq raced \cup {"search"}
  BY <1>2
<1>7. clicks' \in 0..MaxClicks /\ clicks' \in Nat /\ clicks <= clicks'
  BY <1>2, ClientAssumption DEF TypeOK
<1>8. TypeOK'
  BY <1>2, <1>4, <1>6, <1>7 DEF TypeOK
<1>9. SpinnersTrue'
  BY <1>2, <1>3, <1>4, <1>5 DEF SpinnersTrue
<1>10. LoginOffered'
  BY <1>2, <1>3, <1>4 DEF LoginOffered
<1>11. SettingsCounted'
  <2>1. data'.extras <= settings /\ 0 <= settings
    BY <1>2 DEF SettingsCounted, TypeOK
  <2> QED
    BY <1>2, <1>3, <1>4, <1>7, <2>1, SettingsStay
<1>12. PeriodLoaded'
  <2>1. \A j \in Slots : (task'[j].newest <=> task[j].newest)
                      /\ (task[j].newest => task'[j] = task[j])
    BY <1>3, <1>4, <1>5
  <2> QED
    BY <1>2, <1>6, <2>1 DEF PeriodLoaded
<1>13. SearchLoaded'
  <2>1. CASE "search" \in raced'
    BY <2>1 DEF SearchLoaded
  <2>2. CASE "search" \notin raced'
    <3>1. "search" \notin raced /\ \A j \in Slots : task[j].kind # "search"
      BY <1>2, <2>2
    <3> QED
      BY <1>2, <1>3, <1>4, <3>1 DEF SearchLoaded, Loads
  <2> QED
    BY <2>1, <2>2
<1>14. PagesFit'
  BY <1>2, <1>3, <1>4 DEF PagesFit
<1>15. ListContiguous'
  BY <1>2, <1>6 DEF ListContiguous
<1>16. ExtrasHeld'
  <2>1. r.kind \notin Loads \cup Carriers
    BY <1>3 DEF Loads, Carriers
  <2> QED
    BY <1>2, <1>3, <1>4, <1>6, <2>1 DEF ExtrasHeld
<1> QED
  BY <1>8, <1>9, <1>10, <1>11, <1>12, <1>13, <1>14, <1>15, <1>16

(* The answer to a search is the list from its start.                      *)
LEMMA SearchAnsweredKeepsInv ==
  ASSUME ClientInv, NEW i \in Slots, SearchAnswered(i)
  PROVE  ClientInv'
<1> USE DEF ClientInv
<1>1. /\ cookie' \in NoSession..MaxClicks
      /\ task[i].kind = "search"
      /\ UNCHANGED <<live, stock, settings, token, ready, authed, passwordLogin, left,
                     period, loading, loadingMore, clicks, faults, searched>>
  BY TakeCookieTyped DEF SearchAnswered, Answered, server, account, bounds
<1>2. /\ Idle \in Handler /\ Idle.pc = "sent" /\ Idle.kind = "idle" /\ ~Idle.newest
      /\ Idle.offset = 0 /\ Idle.extras = 0 /\ Idle.got.extras = 0 /\ ~Idle.crossed
      /\ ~task[i].newest
  BY <1>1, IdleHandler DEF SpinnersTrue, Loads
<1>3. clicks' \in Nat /\ clicks <= clicks' /\ 0 <= settings
  BY <1>1 DEF TypeOK
<1>4. CASE task[i].pc = "ok"
  <2> DEFINE t == task[i]
             all == Matches(t.search, t.got.asOf)
  <2>1. /\ data' = [data EXCEPT !.list = t.got.list, !.total = t.got.total,
                                !.asOf = t.got.asOf, !.search = t.search]
        /\ task' = Crossed([task EXCEPT ![i] = Idle])
        /\ raced' = (raced \ {"list"})
             \cup {"search" : j \in {j \in Slots : task[j].kind \in Loads \cup {"edit"}}}
        /\ error' = error
    BY <1>4 DEF SearchAnswered
  <2>2. /\ t \in Handler /\ t.got \in Listing /\ data \in Shown
    BY DEF TypeOK, Handler
  <2>3. /\ data'.list = t.got.list /\ data'.total = t.got.total /\ data'.asOf = t.got.asOf
        /\ data'.search = t.search /\ data'.extras = data.extras
        /\ data'.of = data.of /\ data'.month = data.month /\ data' \in Shown
    BY <2>1, <2>2 DEF Shown, Listing, Handler
  <2>4. /\ task' \in [Slots -> Handler] /\ task'[i] = Idle
        /\ \A j \in Slots \ {i} : task'[j].newest = task[j].newest
        /\ \A j \in Slots : task'[j].kind = "more" => task'[j].crossed
        /\ OthersKept(i)
    BY <1>2, <2>1, CrossedSlots DEF TypeOK
  <2>5. raced \ {"list"} \subseteq raced' /\ raced' \subseteq raced \cup {"search"}
    BY <2>1
  <2>6. TypeOK'
    BY <1>1, <2>1, <2>3, <2>4, <2>5 DEF TypeOK
  <2>7. SpinnersTrue'
    BY <1>1, <1>2, <2>4 DEF SpinnersTrue, OthersKept, Kept
  <2>8. LoginOffered'
    BY <1>1, <1>2, <2>4 DEF LoginOffered, OthersKept, Kept
  <2>9. SettingsCounted'
    <3>1. data'.extras <= settings
      BY <2>3 DEF SettingsCounted
    <3> QED
      BY <1>1, <1>2, <1>3, <2>4, <3>1, SettingsStay
  <2>10. PeriodLoaded'
    <3>1. \A j \in Slots : /\ task'[j].newest <=> task[j].newest
                           /\ task[j].newest => task'[j].period = task[j].period
      BY <1>2, <2>4 DEF OthersKept, Kept
    <3> QED
      BY <1>1, <2>1, <2>3, <2>5, <3>1 DEF PeriodLoaded
  <2>11. SearchLoaded'
    <3>1. CASE "search" \in raced'
      BY <3>1 DEF SearchLoaded
    <3>2. CASE "search" \notin raced'
      <4>1. /\ "search" \notin raced
            /\ \A j \in Slots : task[j].kind \notin Loads \cup {"edit"}
        BY <2>1, <3>2
      <4>2. data'.search = searched /\ \A j \in Slots \ {i} : task[j].kind # "search"
        BY <1>1, <2>3, <4>1 DEF SearchLoaded
      <4> QED
        BY <1>1, <1>2, <2>4, <4>1, <4>2 DEF SearchLoaded, OthersKept, Kept, Loads
    <3> QED
      BY <3>1, <3>2
  <2>12. PagesFit'
    BY <1>2, <2>4 DEF PagesFit, OthersKept, Kept
  <2>13. ListContiguous'
    <3>1. /\ t.got.list = SubSeq(all, 0 + 1, Smaller(0 + Page, Len(all)))
          /\ t.got.total = Len(all)
      BY <1>1, <1>4 DEF PagesFit, Readers
    <3>2. all \in Seq(1..MaxStock) /\ Len(all) \in Nat
      BY <2>2, MatchesListed DEF Handler, Listing
    <3>3. all = Matches(data'.search, data'.asOf)
      BY <2>3
    <3> HIDE DEF all, t
    <3> DEFINE last == Smaller(0 + Page, Len(all))
    <3>4. last <= Len(all) /\ Len(SubSeq(all, 1, last)) = last
      BY <3>2, PageExtends
    <3>5. t.got.list = SubSeq(all, 1, last)
      BY <3>1
    <3> HIDE DEF last
    <3>6. /\ data'.list = SubSeq(all, 1, Len(data'.list)) /\ Len(data'.list) <= Len(all)
          /\ data'.total = Len(all)
      BY <2>3, <3>1, <3>4, <3>5
    <3> QED
      BY <3>3, <3>6 DEF ListContiguous
  <2>14. ExtrasHeld'
    BY <1>2, <2>3, <2>4, <2>5 DEF ExtrasHeld, OthersKept, Kept, Loads, Carriers
  <2> QED
    BY <2>6, <2>7, <2>8, <2>9, <2>10, <2>11, <2>12, <2>13, <2>14
<1>5. CASE task[i].pc # "ok"
  <2>1. /\ error' = TRUE /\ raced' = raced \cup {"search"}
        /\ task' = [task EXCEPT ![i] = Idle] /\ data' = data
    BY <1>5 DEF SearchAnswered, Ends
  <2>2. /\ task' \in [Slots -> Handler] /\ task'[i] = Idle
        /\ \A j \in Slots \ {i} : task'[j] = task[j]
        /\ OthersKept(i)
    BY <1>2, <2>1, OneSlot DEF TypeOK
  <2>3. TypeOK'
    BY <1>1, <2>1, <2>2 DEF TypeOK
  <2>4. SpinnersTrue'
    BY <1>1, <1>2, <2>2 DEF SpinnersTrue
  <2>5. LoginOffered'
    BY <1>1, <1>2, <2>2 DEF LoginOffered
  <2>6. SettingsCounted'
    <3>1. data'.extras <= settings
      BY <2>1 DEF SettingsCounted
    <3> QED
      BY <1>1, <1>2, <1>3, <2>2, <3>1, SettingsStay
  <2>7. PeriodLoaded' /\ SearchLoaded'
    BY <1>1, <1>2, <2>1, <2>2 DEF PeriodLoaded, SearchLoaded
  <2>8. PagesFit'
    BY <1>2, <2>1, <2>2 DEF PagesFit
  <2>9. ListContiguous'
    BY <2>1 DEF ListContiguous
  <2>10. ExtrasHeld'
    BY <1>2, <2>1, <2>2 DEF ExtrasHeld, Loads, Carriers
  <2> QED
    BY <2>3, <2>4, <2>5, <2>6, <2>7, <2>8, <2>9, <2>10
<1> QED
  BY <1>4, <1>5

LEMMA TapMoreKeepsInv ==
  ASSUME ClientInv, NEW i \in Slots, TapMore(i)
  PROVE  ClientInv'
<1> USE DEF ClientInv
<1> DEFINE s == Sent("more")
           r == [s EXCEPT !.search = data.search, !.offset = NextOffset]
<1>1. /\ s \in Handler /\ s.kind = "more" /\ s.pc = "sent" /\ ~s.newest
      /\ s.extras = 0 /\ s.got.extras = 0
  <2>1. "more" \in Kinds /\ cookie \in NoSession..MaxClicks /\ token \in {"none", "good", "bad"}
    BY DEF TypeOK, Kinds
  <2> QED
    BY <2>1, RequestHandler, IdleHandler DEF Sent
<1>2. /\ task[i] = Idle /\ task' = [task EXCEPT ![i] = r]
      /\ ~loadingMore /\ loadingMore' = TRUE
      /\ clicks < MaxClicks /\ clicks' = clicks + 1
      /\ UNCHANGED <<live, stock, settings, cookie, token, ready, authed, passwordLogin, left,
                     period, data, loading, error, faults, searched, raced>>
  BY DEF TapMore, Tap, Free, server, login, account, history
<1>3. data.search \in Searches /\ NextOffset \in Nat /\ NextOffset = Len(data.list)
  BY LenProperties DEF TypeOK, Shown, NextOffset
<1> HIDE DEF s
<1>4. /\ r \in Handler /\ r.kind = "more" /\ r.pc = "sent" /\ ~r.newest
      /\ r.search = data.search /\ r.offset = Len(data.list)
      /\ r.extras = 0 /\ r.got.extras = 0
  BY <1>1, <1>3 DEF Handler
<1> HIDE DEF r
<1>5. /\ task' \in [Slots -> Handler] /\ task'[i] = r
      /\ \A j \in Slots \ {i} : task'[j] = task[j]
      /\ OthersKept(i)
  BY <1>2, <1>4, OneSlot DEF TypeOK
<1>6. task[i].kind = "idle" /\ ~task[i].newest
  BY <1>2, IdleHandler
<1>7. clicks' \in 0..MaxClicks /\ clicks' \in Nat /\ clicks <= clicks'
  BY <1>2, ClientAssumption DEF TypeOK
<1>8. TypeOK'
  BY <1>2, <1>5, <1>7 DEF TypeOK
<1>9. SpinnersTrue'
  BY <1>2, <1>4, <1>5, <1>6 DEF SpinnersTrue
<1>10. LoginOffered'
  BY <1>2, <1>4, <1>5 DEF LoginOffered
<1>11. SettingsCounted'
  <2>1. data'.extras <= settings /\ 0 <= settings
    BY <1>2 DEF SettingsCounted, TypeOK
  <2> QED
    BY <1>2, <1>4, <1>5, <1>7, <2>1, SettingsStay
<1>12. PeriodLoaded'
  <2>1. \A j \in Slots : (task'[j].newest <=> task[j].newest)
                      /\ (task[j].newest => task'[j] = task[j])
    BY <1>4, <1>5, <1>6
  <2> QED
    BY <1>2, <2>1 DEF PeriodLoaded
<1>13. SearchLoaded'
  BY <1>2, <1>4, <1>5, <1>6 DEF SearchLoaded, Loads
<1>14. PagesFit'
  BY <1>2, <1>4, <1>5 DEF PagesFit
<1>15. ListContiguous'
  BY <1>2 DEF ListContiguous
<1>16. ExtrasHeld'
  BY <1>2, <1>4, <1>5 DEF ExtrasHeld, Loads, Carriers
<1> QED
  BY <1>8, <1>9, <1>10, <1>11, <1>12, <1>13, <1>14, <1>15, <1>16

(* A page that fits is appended, and any other is flagged.                 *)
LEMMA MoreAnsweredKeepsInv ==
  ASSUME ClientInv, NEW i \in Slots, MoreAnswered(i)
  PROVE  ClientInv'
<1> USE DEF ClientInv
<1> DEFINE t == task[i]
           total == IF t.got.total = 0 THEN data.total ELSE t.got.total
<1>1. /\ cookie' \in NoSession..MaxClicks
      /\ t.kind = "more" /\ loadingMore' = FALSE /\ task' = [task EXCEPT ![i] = Idle]
      /\ UNCHANGED <<live, stock, settings, token, ready, authed, passwordLogin, left,
                     period, loading, clicks, faults, searched>>
  BY TakeCookieTyped DEF MoreAnswered, Answered, Ends, server, account, bounds
<1>2. \/ /\ t.pc = "ok" /\ error' = error
         /\ data' = [data EXCEPT !.list = data.list \o t.got.list, !.total = total]
         /\ raced' = raced \cup {"list" : u \in {u \in {t} :
                                   u.crossed \/ u.got.asOf # data.asOf}}
      \/ error' = TRUE /\ data' = data /\ raced' = raced
  BY DEF MoreAnswered
<1>3. t \in Handler /\ t.got \in Listing /\ data \in Shown
  BY DEF TypeOK, Handler
<1>4. /\ data' \in Shown /\ data'.extras = data.extras /\ data'.of = data.of
      /\ data'.month = data.month /\ data'.search = data.search /\ data'.asOf = data.asOf
  <2> DEFINE list == data.list \o t.got.list
  <2>1. data.list \o t.got.list \in Seq(1..MaxStock) /\ total \in Nat
    BY <1>3, ConcatProperties DEF Shown, Listing
  <2>2. data' = [data EXCEPT !.list = list, !.total = total] \/ data' = data
    BY <1>2
  <2>3. list \in Seq(1..MaxStock) /\ total \in Nat
    BY <2>1
  <2> HIDE DEF list, total
  <2> QED
    BY <1>3, <2>2, <2>3 DEF Shown
<1>5. /\ task' \in [Slots -> Handler] /\ task'[i] = Idle
      /\ \A j \in Slots \ {i} : task'[j] = task[j]
      /\ OthersKept(i)
  BY <1>1, IdleHandler, OneSlot DEF TypeOK
<1>6. /\ Idle.pc = "sent" /\ Idle.kind = "idle" /\ ~Idle.newest /\ Idle.offset = 0
      /\ Idle.extras = 0 /\ Idle.got.extras = 0 /\ ~task[i].newest
  BY <1>1, IdleHandler DEF SpinnersTrue, Loads
<1>7. raced \subseteq raced' /\ raced' \subseteq raced \cup {"list"} /\ error' \in {TRUE, error}
  BY <1>2
<1>8. \A j \in Slots \ {i} : task[j].kind # "more"
  BY <1>1 DEF SpinnersTrue
<1>9. TypeOK'
  BY <1>1, <1>4, <1>5, <1>7 DEF TypeOK
<1>10. SpinnersTrue'
  BY <1>1, <1>5, <1>6, <1>8 DEF SpinnersTrue
<1>11. LoginOffered'
  BY <1>1, <1>5, <1>6 DEF LoginOffered
<1>12. SettingsCounted'
  <2>1. clicks' \in Nat /\ clicks <= clicks' /\ 0 <= settings /\ data'.extras <= settings
    BY <1>1, <1>4 DEF TypeOK, SettingsCounted
  <2> QED
    BY <1>1, <1>5, <1>6, <2>1, SettingsStay
<1>13. PeriodLoaded'
  <2>1. \A j \in Slots : (task'[j].newest <=> task[j].newest)
                      /\ (task[j].newest => task'[j] = task[j])
    BY <1>5, <1>6
  <2>2. error' = TRUE \/ error' = error
    BY <1>7
  <2> QED
    BY <1>1, <1>4, <1>7, <2>1, <2>2 DEF PeriodLoaded
<1>14. SearchLoaded'
  BY <1>1, <1>4, <1>5, <1>6, <1>7 DEF SearchLoaded, Loads
<1>15. PagesFit'
  BY <1>5, <1>6, <1>8 DEF PagesFit
<1>16. ListContiguous'
  <2> SUFFICES ASSUME "list" \notin raced'
               PROVE  /\ data'.list = SubSeq(Matches(data'.search, data'.asOf), 1, Len(data'.list))
                      /\ Len(data'.list) <= Len(Matches(data'.search, data'.asOf))
                      /\ data'.total = Len(Matches(data'.search, data'.asOf))
    BY DEF ListContiguous
  <2> DEFINE all == Matches(data.search, data.asOf)
             n == Len(data.list)
  <2>1. data.list = SubSeq(all, 1, n) /\ n <= Len(all) /\ data.total = Len(all)
    BY <1>7 DEF ListContiguous
  <2>2. all \in Seq(1..MaxStock) /\ Len(all) \in Nat /\ n \in Nat
    BY <1>3, MatchesListed, LenProperties DEF Shown
  <2>3. CASE data' = data
    BY <2>1, <2>3
  <2>4. CASE /\ t.pc = "ok"
             /\ data' = [data EXCEPT !.list = data.list \o t.got.list, !.total = total]
             /\ raced' = raced \cup {"list" : u \in {u \in {t} :
                                       u.crossed \/ u.got.asOf # data.asOf}}
    <3>1. ~t.crossed /\ t.got.asOf = data.asOf
      BY <2>4
    <3>2. t.search = data.search /\ t.offset = n
      BY <1>1, <3>1 DEF PagesFit
    <3>3. /\ t.got.list = SubSeq(all, n + 1, Smaller(n + Page, Len(all)))
          /\ t.got.total = Len(all)
      <4>1. LET a == Matches(t.search, t.got.asOf) IN
              /\ t.got.list = SubSeq(a, t.offset + 1, Smaller(t.offset + Page, Len(a)))
              /\ t.got.total = Len(a)
        BY <1>1, <2>4 DEF PagesFit, Readers
      <4> QED
        BY <3>1, <3>2, <4>1
    <3>4. data'.list = data.list \o t.got.list /\ data'.total = total
      BY <1>3, <2>4 DEF Shown
    <3>5. data'.total = Len(all)
      BY <2>1, <3>3, <3>4
    <3> DEFINE last == Smaller(n + Page, Len(all))
    <3> HIDE DEF all, n, t
    <3>6. /\ last <= Len(all) /\ SubSeq(all, 1, n) \o SubSeq(all, n + 1, last) = SubSeq(all, 1, last)
          /\ Len(SubSeq(all, 1, last)) = last
      BY <2>1, <2>2, PageExtends
    <3>7. t.got.list = SubSeq(all, n + 1, last)
      BY <3>3
    <3> HIDE DEF last
    <3>8. data'.list = SubSeq(all, 1, last) /\ Len(data'.list) = last
      BY <2>1, <3>4, <3>6, <3>7
    <3>9. all = Matches(data'.search, data'.asOf)
      BY <1>4 DEF all
    <3> QED
      BY <3>5, <3>6, <3>8, <3>9
  <2> QED
    BY <1>2, <2>3, <2>4
<1>17. ExtrasHeld'
  BY <1>4, <1>5, <1>6, <1>7 DEF ExtrasHeld, Loads, Carriers
<1> QED
  BY <1>9, <1>10, <1>11, <1>12, <1>13, <1>14, <1>15, <1>16, <1>17

----------------------------------------------------------------------------
(* The server and the network *)

(* Slot i holds the same handler with an answer: nothing but the answer is *)
(* new, and what it brings fits what was asked for.                        *)
LEMMA AnswerKeeps ==
  ASSUME ClientInv, NEW i \in Slots, NEW r \in Handler, task' = [task EXCEPT ![i] = r],
         r.kind = task[i].kind, r.newest = task[i].newest, r.period = task[i].period,
         r.search = task[i].search, r.offset = task[i].offset, r.extras = task[i].extras,
         r.crossed = task[i].crossed, r.pc # "sent",
         r.got.extras <= settings',
         r.pc = "ok" /\ r.kind \in Readers =>
           LET all == Matches(r.search, r.got.asOf) IN
             /\ r.got.list = SubSeq(all, r.offset + 1, Smaller(r.offset + Page, Len(all)))
             /\ r.got.total = Len(all),
         r.pc = "ok" /\ r.kind \in {"full", "extras"} =>
           r.got.extras >= data.extras \/ "extras" \in raced',
         r.pc = "broken" => faults' > 0, faults > 0 => faults' > 0,
         \/ settings' = settings
         \/ settings' = settings + 1 /\ task[i].kind = "edit" /\ task[i].pc = "sent",
         live' \subseteq NoSession..MaxClicks, left' \in BOOLEAN, faults' \in 0..MaxFaults,
         raced \subseteq raced', raced' \subseteq raced \cup {"extras"},
         UNCHANGED <<stock, cookie, token, ready, authed, passwordLogin,
                     period, data, loading, loadingMore, error, clicks, searched>>
  PROVE  ClientInv'
<1> USE DEF ClientInv
<1>1. /\ task' \in [Slots -> Handler] /\ task'[i] = r
      /\ \A j \in Slots \ {i} : task'[j] = task[j]
  BY DEF TypeOK
<1>2. settings \in Nat /\ clicks \in Nat /\ settings' \in Nat /\ settings <= settings'
  BY DEF TypeOK
<1>3. TypeOK'
  <2>1. raced' \subseteq {"extras", "list", "period", "search"}
    BY DEF TypeOK
  <2> QED
    BY <1>1, <1>2, <2>1 DEF TypeOK
<1>4. \A j \in Slots :
        /\ task'[j].kind = task[j].kind /\ task'[j].newest = task[j].newest
        /\ task'[j].period = task[j].period /\ task'[j].search = task[j].search
        /\ task'[j].offset = task[j].offset /\ task'[j].extras = task[j].extras
        /\ task'[j].crossed = task[j].crossed
  BY <1>1
<1>5. SpinnersTrue'
  BY <1>4 DEF SpinnersTrue
<1>6. LoginOffered'
  BY <1>1, <1>4 DEF LoginOffered
<1>7. SettingsCounted'
  <2> DEFINE editing == {j \in Slots : task[j].kind = "edit" /\ task[j].pc = "sent"}
             fewer == editing \ {i}
  <2>1. IsFiniteSet(editing) /\ settings + Cardinality(editing) <= clicks + 1
    BY DEF SettingsCounted
  <2>2. editing' \in SUBSET fewer
    BY <1>1
  <2>3. settings' = settings \/ (settings' = settings + 1 /\ i \in editing)
    OBVIOUS
  <2> HIDE DEF editing
  <2>4. /\ IsFiniteSet(fewer) /\ Cardinality(fewer) \in Nat /\ Cardinality(editing) \in Nat
        /\ Cardinality(fewer) = IF i \in editing THEN Cardinality(editing) - 1
                                                 ELSE Cardinality(editing)
    BY <2>1, FS_RemoveElement, FS_CardinalityType
  <2> HIDE DEF fewer
  <2>5. IsFiniteSet(editing') /\ Cardinality(editing') <= Cardinality(fewer)
        /\ Cardinality(editing') \in Nat
    BY <2>2, <2>4, FS_Subset, FS_CardinalityType
  <2>6. settings' + Cardinality(editing') <= clicks' + 1
    BY <1>2, <2>1, <2>3, <2>4, <2>5
  <2>7. \A j \in Slots : task'[j].extras <= settings' /\ task'[j].got.extras <= settings'
    <3>1. \A j \in Slots : task[j].extras \in Nat /\ task[j].got.extras \in Nat
      BY DEF TypeOK, Handler, Listing
    <3> QED
      BY <1>1, <1>2, <1>4, <3>1 DEF SettingsCounted
  <2>8. data'.extras <= settings'
    BY <1>2 DEF SettingsCounted, TypeOK, Shown
  <2> QED
    BY <2>5, <2>6, <2>7, <2>8 DEF SettingsCounted, editing
<1>8. PeriodLoaded'
  BY <1>4 DEF PeriodLoaded
<1>9. SearchLoaded'
  BY <1>4 DEF SearchLoaded
<1>10. PagesFit'
  <2> DEFINE Fits(t) ==
        LET all == Matches(t.search, t.got.asOf) IN
          /\ t.got.list = SubSeq(all, t.offset + 1, Smaller(t.offset + Page, Len(all)))
          /\ t.got.total = Len(all)
  <2>1. r.pc = "ok" /\ r.kind \in Readers => Fits(r)
    OBVIOUS
  <2>2. \A j \in Slots : task[j].pc = "ok" /\ task[j].kind \in Readers => Fits(task[j])
    BY DEF PagesFit
  <2> HIDE DEF Fits
  <2>3. \A j \in Slots : task'[j].pc = "ok" /\ task'[j].kind \in Readers => Fits(task'[j])
    BY <1>1, <2>1, <2>2
  <2>4. \A j \in Slots :
          /\ task'[j].kind # "more" => task'[j].offset = 0
          /\ task'[j].kind = "more" /\ ~task'[j].crossed =>
               task'[j].search = data'.search /\ task'[j].offset = Len(data'.list)
    BY <1>4 DEF PagesFit
  <2> QED
    BY <2>3, <2>4 DEF PagesFit, Fits
<1>11. ListContiguous'
  BY DEF ListContiguous
<1>12. ExtrasHeld'
  <2>1. CASE "extras" \in raced'
    BY <2>1 DEF ExtrasHeld
  <2>2. CASE "extras" \notin raced'
    <3>1. "extras" \notin raced
      BY <2>2
    <3>2. \A j, k \in Slots :
            {task'[j].kind, task'[k].kind} \subseteq Loads \cup Carriers
              /\ task'[j].kind \in Carriers => j = k
      BY <1>4, <3>1 DEF ExtrasHeld
    <3>3. \A j \in Slots :
            /\ task'[j].kind = "load" => task'[j].extras = data'.extras
            /\ task'[j].kind \in {"full", "extras"} /\ task'[j].pc = "ok" =>
                 task'[j].got.extras >= data'.extras
      BY <1>1, <1>4, <2>2, <3>1 DEF ExtrasHeld
    <3> QED
      BY <3>2, <3>3 DEF ExtrasHeld
  <2> QED
    BY <2>1, <2>2
<1> QED
  BY <1>3, <1>5, <1>6, <1>7, <1>8, <1>9, <1>10, <1>11, <1>12

(* A session found: nothing else changes.                                  *)
LEMMA CheckKeepsInv ==
  ASSUME ClientInv, NEW i \in Slots, Check(i)
  PROVE  ClientInv'
<1> USE DEF ClientInv
<1> DEFINE t == task[i]
           r == [t EXCEPT !.valid = TRUE]
<1>1. /\ task' = [task EXCEPT ![i] = r]
      /\ UNCHANGED <<live, stock, settings, cookie, token, ready, authed, passwordLogin, left,
                     period, data, loading, loadingMore, error, clicks, faults, searched, raced>>
  BY DEF Check, server, login, account, shown, bounds, history
<1>2. t \in Handler
  BY DEF TypeOK
<1> HIDE DEF t
<1>3. /\ r \in Handler /\ r.kind = t.kind /\ r.newest = t.newest /\ r.period = t.period
      /\ r.search = t.search /\ r.offset = t.offset /\ r.extras = t.extras
      /\ r.crossed = t.crossed /\ r.pc = t.pc /\ r.got = t.got
  BY <1>2 DEF Handler
<1> HIDE DEF r
<1>4. /\ task' \in [Slots -> Handler]
      /\ \A j \in Slots :
           /\ task'[j].kind = task[j].kind /\ task'[j].newest = task[j].newest
           /\ task'[j].period = task[j].period /\ task'[j].search = task[j].search
           /\ task'[j].offset = task[j].offset /\ task'[j].extras = task[j].extras
           /\ task'[j].crossed = task[j].crossed /\ task'[j].pc = task[j].pc
           /\ task'[j].got = task[j].got
  BY <1>1, <1>3 DEF TypeOK, t
<1>5. TypeOK'
  BY <1>1, <1>4 DEF TypeOK
<1>6. SpinnersTrue' /\ LoginOffered'
  BY <1>1, <1>4 DEF SpinnersTrue, LoginOffered
<1>7. SettingsCounted'
  <2>1. {j \in Slots : task'[j].kind = "edit" /\ task'[j].pc = "sent"}
          = {j \in Slots : task[j].kind = "edit" /\ task[j].pc = "sent"}
    BY <1>4
  <2> QED
    BY <1>1, <1>4, <2>1 DEF SettingsCounted
<1>8. PeriodLoaded' /\ SearchLoaded'
  BY <1>1, <1>4 DEF PeriodLoaded, SearchLoaded
<1>9. PagesFit'
  BY <1>1, <1>4 DEF PagesFit
<1>10. ListContiguous' /\ ExtrasHeld'
  BY <1>1, <1>4 DEF ListContiguous, ExtrasHeld
<1> QED
  BY <1>5, <1>6, <1>7, <1>8, <1>9, <1>10

(* The sessions and the logout that an admitted request leaves.            *)
LEMMA ExtendsTyped ==
  ASSUME ClientInv, NEW i \in Slots, Extends(i)
  PROVE  live' \subseteq NoSession..MaxClicks /\ left' \in BOOLEAN
<1>1. live \subseteq NoSession..MaxClicks /\ task[i].cookie \in NoSession..MaxClicks
  BY DEF ClientInv, TypeOK, Handler
<1>2. live' \subseteq NoSession..MaxClicks
  BY <1>1 DEF Extends
<1>3. left' \in BOOLEAN
  BY DEF Extends
<1> QED
  BY <1>2, <1>3

LEMMA ServeKeepsInv ==
  ASSUME ClientInv, NEW i \in Slots, Serve(i)
  PROVE  ClientInv'
<1> USE DEF ClientInv
<1> DEFINE t == task[i]
<1>1. /\ t.pc = "sent"
      /\ UNCHANGED <<stock, cookie, token, ready, authed, passwordLogin, period, data,
                     loading, loadingMore, error, clicks, faults, searched, raced>>
  BY DEF Serve, shown, bounds, history
<1>2. /\ t \in Handler /\ t.click \in NoSession..MaxClicks /\ NoSession \in NoSession..MaxClicks
      /\ t.got.extras <= settings
  BY ClientAssumption DEF TypeOK, Handler, SettingsCounted, NoSession
<1>3. /\ faults' \in 0..MaxFaults /\ (faults > 0 => faults' > 0)
      /\ live \subseteq NoSession..MaxClicks /\ left \in BOOLEAN
      /\ raced \subseteq raced' /\ raced' \subseteq raced \cup {"extras"}
  BY <1>1 DEF TypeOK
<1>4. CASE /\ t.kind = "login" /\ live' = live \cup {t.click}
           /\ task' = [task EXCEPT ![i].pc = "ok", ![i].cookie = t.click]
           /\ UNCHANGED <<settings, left>>
  <2> DEFINE r == [t EXCEPT !.pc = "ok", !.cookie = t.click]
  <2>1. task' = [task EXCEPT ![i] = r]
    BY <1>4
  <2>2. /\ live' \subseteq NoSession..MaxClicks /\ left' \in BOOLEAN
        /\ t.kind \notin Readers /\ t.kind \notin {"full", "extras"}
    BY <1>2, <1>3, <1>4 DEF Readers, Loads
  <2> HIDE DEF t
  <2>3. /\ r \in Handler /\ r.kind = t.kind /\ r.newest = t.newest /\ r.period = t.period
        /\ r.search = t.search /\ r.offset = t.offset /\ r.extras = t.extras
        /\ r.crossed = t.crossed /\ r.pc = "ok" /\ r.got = t.got
    BY <1>2 DEF Handler
  <2> HIDE DEF r
  <2> QED
    BY <1>1, <1>2, <1>3, <1>4, <2>1, <2>2, <2>3, AnswerKeeps DEF t
<1>5. CASE /\ task' = [task EXCEPT ![i].pc = "denied", ![i].cookie = NoSession]
           /\ UNCHANGED <<live, settings, left>>
  <2> DEFINE r == [t EXCEPT !.pc = "denied", !.cookie = NoSession]
  <2>1. task' = [task EXCEPT ![i] = r]
    BY <1>5
  <2>2. live' \subseteq NoSession..MaxClicks /\ left' \in BOOLEAN
    BY <1>3, <1>5
  <2> HIDE DEF t
  <2>3. /\ r \in Handler /\ r.kind = t.kind /\ r.newest = t.newest /\ r.period = t.period
        /\ r.search = t.search /\ r.offset = t.offset /\ r.extras = t.extras
        /\ r.crossed = t.crossed /\ r.pc = "denied" /\ r.got = t.got
    BY <1>2 DEF Handler
  <2> HIDE DEF r
  <2> QED
    BY <1>1, <1>2, <1>3, <1>5, <2>1, <2>2, <2>3, AnswerKeeps DEF t
<1>6. CASE /\ t.kind = "logout" /\ live' = live \ {t.cookie}
           /\ task' = [task EXCEPT ![i].pc = "ok"] /\ UNCHANGED <<settings, left>>
  <2> DEFINE r == [t EXCEPT !.pc = "ok"]
  <2>1. task' = [task EXCEPT ![i] = r]
    BY <1>6
  <2>2. /\ live' \subseteq NoSession..MaxClicks /\ left' \in BOOLEAN
        /\ t.kind \notin Readers /\ t.kind \notin {"full", "extras"}
    BY <1>3, <1>6 DEF Readers, Loads
  <2> HIDE DEF t
  <2>3. /\ r \in Handler /\ r.kind = t.kind /\ r.newest = t.newest /\ r.period = t.period
        /\ r.search = t.search /\ r.offset = t.offset /\ r.extras = t.extras
        /\ r.crossed = t.crossed /\ r.pc = "ok" /\ r.got = t.got
    BY <1>2 DEF Handler
  <2> HIDE DEF r
  <2> QED
    BY <1>1, <1>2, <1>3, <1>6, <2>1, <2>2, <2>3, AnswerKeeps DEF t
<1>7. CASE /\ Extends(i)
           /\ settings' = IF t.kind = "edit" THEN settings + 1 ELSE settings
           /\ task' = [task EXCEPT ![i].pc = "ok", ![i].valid = FALSE,
                                   ![i].got = IF t.kind \in Readers
                                                THEN AnswerOf(t.search, t.offset)
                                                ELSE NoAnswer]
  <2> DEFINE got == IF t.kind \in Readers THEN AnswerOf(t.search, t.offset) ELSE NoAnswer
             r == [t EXCEPT !.pc = "ok", !.valid = FALSE, !.got = got]
  <2>1. task' = [task EXCEPT ![i] = r]
    BY <1>7
  <2>2. /\ stock \in 0..MaxStock /\ settings \in Nat /\ t.search \in Searches /\ t.offset \in Nat
        /\ data.extras <= settings
    BY <1>2 DEF TypeOK, Handler, SettingsCounted
  <2>3. /\ got \in Listing /\ got.extras <= settings'
        /\ t.kind \in Readers =>
             /\ got.extras = settings /\ got.asOf = stock
             /\ got.list = SubSeq(Matches(t.search, stock), t.offset + 1,
                                  Smaller(t.offset + Page, Len(Matches(t.search, stock))))
             /\ got.total = Len(Matches(t.search, stock))
    <3>1. CASE t.kind \in Readers
      <4>1. got = AnswerOf(t.search, t.offset) /\ t.kind # "edit"
        BY <3>1 DEF Readers, Loads
      <4>2. settings' = settings
        BY <1>7, <4>1
      <4> HIDE DEF t, got
      <4>3. /\ AnswerOf(t.search, t.offset) \in Listing
            /\ AnswerOf(t.search, t.offset).extras = settings
            /\ AnswerOf(t.search, t.offset).asOf = stock
            /\ AnswerOf(t.search, t.offset).list =
                 SubSeq(Matches(t.search, stock), t.offset + 1,
                        Smaller(t.offset + Page, Len(Matches(t.search, stock))))
            /\ AnswerOf(t.search, t.offset).total = Len(Matches(t.search, stock))
        BY <2>2, AnswerPages
      <4> QED
        BY <2>2, <4>1, <4>2, <4>3
    <3>2. CASE t.kind \notin Readers
      <4>1. got = NoAnswer
        BY <3>2
      <4>2. settings' \in Nat
        BY <1>7, <2>2
      <4> HIDE DEF got
      <4> QED
        BY <3>2, <4>1, <4>2, IdleHandler
    <3> QED
      BY <3>1, <3>2
  <2>4. /\ settings' = settings \/ (settings' = settings + 1 /\ t.kind = "edit" /\ t.pc = "sent")
        /\ live' \subseteq NoSession..MaxClicks /\ left' \in BOOLEAN
    BY <1>1, <1>7, ExtendsTyped
  <2> HIDE DEF t, got
  <2>5. /\ r \in Handler /\ r.kind = t.kind /\ r.newest = t.newest /\ r.period = t.period
        /\ r.search = t.search /\ r.offset = t.offset /\ r.extras = t.extras
        /\ r.crossed = t.crossed /\ r.pc = "ok" /\ r.got = got
    BY <1>2, <2>3 DEF Handler
  <2> HIDE DEF r
  <2>6. r.kind \in {"full", "extras"} => r.got.extras >= data.extras
    BY <2>2, <2>3, <2>5 DEF Readers, Loads
  <2>7. r.kind \in Readers =>
          LET all == Matches(r.search, r.got.asOf) IN
            /\ r.got.list = SubSeq(all, r.offset + 1, Smaller(r.offset + Page, Len(all)))
            /\ r.got.total = Len(all)
    BY <2>3, <2>5
  <2> QED
    BY <1>1, <1>3, <2>1, <2>3, <2>4, <2>5, <2>6, <2>7, AnswerKeeps DEF t
<1> QED
  BY <1>4, <1>5, <1>6, <1>7 DEF Serve

LEMMA BreakKeepsInv ==
  ASSUME ClientInv, NEW i \in Slots, Break(i)
  PROVE  ClientInv'
<1> USE DEF ClientInv
<1> DEFINE t == task[i]
<1>1. /\ faults < MaxFaults /\ faults' = faults + 1
      /\ UNCHANGED <<stock, settings, cookie, token, ready, authed, passwordLogin, period, data,
                     loading, loadingMore, error, clicks, searched>>
  BY DEF Break, shown
<1>2. /\ t \in Handler /\ t.got \in Listing /\ settings \in Nat
      /\ t.cookie \in NoSession..MaxClicks /\ NoSession \in NoSession..MaxClicks
      /\ live \subseteq NoSession..MaxClicks /\ left \in BOOLEAN
  BY ClientAssumption DEF TypeOK, Handler, NoSession
<1>3. faults' \in 0..MaxFaults /\ faults' > 0
  BY <1>1, ClientAssumption DEF TypeOK
<1>4. ASSUME NEW c \in {NoSession, t.cookie}, Extends(i), raced' = raced,
             task' = [task EXCEPT ![i].pc = "broken", ![i].valid = FALSE, ![i].cookie = c,
                                  ![i].got = NoAnswer]
      PROVE  ClientInv'
  <2> DEFINE r == [t EXCEPT !.pc = "broken", !.valid = FALSE, !.cookie = c, !.got = NoAnswer]
  <2>1. task' = [task EXCEPT ![i] = r]
    BY <1>4
  <2>4. live' \subseteq NoSession..MaxClicks /\ left' \in BOOLEAN
    BY <1>4, ExtendsTyped
  <2> HIDE DEF t
  <2>2. /\ r \in Handler /\ r.kind = t.kind /\ r.newest = t.newest /\ r.period = t.period
        /\ r.search = t.search /\ r.offset = t.offset /\ r.extras = t.extras
        /\ r.crossed = t.crossed /\ r.pc = "broken" /\ r.got.extras = 0
    BY <1>2, IdleHandler DEF Handler
  <2> HIDE DEF r
  <2>3. r.got.extras <= settings'
    BY <1>1, <1>2, <2>2
  <2> QED
    BY <1>1, <1>3, <1>4, <2>1, <2>2, <2>3, <2>4, AnswerKeeps DEF t
<1>5. CASE /\ t.kind = "full" /\ t.pc = "ok"
           /\ task' = [task EXCEPT ![i].got.extras = 0]
           /\ raced' = raced \cup {"extras"}
           /\ UNCHANGED <<live, left>>
  <2> DEFINE got == [t.got EXCEPT !.extras = 0]
             r == [t EXCEPT !.got = got]
  <2>1. task' = [task EXCEPT ![i] = r]
    BY <1>5
  <2>2. LET all == Matches(t.search, t.got.asOf) IN
          /\ t.got.list = SubSeq(all, t.offset + 1, Smaller(t.offset + Page, Len(all)))
          /\ t.got.total = Len(all)
    BY <1>5 DEF PagesFit, Readers, Loads
  <2>3. /\ got \in Listing /\ got.extras = 0 /\ got.list = t.got.list
        /\ got.total = t.got.total /\ got.asOf = t.got.asOf
    BY <1>2 DEF Listing
  <2> HIDE DEF t, got
  <2>4. /\ r \in Handler /\ r.kind = t.kind /\ r.newest = t.newest /\ r.period = t.period
        /\ r.search = t.search /\ r.offset = t.offset /\ r.extras = t.extras
        /\ r.crossed = t.crossed /\ r.pc = "ok" /\ r.got = got
    BY <1>2, <1>5, <2>3 DEF Handler
  <2> HIDE DEF r
  <2>5. r.got.extras <= settings'
    BY <1>1, <1>2, <2>3, <2>4
  <2>6. LET all == Matches(r.search, r.got.asOf) IN
          /\ r.got.list = SubSeq(all, r.offset + 1, Smaller(r.offset + Page, Len(all)))
          /\ r.got.total = Len(all)
    BY <2>2, <2>3, <2>4
  <2>7. raced \subseteq raced' /\ raced' \subseteq raced \cup {"extras"} /\ "extras" \in raced'
    BY <1>5
  <2>8. live' \subseteq NoSession..MaxClicks /\ left' \in BOOLEAN
    BY <1>2, <1>5
  <2> QED
    BY <1>1, <1>3, <2>1, <2>4, <2>5, <2>6, <2>7, <2>8, AnswerKeeps DEF t
<1> QED
  <2>1. CASE t.kind = "full" /\ t.pc = "ok" /\ task' = [task EXCEPT ![i].got.extras = 0]
             /\ raced' = raced \cup {"extras"} /\ UNCHANGED <<live, left>>
    BY <1>5, <2>1
  <2>2. CASE /\ Extends(i) /\ raced' = raced
             /\ \E c \in {NoSession} \cup {d \in {t.cookie} : t.pc = "ok" \/ Admitted(i)} :
                  task' = [task EXCEPT ![i].pc = "broken", ![i].valid = FALSE, ![i].cookie = c,
                                       ![i].got = NoAnswer]
    BY <1>4, <2>2
  <2> QED
    BY <2>1, <2>2 DEF Break

(* Arrivals, sessions that expire and steps that change nothing leave the  *)
(* page alone.                                                             *)
LEMMA OutsideKeepsInv ==
  ASSUME ClientInv,
         UNCHANGED <<settings, cookie, token, ready, authed, passwordLogin, left, period, data,
                     loading, loadingMore, error, task, clicks, faults, searched, raced>>,
         stock' \in 0..MaxStock, live' \subseteq NoSession..MaxClicks
  PROVE  ClientInv'
<1> USE DEF ClientInv
<1>1. TypeOK'
  BY DEF TypeOK
<1>2. SpinnersTrue' /\ LoginOffered'
  BY DEF SpinnersTrue, LoginOffered
<1>3. SettingsCounted'
  BY DEF SettingsCounted
<1>4. PeriodLoaded' /\ SearchLoaded'
  BY DEF PeriodLoaded, SearchLoaded
<1>5. PagesFit' /\ ListContiguous'
  BY DEF PagesFit, ListContiguous
<1>6. ExtrasHeld'
  BY DEF ExtrasHeld
<1> QED
  BY <1>1, <1>2, <1>3, <1>4, <1>5, <1>6

----------------------------------------------------------------------------
(* The page from its opening to any later moment *)

(* A page that has just been opened: one request, nothing shown.           *)
LEMMA PageInit == Init => ClientInv
<1> SUFFICES ASSUME Init
             PROVE  ClientInv
  OBVIOUS
<1>1. /\ cookie \in {NoSession, 0} /\ token \in {"none", "good", "bad"}
      /\ cookie \in NoSession..MaxClicks /\ 0 \in 0..MaxClicks
  BY ClientAssumption DEF Init, NoSession
<1> DEFINE r == Sent("me")
<1>2. /\ r \in Handler /\ r.kind = "me" /\ r.pc = "sent" /\ ~r.newest /\ r.offset = 0
      /\ r.extras = 0 /\ r.got.extras = 0 /\ ~r.crossed
  <2>1. "me" \in Kinds
    BY DEF Kinds
  <2> QED
    BY <1>1, <2>1, RequestHandler, IdleHandler DEF Sent
<1> HIDE DEF r
<1>3. task = [j \in Slots |-> IF j = 1 THEN r ELSE Idle]
  BY DEF Init, r
<1>4. /\ task \in [Slots -> Handler]
      /\ \A j \in Slots : /\ task[j].kind \in {"me", "idle"} /\ task[j].pc = "sent"
                          /\ ~task[j].newest /\ task[j].offset = 0
                          /\ task[j].extras = 0 /\ task[j].got.extras = 0
  <2>1. \A j \in Slots : task[j] \in {r, Idle} /\ task[j] \in Handler
    BY <1>2, <1>3, IdleHandler
  <2>2. task \in [Slots -> Handler]
    BY <1>2, <1>3, IdleHandler
  <2> QED
    BY <1>2, <2>1, <2>2, IdleHandler
<1>5. /\ data \in Shown /\ data.list = <<>> /\ data.total = 0 /\ data.asOf = 0
      /\ data.search = Everything /\ data.extras = 0
  <2>1. <<>> \in Seq(1..MaxStock)
    BY EmptySeq
  <2> QED
    BY <2>1, ClientAssumption DEF Init, Shown, NotAsked
<1>6. TypeOK
  <2>1. stock \in 0..MaxStock /\ live \subseteq NoSession..MaxClicks /\ settings \in Nat
    BY <1>1, ClientAssumption DEF Init
  <2>2. clicks \in 0..MaxClicks /\ faults \in 0..MaxFaults
    BY ClientAssumption DEF Init
  <2>3. {ready, authed, passwordLogin, left} \subseteq BOOLEAN
        /\ {loading, loadingMore, error} \subseteq BOOLEAN
    BY DEF Init
  <2>4. period \in Period /\ searched \in Searches
        /\ raced \subseteq {"extras", "list", "period", "search"}
    BY IdleHandler, ClientAssumption DEF Init
  <2> QED
    BY <1>1, <1>4, <1>5, <2>1, <2>2, <2>3, <2>4 DEF TypeOK
<1>7. SpinnersTrue /\ LoginOffered
  BY <1>4 DEF Init, SpinnersTrue, LoginOffered
<1>8. SettingsCounted
  <2> DEFINE editing == {j \in Slots : task[j].kind = "edit" /\ task[j].pc = "sent"}
  <2>1. editing = {}
    BY <1>4
  <2>2. IsFiniteSet(editing) /\ Cardinality(editing) = 0
    BY <2>1, FS_EmptySet
  <2>3. settings = 1 /\ clicks = 0
    BY DEF Init
  <2>4. /\ data.extras <= settings
        /\ \A j \in Slots : task[j].extras <= settings /\ task[j].got.extras <= settings
    BY <1>4, <1>5, <2>3
  <2> HIDE DEF editing
  <2>5. settings + Cardinality(editing) <= clicks + 1
    BY <2>2, <2>3
  <2> QED
    BY <2>2, <2>4, <2>5 DEF SettingsCounted, editing
<1>9. PeriodLoaded
  BY <1>4 DEF Init, PeriodLoaded
<1>10. SearchLoaded
  BY <1>4, <1>5 DEF Init, SearchLoaded, Loads
<1>11. PagesFit
  BY <1>4 DEF PagesFit
<1>12. ListContiguous
  <2>1. /\ Len(Matches(Everything, 0)) = Cardinality(Hits[Everything] \cap (1..0))
        /\ Len(Matches(Everything, 0)) = 0
    <3>1. Everything \in Searches /\ 0 \in 0..MaxStock /\ Hits[Everything] \cap (1..0) = {}
      BY ClientAssumption
    <3> QED
      BY <3>1, MatchesListed, FS_EmptySet
  <2>2. Len(data.list) = 0 /\ SubSeq(Matches(Everything, 0), 1, 0) = <<>>
    BY <1>5, SubSeqEmpty
  <2> QED
    BY <1>5, <2>1, <2>2 DEF ListContiguous
<1>13. ExtrasHeld
  BY <1>4 DEF ExtrasHeld, Loads, Carriers
<1> QED
  BY <1>6, <1>7, <1>8, <1>9, <1>10, <1>11, <1>12, <1>13 DEF ClientInv

(* One case for each thing that can happen.                                *)
LEMMA PageNext == ClientInv /\ [Next]_vars => ClientInv'
<1> SUFFICES ASSUME ClientInv, [Next]_vars
             PROVE  ClientInv'
  OBVIOUS
<1>1. ASSUME NEW i \in Slots, Click(i)
      PROVE  ClientInv'
  BY <1>1, TapLoginKeepsInv, TapLogoutKeepsInv, TapRefreshKeepsInv, ChooseMonthKeepsInv,
     ChoosePresetKeepsInv, TapLabelKeepsInv, OpenSettingsKeepsInv, TapEditKeepsInv,
     TapSearchKeepsInv, TapMoreKeepsInv DEF Click
<1>2. ASSUME NEW i \in Slots, Step(i)
      PROVE  ClientInv'
  BY <1>2, CheckKeepsInv, ServeKeepsInv, MeAnsweredKeepsInv, DigestAnsweredKeepsInv, LoginAnsweredKeepsInv,
     LogoutAnsweredKeepsInv, LoadSupersededKeepsInv, LoadSucceedsKeepsInv, LoadFailsKeepsInv,
     CountersAnsweredKeepsInv, ExtrasAnsweredKeepsInv, EditAnsweredKeepsInv,
     SearchAnsweredKeepsInv, MoreAnsweredKeepsInv DEF Step
<1>3. ASSUME NEW i \in Slots, Break(i)
      PROVE  ClientInv'
  BY <1>3, BreakKeepsInv
<1>4. stock \in 0..MaxStock /\ live \subseteq NoSession..MaxClicks
  BY DEF ClientInv, TypeOK
<1>5. CASE Arrives
  <2>1. /\ stock' \in 0..MaxStock /\ live' \subseteq NoSession..MaxClicks
        /\ UNCHANGED <<settings, cookie, token, ready, authed, passwordLogin, left, period, data,
                       loading, loadingMore, error, task, clicks, faults, searched, raced>>
    BY <1>4, <1>5, ClientAssumption DEF Arrives, login, account, shown, bounds, history
  <2> QED
    BY <2>1, OutsideKeepsInv
<1>6. CASE \E s \in live : Expires(s)
  <2>1. /\ stock' \in 0..MaxStock /\ live' \subseteq NoSession..MaxClicks
        /\ UNCHANGED <<settings, cookie, token, ready, authed, passwordLogin, left, period, data,
                       loading, loadingMore, error, task, clicks, faults, searched, raced>>
    BY <1>4, <1>6 DEF Expires, login, account, shown, bounds, history
  <2> QED
    BY <2>1, OutsideKeepsInv
<1>7. CASE UNCHANGED vars
  <2>1. /\ stock' \in 0..MaxStock /\ live' \subseteq NoSession..MaxClicks
        /\ UNCHANGED <<settings, cookie, token, ready, authed, passwordLogin, left, period, data,
                       loading, loadingMore, error, task, clicks, faults, searched, raced>>
    BY <1>4, <1>7 DEF vars, server, login, account, shown, bounds, history
  <2> QED
    BY <2>1, OutsideKeepsInv
<1> QED
  BY <1>1, <1>2, <1>3, <1>5, <1>6, <1>7 DEF Next

----------------------------------------------------------------------------
(* A logout sticks *)

LEMMA LoadCredentials ==
  ASSUME NEW k, NEW c, NEW t, NEW p, NEW d
  PROVE  LET r == Load(k, c, t, p, d) IN
           r.newest /\ r.pc = "sent" /\ r.token = t
BY DEF Load, Request, Idle

(* Whatever leaves the newest load and the token alone, and neither signs  *)
(* in nor out.                                                             *)
LEMMA RefusedStays ==
  ASSUME LogoutSticks, UNCHANGED <<token, left>>, authed' => authed,
         faults > 0 => faults' > 0,
         \A j \in Slots : task[j].newest =>
           /\ task'[j].newest /\ task'[j].pc = task[j].pc
           /\ task'[j].token = task[j].token
  PROVE  LogoutSticks'
BY DEF LogoutSticks

(* A load started with the token of the moment.                            *)
LEMMA RefusedLoads ==
  ASSUME LogoutSticks, UNCHANGED <<token, left>>, NEW i \in Slots,
         task'[i].newest, task'[i].pc = "sent", task'[i].token = token
  PROVE  LogoutSticks'
BY DEF LogoutSticks

LEMMA StartRefused ==
  ASSUME ClientInv, LogoutSticks, UNCHANGED <<token, left>>, NEW i \in Slots,
         NEW k, NEW c, NEW p, NEW d, StartLoad(i, Load(k, c, token, p, d))
  PROVE  LogoutSticks'
<1> DEFINE l == Load(k, c, token, p, d)
<1>1. task'[i] = l
  BY DEF StartLoad
<1>2. l.newest /\ l.pc = "sent" /\ l.token = token
  BY LoadCredentials
<1> HIDE DEF l
<1> QED
  BY <1>1, <1>2, RefusedLoads

(* A handler other than the newest load goes on or ends.                   *)
LEMMA TurnRefused ==
  ASSUME ClientInv, LogoutSticks, UNCHANGED <<token, left>>, authed' => authed,
         faults > 0 => faults' > 0,
         NEW i \in Slots, ~task[i].newest, NEW r, task' = [task EXCEPT ![i] = r]
  PROVE  LogoutSticks'
<1>1. \A j \in Slots : j # i => task'[j] = task[j]
  BY DEF ClientInv, TypeOK
<1> QED
  BY <1>1, RefusedStays

LEMMA SignInRefused ==
  ASSUME ClientInv, LogoutSticks, UNCHANGED <<token, left, faults>>, NEW i \in Slots,
         ~task[i].newest, NEW c, SignedIn(i, c)
  PROVE  LogoutSticks'
<1>1. CASE authed
  BY <1>1, TurnRefused DEF SignedIn, Ends
<1>2. CASE ~authed
  BY <1>2, StartRefused DEF SignedIn
<1> QED
  BY <1>1, <1>2

LEMMA ClickRefused ==
  ASSUME ClientInv, LogoutSticks, NEW i \in Slots, Click(i)
  PROVE  LogoutSticks'
<1>1. /\ task[i] = Idle /\ ~task[i].newest
      /\ UNCHANGED <<token, left, authed, faults>>
  BY IdleHandler DEF Click, TapLogin, TapLogout, TapRefresh, ChooseMonth, ChoosePreset,
     ChoosePeriod, TapLabel, OpenSettings, TapEdit, TapSearch, TapMore, Tap, Free, login, account
<1>2. CASE \/ TapLogin(i) \/ TapLogout(i) \/ TapLabel(i) \/ OpenSettings(i) \/ TapEdit(i)
           \/ (\E q \in Searches : TapSearch(i, q)) \/ TapMore(i)
  <2>1. PICK r : task' = [task EXCEPT ![i] = r]
    BY <1>2 DEF TapLogin, TapLogout, TapLabel, OpenSettings, TapEdit, TapSearch, TapMore
  <2> QED
    BY <1>1, <2>1, TurnRefused
<1>3. CASE TapRefresh(i)
  BY <1>1, <1>3, StartRefused DEF TapRefresh
<1>4. CASE ChooseMonth(i) \/ ChoosePreset(i)
  <2>1. PICK p : StartLoad(i, Load("load", cookie, token, p, data))
    BY <1>4 DEF ChooseMonth, ChoosePreset, ChoosePeriod
  <2> QED
    BY <1>1, <2>1, StartRefused
<1> QED
  BY <1>2, <1>3, <1>4 DEF Click

(* The server refuses a load that carries no token, unless it has found    *)
(* its session, which brings the user back; short of a lost answer, a      *)
(* refusal is all the newest load can come back with.                      *)
LEMMA StepRefused ==
  ASSUME ClientInv, LogoutSticks, NEW i \in Slots, Step(i)
  PROVE  LogoutSticks'
<1>1. /\ task \in [Slots -> Handler]
      /\ task[i].newest => task[i].kind \in Loads
      /\ \A j \in Slots : task[i].newest /\ task[j].newest => i = j
      /\ task[i].pc = "broken" => faults > 0
  BY DEF ClientInv, TypeOK, SpinnersTrue, LoginOffered
<1>2. CASE Serve(i)
  <2>1. /\ UNCHANGED <<token, authed, faults>> /\ (left' => left)
        /\ \A j \in Slots : j # i => task'[j] = task[j]
    <3>1. UNCHANGED <<token, authed, faults>>
      BY <1>2 DEF Serve, bounds
    <3>2. left' => left
      BY <1>2 DEF Serve, Extends
    <3>3. \A j \in Slots : j # i => task'[j] = task[j]
      BY <1>1, <1>2 DEF Serve
    <3> QED
      BY <3>1, <3>2, <3>3
  <2>2. CASE task[i].newest /\ task[i].token = "none"
    <3>1. task[i].kind \notin {"login", "logout"}
      BY <1>1, <2>2 DEF Loads
    <3>2. CASE Admitted(i) /\ Extends(i)
      BY <2>2, <3>2 DEF Admitted, Extends, LogoutSticks
    <3>3. CASE task' = [task EXCEPT ![i].pc = "denied", ![i].cookie = NoSession]
      <4>1. task'[i].newest /\ task'[i].pc = "denied" /\ task'[i].token = "none"
        BY <1>1, <2>2, <3>3 DEF Handler
      <4> QED
        BY <2>1, <4>1 DEF LogoutSticks
    <3> QED
      BY <1>2, <3>1, <3>2, <3>3 DEF Serve
  <2>3. CASE ~(task[i].newest /\ task[i].token = "none")
    BY <2>1, <2>3 DEF LogoutSticks
  <2> QED
    BY <2>2, <2>3
<1>12. CASE Check(i)
  <2>1. /\ UNCHANGED <<token, left, authed, faults>>
        /\ task' = [task EXCEPT ![i].valid = TRUE]
    BY <1>12 DEF Check, login, account, bounds
  <2>2. \A j \in Slots : /\ task'[j].newest = task[j].newest /\ task'[j].pc = task[j].pc
                        /\ task'[j].token = task[j].token
    BY <1>1, <2>1 DEF Handler
  <2> QED
    BY <2>1, <2>2, RefusedStays
<1>3. CASE MeAnswered(i)
  <2>1. ~task[i].newest /\ UNCHANGED <<token, left, faults>>
    BY <1>1, <1>3 DEF MeAnswered, Answered, bounds, Loads
  <2>2. CASE SignedIn(i, cookie)
    BY <2>1, <2>2, SignInRefused
  <2>3. CASE authed' = authed /\ \E r : task' = [task EXCEPT ![i] = r]
    BY <2>1, <2>3, TurnRefused
  <2> QED
    BY <1>3, <2>2, <2>3 DEF MeAnswered, Ends
<1>4. CASE DigestAnswered(i)
  <2>1. ~task[i].newest /\ UNCHANGED <<token, left, faults>>
    BY <1>1, <1>4 DEF DigestAnswered, Answered, bounds, Loads
  <2>2. CASE SignedIn(i, cookie)
    BY <2>1, <2>2, SignInRefused
  <2>3. CASE authed' = authed /\ \E r : task' = [task EXCEPT ![i] = r]
    BY <2>1, <2>3, TurnRefused
  <2> QED
    BY <1>4, <2>2, <2>3 DEF DigestAnswered, Ends
<1>5. CASE LoginAnswered(i)
  <2>1. ~task[i].newest /\ UNCHANGED <<token, faults>>
    BY <1>1, <1>5 DEF LoginAnswered, Answered, bounds, Loads
  <2>2. CASE task[i].pc = "ok"
    BY <1>5, <2>2 DEF LoginAnswered, LogoutSticks
  <2>3. CASE task[i].pc # "ok"
    BY <1>5, <2>1, <2>3, TurnRefused DEF LoginAnswered, Ends
  <2> QED
    BY <2>2, <2>3
<1>6. CASE LogoutAnswered(i)
  BY <1>6 DEF LogoutAnswered, LogoutSticks
<1>7. CASE LoadSuperseded(i) \/ CountersAnswered(i) \/ ExtrasAnswered(i) \/ MoreAnswered(i)
  <2>1. /\ ~task[i].newest /\ UNCHANGED <<token, left, authed, faults>>
        /\ task' = [task EXCEPT ![i] = Idle]
    BY <1>1, <1>7 DEF LoadSuperseded, CountersAnswered, ExtrasAnswered, MoreAnswered, Answered,
                      Ends, Loads, account, bounds
  <2> QED
    BY <2>1, TurnRefused
<1>8. CASE SearchAnswered(i)
  <2>1. ~task[i].newest /\ UNCHANGED <<token, left, authed, faults>>
    BY <1>1, <1>8 DEF SearchAnswered, Answered, Loads, account, bounds
  <2>2. CASE task' = [task EXCEPT ![i] = Idle]
    BY <2>1, <2>2, TurnRefused
  <2>3. CASE task' = Crossed([task EXCEPT ![i] = Idle])
    <3>1. \A j \in Slots : j # i =>
            task'[j] = [task[j] EXCEPT !.crossed = task[j].kind = "more"]
      BY <1>1, <2>3 DEF Crossed
    <3>2. \A j \in Slots : j # i =>
            /\ task'[j].newest = task[j].newest /\ task'[j].pc = task[j].pc
            /\ task'[j].token = task[j].token
      BY <1>1, <3>1 DEF Handler
    <3> QED
      BY <2>1, <3>2, RefusedStays
  <2> QED
    BY <1>8, <2>2, <2>3 DEF SearchAnswered, Ends
<1>9. CASE EditAnswered(i)
  <2>1. ~task[i].newest /\ UNCHANGED <<token, left, authed, faults>>
    BY <1>1, <1>9 DEF EditAnswered, Answered, Loads, account, bounds
  <2>2. CASE task[i].pc = "ok"
    <3>1. PICK p, d : StartLoad(i, Load("full", cookie', token, p, d))
      BY <1>9, <2>2 DEF EditAnswered
    <3> QED
      BY <2>1, <3>1, StartRefused
  <2>3. CASE task[i].pc # "ok"
    BY <1>9, <2>1, <2>3, TurnRefused DEF EditAnswered, Ends
  <2> QED
    BY <2>2, <2>3
<1>10. CASE LoadSucceeds(i)
  <2>1. /\ task[i].newest /\ task[i].pc = "ok" /\ UNCHANGED <<token, left, faults>>
    BY <1>10 DEF LoadSucceeds, bounds
  <2>2. CASE authed
    BY <1>1, <2>1, <2>2 DEF LogoutSticks
  <2>3. CASE ~authed
    <3> DEFINE next == Load("load", cookie', token, period, data')
    <3>1. next.newest /\ next.pc = "sent" /\ next.token = token
      BY LoadCredentials
    <3>2. next \in Handler
      <4>1. /\ "load" \in Loads /\ cookie' \in NoSession..MaxClicks
            /\ token \in {"none", "good", "bad"} /\ period \in Period
            /\ data'.search \in Searches /\ data'.extras \in Nat
        BY <1>10, <2>1, BroughtData, TakeCookieTyped DEF LoadSucceeds, ClientInv, TypeOK, Shown, Loads, Answered
      <4> QED
        BY <4>1, LoadHandler
    <3>3. task' = Crossed([task EXCEPT ![i] = next])
      BY <1>10, <2>3 DEF LoadSucceeds
    <3> HIDE DEF next
    <3>4. task'[i] = [next EXCEPT !.crossed = next.kind = "more"]
      BY <1>1, <3>3 DEF Crossed
    <3>5. task'[i].newest /\ task'[i].pc = "sent" /\ task'[i].token = token
      BY <3>1, <3>2, <3>4 DEF Handler
    <3> QED
      BY <2>1, <3>5, RefusedLoads
  <2> QED
    BY <2>2, <2>3
<1>11. CASE LoadFails(i)
  <2>1. /\ task[i].newest /\ UNCHANGED <<token, left, faults>>
        /\ task[i].pc \in {"denied", "broken"}
        /\ authed' => task[i].pc # "denied"
    BY <1>1, <1>11 DEF LoadFails, Answered, bounds, Handler
  <2> QED
    BY <1>1, <2>1 DEF LogoutSticks
<1> QED
  BY <1>2, <1>3, <1>4, <1>5, <1>6, <1>7, <1>8, <1>9, <1>10, <1>11, <1>12 DEF Step

LEMMA RefusedInit == Init => LogoutSticks
BY DEF Init, LogoutSticks

LEMMA RefusedNext == ClientInv /\ LogoutSticks /\ [Next]_vars => LogoutSticks'
<1> SUFFICES ASSUME ClientInv, LogoutSticks, [Next]_vars
             PROVE  LogoutSticks'
  OBVIOUS
<1>1. ASSUME NEW i \in Slots, Click(i) \/ Step(i)
      PROVE  LogoutSticks'
  BY <1>1, ClickRefused, StepRefused
<1>2. ASSUME NEW i \in Slots, Break(i)
      PROVE  LogoutSticks'
  <2>1. faults' > 0 /\ UNCHANGED token
    <3>1. faults \in 0..MaxFaults
      BY DEF ClientInv, TypeOK
    <3>2. faults' = faults + 1 /\ UNCHANGED token
      BY <1>2 DEF Break
    <3> QED
      BY <3>1, <3>2
  <2>2. left' => left
    BY <1>2 DEF Break, Extends
  <2> QED
    BY <2>1, <2>2 DEF LogoutSticks
<1>3. CASE Arrives \/ (\E s \in live : Expires(s)) \/ UNCHANGED vars
  <2>1. UNCHANGED <<token, left, authed, faults, task>>
    BY <1>3 DEF Arrives, Expires, vars, login, account, bounds
  <2> QED
    BY <2>1 DEF LogoutSticks
<1> QED
  BY <1>1, <1>2, <1>3 DEF Next

----------------------------------------------------------------------------
(* The theorems about the client *)

(* However the taps, answers, losses and arrivals interleave: the spinners *)
(* are true, a login page is offered where one is needed, and every        *)
(* handler under way knows what it will overwrite.                         *)
THEOREM ClientInductive == Spec => []ClientInv
<1> QED
  BY PageInit, PageNext, PTL DEF Spec

(* A page at rest without an error shows the chosen period and the search  *)
(* tapped last.                                                            *)
THEOREM RestShowsChosen == Spec => []ShownIsChosen
<1>1. ClientInv => ShownIsChosen
  <2> SUFFICES ASSUME ClientInv, AtRest, ready, authed, ~error
               PROVE  /\ "period" \in raced \/ (data.of = Asked(period)
                                                 /\ data.month = ChosenMonth(period))
                      /\ "search" \in raced \/ data.search = searched
    BY DEF ShownIsChosen
  <2>1. \A i \in Slots : ~task[i].newest /\ task[i].kind = "idle"
    BY IdleHandler DEF AtRest
  <2>2. PeriodLoaded /\ SearchLoaded
    BY DEF ClientInv
  <2>3. "period" \in raced \/ (data.of = Asked(period) /\ data.month = ChosenMonth(period))
    BY <2>1, <2>2 DEF PeriodLoaded
  <2>4. "search" \in raced \/ data.search = searched
    BY <2>1, <2>2 DEF SearchLoaded
  <2> QED
    BY <2>3, <2>4
<1> QED
  BY <1>1, ClientInductive, PTL

(* After a logout the server knows of, with no session let in since and no *)
(* request lost, a page that a late answer has signed in again waits for   *)
(* the newest load, which will be refused.                                 *)
THEOREM LogoutIsFinal == Spec => []LogoutSticks
<1> QED
  BY RefusedInit, RefusedNext, ClientInductive, PTL DEF Spec

(* The list on screen is a prefix of the matches, the newest first.        *)
THEOREM PagesJoin == Spec => []ListContiguous
<1>1. ClientInv => ListContiguous
  BY DEF ClientInv
<1> QED
  BY <1>1, ClientInductive, PTL

(* The only writers of rules, goals and cards are a load that succeeds and *)
(* the settings page; neither brings older ones, unless flagged.           *)
LEMMA ExtrasStay ==
  ClientInv /\ [Next]_vars => (data'.extras >= data.extras \/ "extras" \in raced')
<1> SUFFICES ASSUME ClientInv, [Next]_vars
             PROVE  data'.extras >= data.extras \/ "extras" \in raced'
  OBVIOUS
<1>1. data \in Shown /\ data.extras \in Nat
  BY DEF ClientInv, TypeOK, Shown
<1>2. \A i \in Slots : /\ task[i].extras \in Nat /\ task[i].got.extras \in Nat
  BY DEF ClientInv, TypeOK, Handler, Listing
<1>3. data' = data => data'.extras >= data.extras
  BY <1>1
<1>4. ASSUME NEW i \in Slots, Click(i)
      PROVE  data' = data
  BY <1>4 DEF Click, TapLogin, TapLogout, TapRefresh, ChooseMonth, ChoosePreset, ChoosePeriod,
              TapLabel, OpenSettings, TapEdit, TapSearch, TapMore, shown
<1>5. ASSUME NEW i \in Slots, LoadSucceeds(i)
      PROVE  data'.extras >= data.extras \/ "extras" \in raced'
  <2>1. /\ task[i].kind \in Loads /\ task[i].pc = "ok"
        /\ data'.extras = IF task[i].kind = "full" THEN task[i].got.extras ELSE task[i].extras
    BY <1>5 DEF LoadSucceeds, Answered, Brought
  <2>2. "extras" \in raced => "extras" \in raced'
    <3>1. CASE authed
      BY <1>5, <3>1 DEF LoadSucceeds
    <3>2. CASE ~authed
      BY <1>5, <3>2 DEF LoadSucceeds
    <3> QED
      BY <3>1, <3>2
  <2>3. CASE "extras" \notin raced
    <3>1. /\ task[i].kind = "load" => task[i].extras = data.extras
          /\ task[i].kind = "full" => task[i].got.extras >= data.extras
      BY <2>1, <2>3 DEF ClientInv, ExtrasHeld
    <3> QED
      BY <1>1, <1>2, <2>1, <3>1 DEF Loads
  <2> QED
    BY <2>2, <2>3
<1>6. ASSUME NEW i \in Slots, ExtrasAnswered(i)
      PROVE  data'.extras >= data.extras \/ "extras" \in raced'
  <2>1. /\ task[i].kind = "extras"
        /\ raced' = raced \cup {"extras" : pc \in {task[i].pc} \ {"ok"}}
    BY <1>6 DEF ExtrasAnswered, Answered
  <2>2. CASE task[i].pc = "ok" /\ "extras" \notin raced
    <3>1. task[i].got.extras >= data.extras
      BY <2>1, <2>2 DEF ClientInv, ExtrasHeld
    <3>2. data' = [data EXCEPT !.extras = task[i].got.extras]
      BY <1>6, <2>2 DEF ExtrasAnswered
    <3>3. data'.extras = task[i].got.extras
      BY <1>1, <3>2 DEF Shown
    <3> QED
      BY <3>1, <3>3
  <2> QED
    BY <2>1, <2>2
<1>7. ASSUME NEW i \in Slots, CountersAnswered(i) \/ SearchAnswered(i) \/ MoreAnswered(i)
      PROVE  data'.extras = data.extras
  <2>1. CASE data' = data
    BY <2>1
  <2>2. CASE data' # data /\ CountersAnswered(i)
    BY <1>1, <2>2 DEF CountersAnswered, Shown
  <2>3. CASE data' # data /\ SearchAnswered(i)
    BY <1>1, <2>3 DEF SearchAnswered, Shown
  <2>4. CASE data' # data /\ MoreAnswered(i)
    BY <1>1, <2>4 DEF MoreAnswered, Shown
  <2> QED
    BY <1>7, <2>1, <2>2, <2>3, <2>4
<1>8. ASSUME NEW i \in Slots,
             \/ Check(i) \/ Serve(i) \/ MeAnswered(i) \/ DigestAnswered(i) \/ LoginAnswered(i)
             \/ LogoutAnswered(i) \/ LoadSuperseded(i) \/ LoadFails(i) \/ EditAnswered(i)
             \/ Break(i)
      PROVE  data' = data
  BY <1>8 DEF Check, Serve, MeAnswered, DigestAnswered, LoginAnswered, LogoutAnswered, LoadSuperseded,
              LoadFails, EditAnswered, Break, shown
<1>9. CASE \/ Arrives
           \/ \E s \in live : Expires(s)
           \/ UNCHANGED vars
  <2>1. data' = data
    BY <1>9 DEF Arrives, Expires, vars, shown
  <2> QED
    BY <1>3, <2>1
<1> QED
  BY <1>1, <1>3, <1>4, <1>5, <1>6, <1>7, <1>8, <1>9 DEF Next, Step

(* Rules, goals and cards on screen only get newer, unless a fetch of them *)
(* failed or overlapped another load.                                      *)
THEOREM ExtrasNotLost == Spec => ExtrasKept
<1>1. ClientInv /\ [Next]_vars => [data'.extras >= data.extras \/ "extras" \in raced']_vars
  BY ExtrasStay
<1> QED
  BY <1>1, ClientInductive, PTL DEF Spec, ExtrasKept

----------------------------------------------------------------------------
(* The scratch card *)

(* Init: a frame is requested as soon as there is a balance to cover.      *)
LEMMA ScratchInit == CardInit => ScratchInv
<1> SUFFICES ASSUME CardInit PROVE ScratchInv
  OBVIOUS
<1> USE DelaysAssumption DEF CardInit, Fresh
<1>1. CardTypeOK
  <2>1. 0 \in 0..(Longest + 1)
    BY DEF Longest
  <2>2. Fresh \in [hint: BOOLEAN, resealing: BOOLEAN]
    OBVIOUS
  <2> QED
    BY <2>1, <2>2, Zenon DEF CardTypeOK
<1>2. TimersReachable /\ SealPending /\ RestsCovered /\ TimersOrdered
  BY DEF TimersReachable, SealPending, RestsCovered, TimersOrdered
<1>3. VeilEnds /\ QuietWithoutBalance
  BY DEF VeilEnds, QuietWithoutBalance
<1> QED
  BY <1>1, <1>2, <1>3 DEF ScratchInv

(* What is left on a pending timer is a number, and its two kinds.         *)
LEMMA TimerParts ==
  ASSUME CardTypeOK, NEW t \in timers
  PROVE  /\ t.kind \in {"hide", "reseal"} /\ t.left \in Nat /\ t.left <= HideDelay
         /\ t = [kind |-> t.kind, left |-> t.left, named |-> t.named]
  BY DelaysAssumption DEF CardTypeOK, Timer

(* clearTimers reaches them all.                                           *)
LEMMA ClearsAll ==
  ASSUME TimersReachable
  PROVE  ClearTimers = {}
  BY DEF ClearTimers, TimersReachable

(* No card is left half way: with no timer pending the states are fresh.   *)
LEMMA NoTimerFresh ==
  ASSUME CardTypeOK, VeilEnds, mounted, timers = {}
  PROVE  ui = Fresh
<1>1. ui.hint = TRUE /\ ui.resealing = FALSE
  BY DEF CardTypeOK, VeilEnds
<1> QED
  BY <1>1 DEF CardTypeOK, Fresh

(* A touch keeps the inner timer and starts the outer one anew.            *)
LEMMA ScheduleTimers ==
  ASSUME CardTypeOK, TimersReachable
  PROVE  /\ ScheduleReseal = {t \in timers : t.kind = "reseal"}
              \cup {[kind |-> "hide", left |-> HideDelay, named |-> TRUE]}
         /\ ScheduleReseal \in SUBSET Timer
<1> DEFINE kept == {t \in timers : t.kind = "reseal"}
<1>1. Cleared("hide") = kept
  BY TimerParts DEF Cleared, TimersReachable
<1>2. \A t \in kept : [t EXCEPT !.named = @ /\ t.kind # "hide"] = t
  <2> SUFFICES ASSUME NEW t \in kept
               PROVE  [t EXCEPT !.named = @ /\ t.kind # "hide"] = t
    OBVIOUS
  <2>1. t \in Timer /\ t.named = TRUE /\ t.kind = "reseal"
    BY DEF CardTypeOK, TimersReachable, Timer
  <2> QED
    BY <2>1 DEF Timer
<1>3. {[t EXCEPT !.named = @ /\ t.kind # "hide"] : t \in kept} = kept
  BY <1>2
<1>4. ScheduleReseal = kept \cup {[kind |-> "hide", left |-> HideDelay, named |-> TRUE]}
  BY <1>1, <1>3 DEF ScheduleReseal, Started
<1>5. [kind |-> "hide", left |-> HideDelay, named |-> TRUE] \in Timer
  BY DelaysAssumption DEF Timer
<1> QED
  BY <1>4, <1>5 DEF CardTypeOK

(* Scratching: down and move.                                              *)
LEMMA TouchKeepsInv ==
  ASSUME ScratchInv, mounted, known, ScratchAt, UNCHANGED <<mounted, known, rendered, frame>>,
         drawing' = TRUE
  PROVE  ScratchInv'
<1> DEFINE hide == [kind |-> "hide", left |-> HideDelay, named |-> TRUE]
<1> USE DelaysAssumption DEF ScratchInv
<1>1. timers' = {t \in timers : t.kind = "reseal"} \cup {hide} /\ timers' \in SUBSET Timer
  BY ScheduleTimers DEF ScratchAt
<1>2. age' = 0 /\ cover' = "erased" /\ ui' = [ui EXCEPT !.hint = @ /\ ~rendered.hint]
  BY DEF ScratchAt
<1>3. ui' \in [hint: BOOLEAN, resealing: BOOLEAN] /\ ui'.resealing = ui.resealing
  BY <1>2 DEF CardTypeOK
<1>4. CardTypeOK'
  BY <1>1, <1>2, <1>3 DEF CardTypeOK, Longest
<1>5. TimersReachable'
  <2>1. \A t \in timers' : t.named /\ mounted' /\ known'
    BY <1>1 DEF TimersReachable
  <2>2. hide.kind = "hide"
    OBVIOUS
  <2>3. \A t \in timers' : t = hide \/ (t \in timers /\ t.kind = "reseal")
    BY <1>1
  <2> HIDE DEF hide
  <2>4. \A t, u \in timers' : t.kind = u.kind => t = u
    BY <2>2, <2>3 DEF TimersReachable
  <2> QED
    BY <2>1, <2>4 DEF TimersReachable
<1>6. SealPending'
  <2>1. hide \in timers' /\ age' + hide.left = Due(hide.kind)
    BY <1>1, <1>2 DEF Due
  <2> QED
    BY <2>1 DEF SealPending, Due
<1>7. RestsCovered'
  BY <1>1 DEF RestsCovered
<1>8. TimersOrdered'
  BY <1>1, TimerParts DEF TimersOrdered
<1>9. VeilEnds' /\ QuietWithoutBalance'
  BY <1>1, <1>3 DEF VeilEnds, QuietWithoutBalance
<1> QED
  BY <1>4, <1>5, <1>6, <1>7, <1>8, <1>9

(* The outer timer fires alone: the inner one would have fired before it.  *)
LEMMA HideKeepsInv ==
  ASSUME ScratchInv, HideFires
  PROVE  ScratchInv'
<1> DEFINE reseal == [kind |-> "reseal", left |-> ResealDelay, named |-> TRUE]
<1> USE DelaysAssumption DEF ScratchInv
<1>1. PICK t \in timers :
        /\ t.kind = "hide" /\ t.left = 0
        /\ ui' = [ui EXCEPT !.resealing = TRUE]
        /\ timers' = Started("reseal", ResealDelay, timers \ {t})
        /\ UNCHANGED <<mounted, known, cover, rendered, drawing, frame, age>>
  BY DEF HideFires
<1>2. timers \ {t} = {}
  BY <1>1, TimerParts DEF TimersReachable, TimersOrdered
<1>3. timers' = {reseal} /\ reseal \in Timer
  BY <1>1, <1>2 DEF Started, Timer
<1>4. ui' \in [hint: BOOLEAN, resealing: BOOLEAN]
  BY <1>1 DEF CardTypeOK
<1>5. CardTypeOK'
  BY <1>1, <1>3, <1>4 DEF CardTypeOK
<1>6. TimersReachable' /\ TimersOrdered' /\ VeilEnds' /\ RestsCovered'
  <2>1. TimersReachable'
    <3>1. mounted' /\ known'
      BY <1>1 DEF TimersReachable
    <3>2. reseal.named
      OBVIOUS
    <3> HIDE DEF reseal
    <3> QED
      BY <1>3, <3>1, <3>2 DEF TimersReachable
  <2>2. TimersOrdered'
    BY <1>3 DEF TimersOrdered
  <2>3. VeilEnds'
    BY <1>3 DEF VeilEnds
  <2>4. RestsCovered'
    BY <1>3 DEF RestsCovered
  <2> QED
    BY <2>1, <2>2, <2>3, <2>4
<1>7. SealPending'
  <2> SUFFICES ASSUME mounted, known, cover = "erased", ~frame
               PROVE  age' + reseal.left = Due(reseal.kind)
    BY <1>1, <1>3 DEF SealPending, Due
  <2>1. age = HideDelay
    BY <1>1, <1>2 DEF SealPending, Due, CardTypeOK
  <2> QED
    BY <1>1, <2>1 DEF Due, Longest
<1>8. QuietWithoutBalance'
  BY <1>1 DEF QuietWithoutBalance, TimersReachable
<1> QED
  BY <1>5, <1>6, <1>7, <1>8

(* The clock moves every timer; a touch is at most two delays ago while    *)
(* one of them is still running.                                           *)
LEMMA TickKeepsInv ==
  ASSUME ScratchInv, Tick
  PROVE  ScratchInv'
<1> USE DelaysAssumption DEF ScratchInv
<1> DEFINE Ticked(t) == [t EXCEPT !.left = @ - 1]
<1>1. /\ timers' = {Ticked(t) : t \in timers}
      /\ UNCHANGED <<mounted, known, cover, ui, rendered, drawing, frame>>
      /\ age' = IF age > Longest THEN age ELSE age + 1
      /\ \A t \in timers : t.left > 0
  BY DEF Tick
<1>2. \A t \in timers : /\ Ticked(t) \in Timer /\ Ticked(t).kind = t.kind
                        /\ Ticked(t).named = t.named /\ Ticked(t).left = t.left - 1
  BY <1>1 DEF CardTypeOK, Timer
<1> HIDE DEF Ticked
<1>3. age' \in 0..(Longest + 1)
  BY <1>1 DEF CardTypeOK, Longest
<1>4. CardTypeOK'
  <2>1. timers' \in SUBSET Timer
    BY <1>1, <1>2
  <2> QED
    BY <1>1, <1>3, <2>1 DEF CardTypeOK
<1>5. TimersReachable'
  <2>1. \A t \in timers' : t.named /\ mounted' /\ known'
    BY <1>1, <1>2 DEF TimersReachable
  <2>2. \A t, u \in timers' : t.kind = u.kind => t = u
    BY <1>1, <1>2 DEF TimersReachable
  <2> QED
    BY <2>1, <2>2 DEF TimersReachable
<1>6. SealPending'
  <2> SUFFICES ASSUME mounted, known, cover = "erased", ~frame
               PROVE  \E t \in timers' : age' + t.left = Due(t.kind)
    BY <1>1 DEF SealPending, Due
  <2>1. PICK t \in timers : age + t.left = Due(t.kind)
    BY DEF SealPending
  <2>2. age < Longest
    BY <1>1, <2>1, TimerParts DEF Due, Longest, CardTypeOK
  <2>3. age' + Ticked(t).left = Due(Ticked(t).kind)
    BY <1>1, <1>2, <2>1, <2>2, TimerParts DEF CardTypeOK, Longest
  <2> QED
    BY <1>1, <2>3
<1>7. TimersOrdered'
  <2>1. \A t, u \in timers' : t.kind = "hide" /\ u.kind = "reseal" => u.left < t.left
    BY <1>1, <1>2, TimerParts DEF TimersOrdered
  <2>2. \A t \in timers' : t.kind = "reseal" => t.left <= ResealDelay
    BY <1>1, <1>2, TimerParts DEF TimersOrdered
  <2> QED
    BY <2>1, <2>2 DEF TimersOrdered
<1>8. timers' = {} <=> timers = {}
  BY <1>1
<1>9. RestsCovered' /\ VeilEnds' /\ QuietWithoutBalance'
  BY <1>1, <1>2, <1>8 DEF RestsCovered, VeilEnds, QuietWithoutBalance
<1> QED
  BY <1>4, <1>5, <1>6, <1>7, <1>9

(* The inner timer paints the cover and puts the hint back.                *)
LEMMA ResealKeepsInv ==
  ASSUME ScratchInv, ResealFires
  PROVE  ScratchInv'
<1> USE DelaysAssumption DEF ScratchInv
<1>1. PICK t \in timers :
        /\ t.kind = "reseal" /\ t.left = 0
        /\ cover' = IF mounted THEN "whole" ELSE cover
        /\ ui' = Fresh
        /\ timers' = timers \ {t}
        /\ UNCHANGED <<mounted, known, rendered, drawing, frame, age>>
  BY DEF ResealFires
<1>2. cover' = "whole" /\ mounted /\ known
  BY <1>1 DEF TimersReachable
<1>3. CardTypeOK'
  BY <1>1, <1>2 DEF CardTypeOK, Fresh
<1>4. TimersReachable' /\ TimersOrdered'
  BY <1>1, <1>2 DEF TimersReachable, TimersOrdered
<1>5. SealPending' /\ RestsCovered' /\ VeilEnds' /\ QuietWithoutBalance'
  BY <1>1, <1>2 DEF SealPending, RestsCovered, VeilEnds, QuietWithoutBalance, Fresh
<1> QED
  BY <1>3, <1>4, <1>5

(* The page comes and goes, balances arrive, frames and renders are served.*)
LEMMA PageKeepsInv ==
  ASSUME ScratchInv, Mount \/ Unmount \/ BalanceArrives \/ BalanceLearned
                       \/ FramePaints \/ Render \/ PointerUp
  PROVE  ScratchInv'
<1> USE DEF ScratchInv
<1>1. CASE Mount
  <2>1. timers = {}
    BY <1>1 DEF Mount, TimersReachable
  <2>2. CardTypeOK'
    BY <1>1, <2>1 DEF Mount, CardTypeOK, Fresh
  <2> QED
    BY <1>1, <2>1, <2>2 DEF Mount, Fresh, TimersReachable, SealPending, RestsCovered,
         TimersOrdered, VeilEnds, QuietWithoutBalance
<1>2. CASE Unmount
  <2>1. timers' = {}
    BY <1>2, ClearsAll DEF Unmount
  <2>2. CardTypeOK'
    BY <1>2, <2>1 DEF Unmount, CardTypeOK
  <2> QED
    BY <1>2, <2>1, <2>2 DEF Unmount, TimersReachable, SealPending, RestsCovered,
         TimersOrdered, VeilEnds, QuietWithoutBalance
<1>3. CASE BalanceArrives
  <2>1. timers' = {}
    BY <1>3, ClearsAll DEF BalanceArrives
  <2>2. CardTypeOK'
    BY <1>3, <2>1 DEF BalanceArrives, CardTypeOK, Fresh
  <2> QED
    BY <1>3, <2>1, <2>2 DEF BalanceArrives, Fresh, TimersReachable, SealPending,
         RestsCovered, TimersOrdered, VeilEnds, QuietWithoutBalance
<1>4. CASE BalanceLearned
  <2>1. timers = {}
    BY <1>4 DEF BalanceLearned, TimersReachable
  <2>2. CardTypeOK'
    BY <1>4 DEF BalanceLearned, CardTypeOK
  <2> QED
    BY <1>4, <2>1, <2>2 DEF BalanceLearned, TimersReachable, SealPending, RestsCovered,
         TimersOrdered, VeilEnds, QuietWithoutBalance
<1>5. CASE FramePaints
  <2>1. CardTypeOK'
    BY <1>5 DEF FramePaints, CardTypeOK
  <2>2. RestsCovered'
    BY <1>5, NoTimerFresh DEF FramePaints, RestsCovered, Fresh
  <2> QED
    BY <1>5, <2>1, <2>2 DEF FramePaints, TimersReachable, SealPending, TimersOrdered,
         VeilEnds, QuietWithoutBalance
<1>6. CASE Render
  BY <1>6 DEF Render, CardTypeOK, TimersReachable, SealPending, RestsCovered, TimersOrdered,
       VeilEnds, QuietWithoutBalance, Due
<1>7. CASE PointerUp
  BY <1>7 DEF PointerUp, CardTypeOK, TimersReachable, SealPending, RestsCovered,
       TimersOrdered, VeilEnds, QuietWithoutBalance, Due
<1> QED
  BY <1>1, <1>2, <1>3, <1>4, <1>5, <1>6, <1>7

LEMMA ScratchNext == ScratchInv /\ [CardNext]_cardVars => ScratchInv'
<1> SUFFICES ASSUME ScratchInv, [CardNext]_cardVars PROVE ScratchInv'
  OBVIOUS
<1>1. CASE Mount \/ Unmount \/ BalanceArrives \/ BalanceLearned \/ FramePaints \/ Render
             \/ PointerUp
  BY <1>1, PageKeepsInv
<1>2. CASE PointerDown
  <2>1. mounted /\ known /\ ScratchAt /\ drawing' = TRUE
        /\ UNCHANGED <<mounted, known, rendered, frame>>
    BY <1>2 DEF PointerDown
  <2> QED
    BY <2>1, TouchKeepsInv
<1>3. CASE PointerMove
  <2>1. ScratchAt /\ drawing' = TRUE /\ UNCHANGED <<mounted, known, rendered, frame>>
    BY <1>3 DEF PointerMove, ScratchInv, CardTypeOK
  <2>2. mounted /\ known
    BY <1>3 DEF PointerMove, ScratchInv, CardTypeOK, QuietWithoutBalance
  <2> QED
    BY <2>1, <2>2, TouchKeepsInv
<1>4. CASE HideFires
  BY <1>4, HideKeepsInv
<1>5. CASE ResealFires
  BY <1>5, ResealKeepsInv
<1>6. CASE Tick
  BY <1>6, TickKeepsInv
<1>7. CASE UNCHANGED cardVars
  BY <1>7 DEF cardVars, ScratchInv, CardTypeOK, TimersReachable, SealPending, RestsCovered,
       TimersOrdered, VeilEnds, QuietWithoutBalance, Due
<1> QED
  BY <1>1, <1>2, <1>3, <1>4, <1>5, <1>6, <1>7 DEF CardNext

(* Whatever the order of strokes, timers, frames and balances, an erased   *)
(* card has a frame or a timer on its way that paints it, clearTimers      *)
(* reaches every timer, and a card with none left is covered and usable.   *)
THEOREM ScratchCorrect == CardSpec => []ScratchInv
  BY ScratchInit, ScratchNext, PTL DEF CardSpec

(* Nothing shows for longer than both delays after the last touch.         *)
THEOREM PeekShort == CardSpec => []PeekIsShort
<1>1. ScratchInv => PeekIsShort
  <2> SUFFICES ASSUME ScratchInv, mounted, known, cover = "erased", ~frame
               PROVE  age <= Longest
    BY DEF PeekIsShort
  <2>1. PICK t \in timers : age + t.left = Due(t.kind)
    BY DEF ScratchInv, SealPending
  <2> QED
    BY <2>1, TimerParts, DelaysAssumption DEF ScratchInv, CardTypeOK, Due, Longest
<1> QED
  BY <1>1, ScratchCorrect, PTL

=============================================================================
