------------------------------- MODULE Scratch -------------------------------
(***************************************************************************)
(* The scratch card over the balance of the home page                      *)
(* (web/src/components/BalanceScratch.jsx): strokes erase its cover, and   *)
(* two chained timers paint it again.  Strokes, timers, animation frames,  *)
(* renders, new balances and leaving the page may come in any order.       *)
(*                                                                         *)
(* Time is counted in ticks; a timer fires in the tick it is due.  The     *)
(* picture is one bit: the cover is whole, or something shows through.     *)
(***************************************************************************)
EXTENDS Integers

CONSTANTS
  HideDelay,      \* scheduleReseal's outer delay, 1800 ms
  ResealDelay     \* and the inner one, 320 ms

ASSUME DelaysAssumption ==
  /\ HideDelay \in Nat
  /\ ResealDelay \in Nat \ {0}
  /\ ResealDelay < HideDelay

VARIABLES
  mounted,    \* the home page is open
  known,      \* the prop: a balance is known
  cover,      \* the canvas: "whole" or "erased"
  ui,         \* the states hint and resealing, queued updates included
  rendered,   \* the same as of the last render: what event handlers read
  drawing,    \* drawingRef
  timers,     \* pending timeouts; named: its ref still holds its id
  frame,      \* an animation frame is requested
  age         \* history: ticks since the last erasing touch

cardVars == <<mounted, known, cover, ui, rendered, drawing, timers, frame, age>>

Longest == HideDelay + ResealDelay

(* When a timer is due, counted from the last touch.                       *)
Due(kind) == IF kind = "hide" THEN HideDelay ELSE Longest

Timer == [kind: {"hide", "reseal"}, left: 0..HideDelay, named: BOOLEAN]

Fresh == [hint |-> TRUE, resealing |-> FALSE]

CardTypeOK ==
  /\ mounted \in BOOLEAN
  /\ known \in BOOLEAN
  /\ cover \in {"whole", "erased"}
  /\ ui \in [hint: BOOLEAN, resealing: BOOLEAN]
  /\ rendered \in [hint: BOOLEAN, resealing: BOOLEAN]
  /\ drawing \in BOOLEAN
  /\ timers \in SUBSET Timer
  /\ frame \in BOOLEAN
  /\ age \in 0..(Longest + 1)

-----------------------------------------------------------------------------
(* Timers *)

(* clearTimeout through the ref of that kind: reaches the named ones only. *)
Cleared(kind) == {t \in timers : ~(t.kind = kind /\ t.named)}

ClearOuterOnly == {t \in timers : ~(t.named /\ t.kind = "hide")}

ClearTimers == {t \in timers : ~t.named}

(* Storing a new id in a ref: a timeout it held before runs on unnamed.    *)
Started(kind, delay, ts) ==
  {[t EXCEPT !.named = @ /\ t.kind # kind] : t \in ts}
    \cup {[kind |-> kind, left |-> delay, named |-> TRUE]}

ScheduleReseal == Started("hide", HideDelay, Cleared("hide"))

-----------------------------------------------------------------------------
(* Life of the component *)

(* A canvas that was just mounted is blank: nothing covers the balance yet.*)
CardInit ==
  /\ mounted = TRUE
  /\ known \in BOOLEAN
  /\ cover = "erased"
  /\ ui = Fresh
  /\ rendered = Fresh
  /\ drawing = FALSE
  /\ timers = {}
  /\ frame = known
  /\ age = 0

Mount ==
  /\ ~mounted
  /\ mounted' = TRUE
  /\ cover' = "erased"
  /\ ui' = Fresh
  /\ rendered' = Fresh
  /\ drawing' = FALSE
  /\ frame' = known
  /\ UNCHANGED <<known, timers, age>>

(* The cleanup of the effect; the refs and states go with the instance.    *)
Unmount ==
  /\ mounted
  /\ mounted' = FALSE
  /\ drawing' = FALSE
  /\ frame' = FALSE
  /\ timers' = ClearTimers
  /\ UNCHANGED <<known, cover, ui, rendered, age>>

BalanceArrivesUnpainted ==
  /\ mounted
  /\ known' = TRUE
  /\ cover' = IF known THEN cover ELSE "erased"
  /\ timers' = ClearTimers
  /\ ui' = Fresh
  /\ frame' = (frame \/ ~known)
  /\ UNCHANGED <<mounted, rendered, drawing, age>>

(* The first known balance or a new value: cleanup and effect run again.   *)
BalanceArrives ==
  /\ mounted
  /\ known' = TRUE
  /\ cover' = IF known THEN cover ELSE "erased"
  /\ timers' = ClearTimers
  /\ ui' = Fresh
  /\ frame' = TRUE
  /\ UNCHANGED <<mounted, rendered, drawing, age>>

(* A first balance that arrives while another page is open.                *)
BalanceLearned ==
  /\ ~mounted
  /\ ~known
  /\ known' = TRUE
  /\ UNCHANGED <<mounted, cover, ui, rendered, drawing, timers, frame, age>>

(* The frame's callback: paintCover.                                       *)
FramePaints ==
  /\ frame
  /\ frame' = FALSE
  /\ cover' = "whole"
  /\ UNCHANGED <<mounted, known, ui, rendered, drawing, timers, age>>

Render ==
  /\ mounted
  /\ rendered # ui
  /\ rendered' = ui
  /\ UNCHANGED <<mounted, known, cover, ui, drawing, timers, frame, age>>

-----------------------------------------------------------------------------
(* The pointer *)

(* scratchAt: erase, drop the hint the handler still sees, start the clock.*)
ScratchAt ==
  /\ cover' = "erased"
  /\ age' = 0
  /\ ui' = [ui EXCEPT !.hint = @ /\ ~rendered.hint]
  /\ timers' = ScheduleReseal

PointerDown ==
  /\ mounted
  /\ known
  /\ ~rendered.resealing
  /\ ~drawing
  /\ drawing' = TRUE
  /\ ScratchAt
  /\ UNCHANGED <<mounted, known, rendered, frame>>

(* A stroke may go on while the card reseals.                              *)
PointerMove ==
  /\ drawing
  /\ ScratchAt
  /\ UNCHANGED <<mounted, known, rendered, drawing, frame>>

(* Also cancel and leave.                                                  *)
PointerUp ==
  /\ drawing
  /\ drawing' = FALSE
  /\ UNCHANGED <<mounted, known, cover, ui, rendered, timers, frame, age>>

-----------------------------------------------------------------------------
(* The clock *)

HideFires ==
  \E t \in timers :
    /\ t.kind = "hide"
    /\ t.left = 0
    /\ ui' = [ui EXCEPT !.resealing = TRUE]
    /\ timers' = Started("reseal", ResealDelay, timers \ {t})
    /\ UNCHANGED <<mounted, known, cover, rendered, drawing, frame, age>>

ResealKeepsHint ==
  \E t \in timers :
    /\ t.kind = "reseal"
    /\ t.left = 0
    /\ cover' = IF mounted THEN "whole" ELSE cover
    /\ ui' = [ui EXCEPT !.resealing = FALSE]
    /\ timers' = timers \ {t}
    /\ UNCHANGED <<mounted, known, rendered, drawing, frame, age>>

ResealFires ==
  \E t \in timers :
    /\ t.kind = "reseal"
    /\ t.left = 0
    /\ cover' = IF mounted THEN "whole" ELSE cover
    /\ ui' = Fresh
    /\ timers' = timers \ {t}
    /\ UNCHANGED <<mounted, known, rendered, drawing, frame, age>>

(* The history variable stops counting when a peek has lasted too long.    *)
Tick ==
  /\ \A t \in timers : t.left > 0
  /\ timers' = {[t EXCEPT !.left = @ - 1] : t \in timers}
  /\ age' = IF age > Longest THEN age ELSE age + 1
  /\ UNCHANGED <<mounted, known, cover, ui, rendered, drawing, frame>>

-----------------------------------------------------------------------------

CardNext ==
  \/ Mount
  \/ Unmount
  \/ BalanceArrives
  \/ BalanceLearned
  \/ FramePaints
  \/ Render
  \/ PointerDown
  \/ PointerMove
  \/ PointerUp
  \/ HideFires
  \/ ResealFires
  \/ Tick

(* The browser serves timers, frames and renders; nobody has to scratch,   *)
(* lift the pointer, or stay on the page.                                  *)
Fairness ==
  /\ WF_cardVars(FramePaints)
  /\ WF_cardVars(Render)
  /\ WF_cardVars(HideFires)
  /\ WF_cardVars(ResealFires)
  /\ WF_cardVars(Tick)

CardSpec == CardInit /\ [][CardNext]_cardVars /\ Fairness

-----------------------------------------------------------------------------
(* Properties *)

(* Whenever something shows through, a frame or a timer that will paint the*)
(* cover is on its way: a new balance cancels the timers of the stroke     *)
(* before it, a stroke restarts the outer timer while the inner one runs.  *)
SealPending ==
  mounted /\ known /\ cover = "erased" /\ ~frame =>
    \E t \in timers : age + t.left = Due(t.kind)

(* clearTimers reaches every pending timeout: there is one of a kind, its  *)
(* ref names it, and none outlives the page (a stray one would cover the   *)
(* card in the middle of the next stroke).                                 *)
TimersReachable ==
  /\ \A t \in timers : t.named /\ mounted /\ known
  /\ \A t, u \in timers : t.kind = u.kind => t = u

(* With nothing left to run the card is covered, says so, and takes        *)
(* strokes: no order of balances, strokes and timers leaves it open, or    *)
(* stuck under the veil (covered by default, README.md:21).                *)
RestsCovered ==
  mounted /\ known /\ timers = {} /\ ~frame =>
    cover = "whole" /\ ui = Fresh

(* A peek is short: nothing shows for longer than both delays after the    *)
(* last touch ("Short peek: reseal soon after user stops scratching").      *)
PeekIsShort ==
  mounted /\ known /\ cover = "erased" /\ ~frame => age <= Longest

(* An inner timer that overlaps an outer one is the sooner one.            *)
TimersOrdered ==
  /\ \A t, u \in timers : t.kind = "hide" /\ u.kind = "reseal" => u.left < t.left
  /\ \A t \in timers : t.kind = "reseal" => t.left <= ResealDelay

(* Whoever hides the hint or veils the card has a timer that takes it back.*)
VeilEnds ==
  /\ mounted /\ ~ui.hint => timers # {}
  /\ mounted /\ ui.resealing => \E t \in timers : t.kind = "reseal"

(* Strokes and frames need a page with a balance.                          *)
QuietWithoutBalance ==
  /\ ~mounted => ~drawing /\ ~frame
  /\ ~known => ui = Fresh /\ ~frame /\ ~drawing

(* The invariant that holds the above together.                            *)
ScratchInv ==
  /\ CardTypeOK
  /\ TimersReachable
  /\ SealPending
  /\ RestsCovered
  /\ TimersOrdered
  /\ VeilEnds
  /\ QuietWithoutBalance

(* If the page stays open and nobody draws any more, the balance is covered*)
(* again and stays so, whatever balances arrive meanwhile.                 *)
Reseals ==
  <>[](mounted /\ known /\ ~drawing) => <>[](cover = "whole" /\ ui.hint)

=============================================================================
