------------------------------ MODULE Carousel ------------------------------
(***************************************************************************)
(* The Carousel plugin of bootstrap.js, which the pages of Bookinfo load:  *)
(* items that slide in by turns, an indicator for each, two arrows, and an *)
(* interval that is stopped while the mouse is over it.                    *)
(*                                                                         *)
(* A slide ends with a transition; the "slid" event follows in a timeout   *)
(* of 0 ms, between the two the carousel can be asked to slide again.  An  *)
(* indicator that is clicked during a slide waits for that event.  (The    *)
(* carousel has the class "slide", wraps, and pauses under the mouse.)     *)
(***************************************************************************)
EXTENDS Naturals, Sequences, SequencesExt

CONSTANTS
    Size,       \* the items are 0..Size-1
    MaxAsks,    \* bound: how often the user clicks, or presses a key
    MaxMoves    \* bound: how often the mouse comes, and the interval is over

Items == 0..(Size - 1)

VARIABLES
    made,       \* the object of the plugin: "none", "auto", or "still" when
                \* its options have interval: false
    active,     \* the item with the class "active"
    indicator,  \* the indicator with that class
    sliding,    \* this.sliding
    coming,     \* the item that slides in
    slid,       \* is the "slid" event due?
    waiting,    \* the positions that wait for it
    interval,   \* this.interval
    timers,     \* how many intervals the browser runs
    over,       \* is the mouse over the carousel?
    resumed,    \* history: cycle() was called on purpose since it came
    asked,      \* history: positions asked for and not reached since
    asks, moves \* bounds

vars == <<made, active, indicator, sliding, coming, slid, waiting, interval,
          timers, over, resumed, asked, asks, moves>>

TypeOK ==
    /\ made \in {"none", "auto", "still"}
    /\ active \in Items /\ indicator \in Items /\ coming \in Items
    /\ sliding \in BOOLEAN /\ slid \in BOOLEAN
    /\ waiting \in Seq(Items)
    /\ interval \in BOOLEAN /\ timers \in Nat
    /\ over \in BOOLEAN /\ resumed \in BOOLEAN /\ asked \subseteq Items
    /\ asks \in 0..MaxAsks /\ moves \in 0..MaxMoves

(* The page is loaded: with data-ride the object is made and cycles.       *)
Init ==
    /\ made \in {"none", "auto"}
    /\ active = 0 /\ indicator = 0 /\ coming = 0
    /\ sliding = FALSE /\ slid = FALSE
    /\ waiting = <<>>
    /\ interval = (made = "auto") /\ timers = (IF interval THEN 1 ELSE 0)
    /\ over = FALSE /\ resumed = FALSE
    /\ asked = {}
    /\ asks = 0 /\ moves = 0

-----------------------------------------------------------------------------
(* The methods *)

Directions == {"next", "prev"}

(* getItemForDirection                                                     *)
Neighbour(type) ==
    (active + (IF type = "prev" THEN Size - 1 ELSE 1)) % Size

(* What clearInterval leaves.                                              *)
Cleared == timers - (IF interval THEN 1 ELSE 0)

(* Bug: the interval that runs is not cleared.                             *)
CycleOn(m) ==
    /\ interval' = (interval \/ m = "auto")
    /\ timers' = timers + (IF m = "auto" THEN 1 ELSE 0)

(* cycle(), m being the kind of the object by then.  (It looks at the flag *)
(* "paused" too, which only pause() without an event sets, and every such  *)
(* call here is followed by one of cycle(), which takes it back.)          *)
Cycle(m) ==
    /\ interval' = (interval \/ m = "auto")
    /\ timers' = Cleared + (IF m = "auto" THEN 1 ELSE 0)

(* pause(): during a slide it starts the interval first, to no effect; the *)
(* event it triggers is for the items and does not reach them.             *)
Pause ==
    /\ interval' = FALSE
    /\ timers' = Cleared

Slides(item) ==
    /\ sliding' = TRUE
    /\ coming' = item
    /\ indicator' = item

(* Bug: the interval is started whether it ran or not.                     *)
SlideOn(item, m) == Slides(item) /\ Cycle(m)

(* slide(): an interval that runs is started anew, and else stays off.     *)
Slide(item, m) ==
    /\ Slides(item)
    /\ IF interval THEN Cycle(m)
                   ELSE UNCHANGED <<interval, timers>>

Stay == UNCHANGED <<sliding, coming, indicator>>

(* next() and prev() *)
Step(type, m) ==
    \/ ~sliding /\ Slide(Neighbour(type), m)
    \/ sliding /\ Stay /\ UNCHANGED <<interval, timers>>

(* Bug: a position that is asked for during a slide is forgotten.          *)
ToForgets(pos, w, m) ==
    /\ waiting' = w
    /\ IF sliding \/ active = pos
       THEN Stay /\ UNCHANGED <<resumed, interval, timers>>
       ELSE Slide(pos, m) /\ UNCHANGED resumed

(* to(pos), w being what waits already; the shown one's indicator starts   *)
(* the interval, even under the mouse.                                     *)
To(pos, w, m) ==
    \/ /\ sliding
       /\ waiting' = Append(w, pos)
       /\ Stay
       /\ UNCHANGED <<resumed, interval, timers>>
    \/ /\ ~sliding /\ active = pos
       /\ waiting' = w
       /\ resumed' = TRUE
       /\ Cycle(m)
       /\ Stay
    \/ /\ ~sliding /\ active # pos
       /\ waiting' = w
       /\ Slide(pos, m)
       /\ UNCHANGED resumed

-----------------------------------------------------------------------------
(* The user *)

Asks == asks < MaxAsks /\ asks' = asks + 1

(* An arrow makes the object if there is none; it does not yet cycle.      *)
ClickArrow(type) ==
    /\ Asks
    /\ made' = (IF made = "none" THEN "auto" ELSE made)
    /\ Step(type, made')
    /\ UNCHANGED <<active, slid, waiting, over, resumed, asked, moves>>

(* An indicator makes one that never cycles.                               *)
ClickIndicator(pos) ==
    /\ Asks
    /\ made' = (IF made = "none" THEN "still" ELSE made)
    /\ To(pos, waiting, made')
    /\ asked' = (IF sliding \/ active # pos THEN asked \cup {pos} ELSE asked)
    /\ UNCHANGED <<active, slid, over, moves>>

(* keydown()                                                               *)
Key(type) ==
    /\ Asks
    /\ made # "none"
    /\ Step(type, made)
    /\ UNCHANGED <<active, slid, made, waiting, over, resumed, asked, moves>>

Moves == moves < MaxMoves /\ moves' = moves + 1

(* The mouse: when it leaves, even a carousel that never cycled does.      *)
Enter ==
    /\ ~over
    /\ Moves
    /\ over' = TRUE
    /\ resumed' = FALSE
    /\ IF made = "none" THEN UNCHANGED <<interval, timers>>
                        ELSE Pause
    /\ Stay
    /\ UNCHANGED <<active, slid, made, waiting, asked, asks>>

Leave ==
    /\ over
    /\ over' = FALSE
    /\ IF made = "none" THEN UNCHANGED <<interval, timers>>
                        ELSE Cycle(made)
    /\ Stay
    /\ UNCHANGED <<active, slid, made, waiting, resumed, asked, asks, moves>>

-----------------------------------------------------------------------------
(* The browser *)

(* An interval is over: next().                                            *)
Interval ==
    /\ timers > 0
    /\ Moves
    /\ Step("next", made)
    /\ UNCHANGED <<active, slid, made, waiting, over, resumed, asked, asks>>

(* The end of the transition, or its emulation; 0 ms are over long before. *)
TransitionEnd ==
    /\ sliding
    /\ ~slid
    /\ active' = coming
    /\ sliding' = FALSE
    /\ slid' = TRUE
    /\ asked' = asked \ {coming}
    /\ UNCHANGED <<made, indicator, coming, waiting, interval, timers,
                   over, resumed, asks, moves>>

(* The event: to() for every position that waits.  The first one that is   *)
(* not shown slides in, and those after it wait again.                     *)
Slid ==
    /\ slid
    /\ slid' = FALSE
    /\ LET n == SelectInSeq(waiting, LAMBDA p : p # active)
       IN \/ /\ sliding \/ waiting = <<>>
             /\ UNCHANGED <<indicator, coming, sliding, waiting, interval,
                            timers, resumed>>
          \/ /\ ~sliding /\ waiting # <<>>
             /\ n # 1
             /\ resumed' = TRUE
             /\ Cycle(made)
             /\ waiting' = IF n = 0 THEN <<>> ELSE SubSeq(waiting, n + 1, Len(waiting))
             /\ IF n = 0 THEN UNCHANGED <<indicator, coming, sliding>>
                         ELSE Slides(waiting[n])
          \/ /\ ~sliding /\ n = 1
             /\ waiting' = Tail(waiting)
             /\ Slide(waiting[1], made)
             /\ UNCHANGED resumed
    /\ UNCHANGED <<made, active, over, asked, asks, moves>>

-----------------------------------------------------------------------------
User ==
    \/ \E type \in Directions : ClickArrow(type) \/ Key(type)
    \/ \E pos \in Items : ClickIndicator(pos)
    \/ Enter
    \/ Leave

Next == User \/ Interval \/ TransitionEnd \/ Slid

(* Transitions and timeouts come to their end.                             *)
Fairness == WF_vars(TransitionEnd) /\ WF_vars(Slid)

-----------------------------------------------------------------------------
(* Properties *)

(* One interval runs at most, and while the mouse is over the carousel     *)
(* none does, unless the indicator of the shown item was clicked since.    *)
(* What is shown, or slides in, is what the indicators say.                *)
Steady ==
    /\ timers <= 1
    /\ over => timers = 0 \/ resumed
    /\ indicator = (IF sliding THEN coming ELSE active)

(* Every position asked for is reached, whatever slides in before.         *)
Reached == \A pos \in Items : pos \in asked ~> pos \notin asked
=============================================================================
