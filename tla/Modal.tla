------------------------------- MODULE Modal -------------------------------
(***************************************************************************)
(* The login dialog of Bookinfo's pages (productpage.html, #login-modal):  *)
(* the Modal plugin of bootstrap.js, with its backdrop and the transitions *)
(* of transition.js.                                                       *)
(*                                                                         *)
(* What show() and hide() begin is finished by callbacks that wait for the *)
(* end of a CSS transition: of the backdrop (150 ms), of the dialog and of *)
(* the whole element (300 ms).  The browser reports that end or does not;  *)
(* emulateTransitionEnd reports it when the time is over.  Whoever reports *)
(* it, every callback that waits on that node then runs.  The button of    *)
(* the page, Escape, the dialog's own buttons and a click beside it may    *)
(* reverse things in between.  Time is in ticks of 150 ms.                 *)
(***************************************************************************)
EXTENDS Naturals, Sequences, FiniteSets

CONSTANT MaxOpens   \* bound: how often the dialog is opened

ASSUME ModalAssumption == MaxOpens \in Nat \ {0}

(* The DOM nodes with transitions.  Each show() makes a backdrop, and so   *)
(* may each hideModal(): there are never more hides than shows.            *)
Backdrops == 1..(2 * MaxOpens)
None == 0
Element == 2 * MaxOpens + 1
Dialog == 2 * MaxOpens + 2
Nodes == Backdrops \cup {Element, Dialog}

(* reveal: the callback of show(); shown: the one after it; hideModal: the *)
(* method; remove: callbackRemove; closed: the callback of hideModal.      *)
Callbacks == {"reveal", "shown", "hideModal", "remove", "closed"}

VARIABLES
    isShown,        \* this.isShown
    display,        \* is the element displayed?
    inClass,        \* has it the class "in"?
    backdrop,       \* this.$backdrop
    attached,       \* the backdrops in the document
    pending,        \* pending[n]: what waits for the end of n's transition
    due,            \* due[n]: ticks until emulateTransitionEnd reports it
    running,        \* the callbacks of the event that is being dispatched
    modalOpen,      \* has the body the class "modal-open"?
    padding,        \* its padding-right, in widths of a scrollbar
    originalBodyPad,
    tall,           \* is the page higher than the window?
    trap,           \* is focusin.bs.modal bound (enforceFocus)?
    drag,           \* the mouse: pressed in the dialog, let go beside it
    ignoreBackdropClick,
    clickTwice,     \* has the element a second handler for its clicks?
    restorer,       \* is the click's one('hidden.bs.modal') handler bound?
    opens,          \* bound
    clean           \* history: opened on a clean page, never reversed early

elementVars == <<isShown, display, inClass, trap>>
transitions == <<backdrop, attached, pending, due>>
bodyVars == <<modalOpen, padding, originalBodyPad, tall>>
mouseVars == <<drag, ignoreBackdropClick, clickTwice>>
vars == <<elementVars, transitions, running, bodyVars, mouseVars, restorer,
          opens, clean>>

TypeOK ==
    /\ isShown \in BOOLEAN /\ display \in BOOLEAN /\ inClass \in BOOLEAN
    /\ trap \in BOOLEAN
    /\ backdrop \in Backdrops \cup {None}
    /\ attached \subseteq Backdrops
    /\ pending \in [Nodes -> Seq(Callbacks)]
    /\ due \in [Nodes -> 0..2]
    /\ running \in Seq(Callbacks)
    /\ modalOpen \in BOOLEAN /\ tall \in BOOLEAN
    /\ padding \in Nat /\ originalBodyPad \in Nat
    /\ drag \in {"none", "pressed", "outside"}
    /\ ignoreBackdropClick \in BOOLEAN /\ clickTwice \in BOOLEAN
    /\ restorer \in BOOLEAN
    /\ opens \in 0..MaxOpens
    /\ clean \in BOOLEAN

Init ==
    /\ isShown = FALSE /\ display = FALSE /\ inClass = FALSE /\ trap = FALSE
    /\ backdrop = None
    /\ attached = {}
    /\ pending = [n \in Nodes |-> <<>>]
    /\ due = [n \in Nodes |-> 0]
    /\ running = <<>>
    /\ modalOpen = FALSE /\ tall \in BOOLEAN
    /\ padding = 0 /\ originalBodyPad = 0
    /\ drag = "none" /\ ignoreBackdropClick = FALSE /\ clickTwice = FALSE
    /\ restorer = FALSE
    /\ opens = 0
    /\ clean = TRUE

-----------------------------------------------------------------------------
(* Transitions *)

Waits(n) == pending[n] # <<>>

WaitsFor(n, c) == \E i \in DOMAIN pending[n] : pending[n][i] = c

(* n.one('bsTransitionEnd', c).emulateTransitionEnd(ticks): the first of   *)
(* several timers ends the wait of all.                                    *)
Await(p, d, n, c, ticks) ==
    /\ pending' = [p EXCEPT ![n] = Append(@, c)]
    /\ due' = IF p[n] = <<>> THEN [d EXCEPT ![n] = ticks] ELSE d

(* A new backdrop, the callback of which is c.                             *)
NewBackdrop(c) ==
    LET n == CHOOSE b \in Backdrops \ attached :
                \A o \in Backdrops \ attached : b <= o
    IN  /\ backdrop' = n
        /\ attached' = attached \cup {n}
        /\ Await(pending, due, n, c, 1)

(* The page's script is idle, and no mouse event is being delivered.       *)
Idle == running = <<>> /\ drag # "outside"

Visible(n) == IF n \in Backdrops THEN n \in attached ELSE display

(* The transition of n ends: all that waits for it runs, now.              *)
Dispatch(n) ==
    /\ Idle
    /\ Waits(n)
    /\ running' = pending[n]
    /\ pending' = [pending EXCEPT ![n] = <<>>]
    /\ due' = [due EXCEPT ![n] = 0]
    /\ UNCHANGED <<elementVars, backdrop, attached, bodyVars, mouseVars,
                   restorer, opens, clean>>

(* The browser reports it, if it shows the node at all ...                 *)
TransitionEnd(n) == Visible(n) /\ Dispatch(n)

(* Bug: emulateTransitionEnd sets no timer.                                *)
NotEmulated(n) == FALSE /\ Dispatch(n)

(* ... or emulateTransitionEnd does, in time.                              *)
EmulatedEnd(n) == due[n] = 0 /\ Dispatch(n)

Tick ==
    /\ Idle
    /\ \E n \in Nodes : Waits(n)
    /\ \A n \in Nodes : Waits(n) => due[n] > 0
    /\ due' = [n \in Nodes |-> IF Waits(n) THEN due[n] - 1 ELSE due[n]]
    /\ UNCHANGED <<elementVars, backdrop, attached, pending, running,
                   bodyVars, mouseVars, restorer, opens, clean>>

-----------------------------------------------------------------------------
(* show() and hide() *)

(* Nothing is left of an earlier opening but the class and the trap that   *)
(* the next one sets anyway, and a "shown" event that comes late.          *)
CleanPage ==
    /\ attached = {} /\ backdrop = None
    /\ ~display /\ ~modalOpen /\ padding = 0
    /\ ~Waits(Element)

(* Bug: the padding is saved after it was widened.                         *)
SetScrollbarLate ==
    LET widened == padding + (IF tall /\ ~modalOpen THEN 1 ELSE 0)
    IN padding' = widened /\ originalBodyPad' = widened

(* checkScrollbar(), setScrollbar(): the scrollbar is gone while the body  *)
(* has the class "modal-open".                                             *)
SetScrollbar ==
    /\ originalBodyPad' = padding
    /\ padding' = padding + (IF tall /\ ~modalOpen THEN 1 ELSE 0)

(* show(): the click's handler for the show event, which nobody prevents,  *)
(* has bound the one for the hidden event.                                 *)
Show ==
    /\ ~isShown
    /\ opens < MaxOpens
    /\ opens' = opens + 1
    /\ isShown' = TRUE
    /\ SetScrollbar
    /\ modalOpen' = TRUE
    /\ restorer' = TRUE
    /\ NewBackdrop("reveal")
    /\ clean' = CleanPage
    /\ UNCHANGED <<display, inClass, trap, running, tall, mouseVars>>

(* Bug: the handler of the document stays.                                 *)
HideTrapped ==
    /\ isShown
    /\ isShown' = FALSE
    /\ inClass' = FALSE
    /\ drag' = "none"
    /\ clickTwice' = FALSE
    /\ Await(pending, due, Element, "hideModal", 2)
    /\ clean' = (clean /\ \A n \in Backdrops : ~WaitsFor(n, "reveal"))
    /\ UNCHANGED <<display, trap, backdrop, attached, running, bodyVars,
                   restorer, opens>>

(* hide(): the handlers of mouse, keys and window are bound while isShown. *)
Hide ==
    /\ isShown
    /\ isShown' = FALSE
    /\ inClass' = FALSE
    /\ trap' = FALSE
    /\ drag' = "none"
    /\ clickTwice' = FALSE
    /\ Await(pending, due, Element, "hideModal", 2)
    /\ clean' = (clean /\ \A n \in Backdrops : ~WaitsFor(n, "reveal"))
    /\ UNCHANGED <<display, backdrop, attached, running, bodyVars,
                   restorer, opens>>

-----------------------------------------------------------------------------
(* The user *)

Toggle == Show \/ (Hide /\ UNCHANGED ignoreBackdropClick)

(* The page's button.                                                      *)
Click == Idle /\ Toggle

(* A button with data-dismiss, or Escape.                                  *)
Dismiss ==
    /\ Idle
    /\ display
    /\ Hide
    /\ UNCHANGED ignoreBackdropClick

(* Mouse button down in the dialog: binds a handler for its release.       *)
Press ==
    /\ Idle
    /\ display /\ isShown
    /\ drag' = "pressed"
    /\ UNCHANGED <<elementVars, transitions, running, bodyVars,
                   ignoreBackdropClick, clickTwice, restorer, opens, clean>>

ReleaseInside ==
    /\ Idle
    /\ drag = "pressed"
    /\ drag' = "none"
    /\ UNCHANGED <<elementVars, transitions, running, bodyVars,
                   ignoreBackdropClick, clickTwice, restorer, opens, clean>>

(* Bug: only a release inside is noticed.                                  *)
ReleaseUnnoticed ==
    /\ Idle
    /\ drag = "pressed"
    /\ drag' = "outside"
    /\ UNCHANGED <<elementVars, transitions, running, bodyVars,
                   ignoreBackdropClick, clickTwice, restorer, opens, clean>>

(* Button up beside the dialog.  Browsers send a click to the element,     *)
(* which holds both places; some do not.                                   *)
ReleaseOutside ==
    /\ Idle
    /\ drag = "pressed"
    /\ drag' = "outside"
    /\ ignoreBackdropClick' = TRUE
    /\ UNCHANGED <<elementVars, transitions, running, bodyVars, clickTwice,
                   restorer, opens, clean>>

NoClick ==
    /\ drag = "outside"
    /\ drag' = "none"
    /\ UNCHANGED <<elementVars, transitions, running, bodyVars,
                   ignoreBackdropClick, clickTwice, restorer, opens, clean>>

(* A click on the element itself.  The first handler takes the flag back,  *)
(* a second one then hides.  A handler for a release that the window never *)
(* saw answers to this one's.                                              *)
ElementClick(ignored) ==
    /\ display /\ isShown
    /\ ignoreBackdropClick' = FALSE
    /\ IF ignored /\ ~clickTwice
       THEN /\ drag' = "none"
            /\ UNCHANGED <<elementVars, transitions, running, bodyVars,
                           clickTwice, restorer, opens, clean>>
       ELSE Hide

DragClick == drag = "outside" /\ ElementClick(ignoreBackdropClick)

ClickBackdrop ==
    Idle /\ ElementClick(ignoreBackdropClick \/ drag = "pressed")

-----------------------------------------------------------------------------
(* The callbacks *)

Runs(c) ==
    /\ running # <<>>
    /\ Head(running) = c
    /\ running' = Tail(running)

(* The focus cannot leave the dialog.                                      *)
EnforceFocus == trap' = TRUE

(* The callback of show(): the dialog slides in.                           *)
Reveal ==
    /\ Runs("reveal")
    /\ display' = TRUE
    /\ inClass' = TRUE
    /\ EnforceFocus
    /\ Await(pending, due, Dialog, "shown", 2)
    /\ UNCHANGED <<isShown, backdrop, attached, bodyVars, mouseVars,
                   restorer, opens, clean>>

(* The shown event: the page gives the focus to #username.                 *)
Shown ==
    /\ Runs("shown")
    /\ UNCHANGED <<elementVars, transitions, bodyVars, mouseVars, restorer,
                   opens, clean>>

ResetScrollbar == padding' = originalBodyPad

(* Bug: resetScrollbar() is forgotten.                                     *)
WhenClosedPadded ==
    /\ modalOpen' = FALSE
    /\ restorer' = FALSE
    /\ UNCHANGED <<padding, originalBodyPad, tall>>

(* The callback of hideModal(), with the hidden event.                     *)
WhenClosed ==
    /\ modalOpen' = FALSE
    /\ ResetScrollbar
    /\ restorer' = FALSE
    /\ UNCHANGED <<originalBodyPad, tall>>

(* hideModal(): the backdrop it then removes is the present one, and if    *)
(* the dialog was shown again meanwhile, it makes another one, and binds a *)
(* second handler for the clicks of the element.                           *)
HideModal ==
    /\ Runs("hideModal")
    /\ display' = FALSE
    /\ \/ /\ isShown
          /\ NewBackdrop("closed")
          /\ clickTwice' = TRUE
          /\ UNCHANGED <<bodyVars, restorer>>
       \/ /\ ~isShown /\ backdrop # None
          /\ Await(pending, due, backdrop, "remove", 1)
          /\ UNCHANGED <<backdrop, attached, bodyVars, restorer, clickTwice>>
       \/ /\ ~isShown /\ backdrop = None
          /\ WhenClosed
          /\ UNCHANGED <<transitions, clickTwice>>
    /\ UNCHANGED <<isShown, inClass, trap, drag, ignoreBackdropClick, opens,
                   clean>>

(* removeBackdrop() takes the present backdrop, with what waits for it.    *)
RemoveBackdrop ==
    /\ backdrop' = None
    /\ attached' = attached \ {backdrop}
    /\ pending' = [n \in Nodes |-> IF n = backdrop THEN <<>> ELSE pending[n]]
    /\ due' = [n \in Nodes |-> IF n = backdrop THEN 0 ELSE due[n]]

(* callbackRemove                                                          *)
Remove ==
    /\ Runs("remove")
    /\ RemoveBackdrop
    /\ WhenClosed
    /\ UNCHANGED <<elementVars, mouseVars, opens, clean>>

Closed ==
    /\ Runs("closed")
    /\ WhenClosed
    /\ UNCHANGED <<elementVars, transitions, mouseVars, opens, clean>>

-----------------------------------------------------------------------------
User ==
    \/ Click
    \/ Dismiss
    \/ Press
    \/ ReleaseInside
    \/ ReleaseOutside
    \/ NoClick
    \/ DragClick
    \/ ClickBackdrop

Script ==
    \/ Reveal
    \/ Shown
    \/ HideModal
    \/ Remove
    \/ Closed

Next ==
    \/ User
    \/ Script
    \/ Tick
    \/ \E n \in Nodes : TransitionEnd(n) \/ EmulatedEnd(n)

Spec == Init /\ [][Next]_vars

(* Scripts run to their end and timers fire; the browser need not report a *)
(* transition, and the user need not do anything.                          *)
Fairness ==
    /\ WF_vars(Script)
    /\ WF_vars(NoClick \/ DragClick)
    /\ WF_vars(Tick)
    /\ \A n \in Nodes : WF_vars(EmulatedEnd(n))

FairSpec == Spec /\ Fairness

-----------------------------------------------------------------------------
(* Properties *)

(* Opened on a clean page, and not closed before its backdrop had faded    *)
(* in, the dialog is in order at every moment: one backdrop while it is    *)
(* shown, the body as wide as before and the focus given back when it is   *)
(* not, and no way in between to show it without its backdrop.             *)
InOrder ==
    clean =>
       /\ attached = (IF backdrop = None THEN {} ELSE {backdrop})
       /\ display => backdrop # None /\ modalOpen
       /\ isShown => backdrop # None /\ modalOpen /\ restorer
       /\ ~modalOpen => padding = 0 /\ ~restorer
       /\ padding <= (IF tall THEN 1 ELSE 0)
       /\ trap => isShown
       /\ isShown /\ (\A n \in Nodes : ~Waits(n)) /\ running = <<>>
             => display /\ inClass /\ trap

(* A click that ends a drag which began in the dialog does not close it,   *)
(* unless it was opened before its last closing was over.                  *)
DragKeepsOpen == [][clean /\ drag = "outside" => isShown' = isShown]_vars

(* A dialog that is closed leaves the page free in the end, though the     *)
(* browser may report no transition at all, unless it is opened again or   *)
(* was reversed early.                                                     *)
PageFree == attached = {} /\ ~display /\ ~modalOpen /\ padding = 0
Closes == ~isShown ~> PageFree \/ isShown \/ ~clean
=============================================================================
