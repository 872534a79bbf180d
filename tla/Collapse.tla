------------------------------ MODULE Collapse ------------------------------
(***************************************************************************)
(* The Collapse plugin of bootstrap.js, which the pages of Bookinfo load:  *)
(* the panels of one accordion, each with a trigger that has data-parent.  *)
(*                                                                         *)
(* A panel is closed, open, or on its way ("collapsing") until the end of  *)
(* a transition.  That it is on its way is known to the object the plugin  *)
(* keeps with it, which the first click on its trigger makes.  For a panel *)
(* that is open in the HTML the show() of another one makes an object, and *)
(* throws it away at once: it does not know of the accordion.              *)
(***************************************************************************)
EXTENDS Naturals, Sequences

CONSTANTS
    Count,      \* the panels, numbered as they are in the document
    MaxClicks   \* bound

Panels == 1..Count

VARIABLES
    class,          \* class[p]: "collapse", "in" or "collapsing"
    object,         \* object[p]: none, a child of the accordion, or alone
    transitioning,  \* transitioning[p]: the flag of that object
    pending,        \* pending[p]: what waits for the end of p's transition
    expanded,       \* expanded[p]: aria-expanded of p's trigger
    clicks,         \* bound
    hasty           \* history: an object was made while a panel was on its way

vars == <<class, object, transitioning, pending, expanded, clicks, hasty>>

(* complete() of show or of hide, and whether the object it belongs to is  *)
(* still the panel's.                                                      *)
Complete == [to : {"in", "collapse"}, own : BOOLEAN]

TypeOK ==
    /\ class \in [Panels -> {"collapse", "in", "collapsing"}]
    /\ object \in [Panels -> {"none", "child", "alone"}]
    /\ transitioning \in [Panels -> BOOLEAN]
    /\ pending \in [Panels -> Seq(Complete)]
    /\ expanded \in [Panels -> BOOLEAN]
    /\ clicks \in 0..MaxClicks
    /\ hasty \in BOOLEAN

(* One panel at most is open in the HTML, and its trigger says so.         *)
Init ==
    /\ class \in {c \in [Panels -> {"collapse", "in"}] :
                    \A p, q \in Panels : c[p] = "in" /\ c[q] = "in" => p = q}
    /\ object = [p \in Panels |-> "none"]
    /\ transitioning = [p \in Panels |-> FALSE]
    /\ pending = [p \in Panels |-> <<>>]
    /\ expanded = [p \in Panels |-> class[p] = "in"]
    /\ clicks = 0
    /\ hasty = FALSE

-----------------------------------------------------------------------------
IsIn(p) == class[p] = "in"

Actives == {p \in Panels : class[p] \in {"in", "collapsing"}}

(* The end of p's transition shall bring it there.                         *)
Wait(p, to) == Append(pending[p], [to |-> to, own |-> TRUE])

Orphaned(s) == [i \in DOMAIN s |-> [s[i] EXCEPT !.own = FALSE]]

(* A click finds the object of its panel, or makes one, which sets         *)
(* aria-expanded of all the accordion's triggers.                          *)
Kind(p) == IF object[p] = "none" THEN "child" ELSE object[p]

Busy(p) == object[p] # "none" /\ transitioning[p]

Labels(p) ==
    IF object[p] = "none" THEN [q \in Panels |-> IsIn(q)] ELSE expanded

Clicked(p) ==
    /\ clicks < MaxClicks
    /\ clicks' = clicks + 1
    /\ hasty' = (hasty \/ (object[p] = "none"
                             /\ \E q \in Panels : class[q] = "collapsing"))

(* Bug: the trigger is not told.                                           *)
HideUntold(p) ==
    /\ Clicked(p)
    /\ IsIn(p)
    /\ ~Busy(p)
    /\ class' = [class EXCEPT ![p] = "collapsing"]
    /\ object' = [object EXCEPT ![p] = Kind(p)]
    /\ transitioning' = [transitioning EXCEPT ![p] = TRUE]
    /\ pending' = [pending EXCEPT ![p] = Wait(p, "collapse")]
    /\ UNCHANGED expanded

(* hide() *)
Hide(p) ==
    /\ Clicked(p)
    /\ IsIn(p)
    /\ ~Busy(p)
    /\ class' = [class EXCEPT ![p] = "collapsing"]
    /\ object' = [object EXCEPT ![p] = Kind(p)]
    /\ transitioning' = [transitioning EXCEPT ![p] = TRUE]
    /\ pending' = [pending EXCEPT ![p] = Wait(p, "collapse")]
    /\ expanded' = [Labels(p) EXCEPT ![p] = FALSE]

(* show() looks at the flag of the first active panel only.                *)
First == CHOOSE p \in Actives : \A q \in Actives : p <= q

(* Bug: show() does not look at the panels that are on their way.          *)
NeverBlocked(p) == FALSE

Blocked(p) == Kind(p) = "child" /\ Actives # {} /\ Busy(First)

(* show() of a panel that knows of no active one.                          *)
ShowAlone(p) ==
    /\ Clicked(p)
    /\ ~IsIn(p) /\ ~Busy(p)
    /\ Kind(p) = "alone" \/ Actives = {}
    /\ class' = [class EXCEPT ![p] = "collapsing"]
    /\ object' = [object EXCEPT ![p] = Kind(p)]
    /\ transitioning' = [transitioning EXCEPT ![p] = TRUE]
    /\ pending' = [pending EXCEPT ![p] = Wait(p, "in")]
    /\ expanded' = [Labels(p) EXCEPT ![p] = TRUE]

(* show() that hides the active panels first: each without an object gets  *)
(* one; if the first had none, they all lose theirs.  (p can be one of     *)
(* them; an object that was made just now for p is kept all the same.)     *)
ShowAmong(p) ==
    /\ Clicked(p)
    /\ ~IsIn(p) /\ ~Busy(p)
    /\ Kind(p) = "child" /\ Actives # {} /\ ~Blocked(p)
    /\ LET others == Actives \ {p}
           hidden == {q \in others : IsIn(q) /\ ~Busy(q)}
           keep   == object[First] # "none"
           loses  == IF keep THEN {}
                     ELSE IF object[p] = "none" THEN others ELSE Actives
           Left(q) == CASE q = p -> Wait(q, "in")
                        [] q \in hidden -> Wait(q, "collapse")
                        [] OTHER -> pending[q]
       IN  /\ class' = [q \in Panels |->
                 IF q = p \/ q \in hidden THEN "collapsing" ELSE class[q]]
           /\ object' = [q \in Panels |->
                 CASE q \in loses -> "none"
                   [] q \notin loses /\ q = p -> Kind(p)
                   [] q \in others \ loses /\ object[q] = "none" -> "alone"
                   [] OTHER -> object[q]]
           /\ transitioning' = [q \in Panels |->
                 q \notin loses /\ (q = p \/ q \in hidden \/ transitioning[q])]
           /\ pending' = [q \in Panels |->
                 IF q \in loses THEN Orphaned(Left(q)) ELSE Left(q)]
           /\ expanded' = [q \in Panels |->
                 CASE q = p -> TRUE
                   [] q \in hidden -> FALSE
                   [] q \in others \ hidden /\ object[q] = "none" -> IsIn(q)
                   [] OTHER -> Labels(p)[q]]

(* show() or hide() that return at once; the object stays.                 *)
Ignored(p) ==
    /\ Clicked(p)
    /\ Busy(p) \/ (~IsIn(p) /\ Blocked(p))
    /\ object' = [object EXCEPT ![p] = Kind(p)]
    /\ expanded' = Labels(p)
    /\ UNCHANGED <<class, transitioning, pending>>

(* The end of p's transition, reported by the browser or by the timer: all *)
(* that waits for it runs.  The class "in" stays, whichever came last.     *)
TransitionEnd(p) ==
    /\ pending[p] # <<>>
    /\ class' = [class EXCEPT ![p] =
                   IF \E i \in DOMAIN pending[p] : pending[p][i].to = "in"
                   THEN "in" ELSE "collapse"]
    /\ transitioning' = [transitioning EXCEPT ![p] =
                   @ /\ \A i \in DOMAIN pending[p] : ~pending[p][i].own]
    /\ pending' = [pending EXCEPT ![p] = <<>>]
    /\ UNCHANGED <<object, expanded, clicks, hasty>>

-----------------------------------------------------------------------------
Click(p) == Hide(p) \/ ShowAlone(p) \/ ShowAmong(p) \/ Ignored(p)

Next == \E p \in Panels : Click(p) \/ TransitionEnd(p)

-----------------------------------------------------------------------------
(* Properties *)

Opening(p) ==
    /\ class[p] = "collapsing"
    /\ \E i \in DOMAIN pending[p] : pending[p][i].to = "in"

(* Unless a trigger was clicked for the first time while a panel was on    *)
(* its way, one panel at most is open or opening, however fast the         *)
(* triggers are clicked, and none of them says of its panel what is not so *)
(* once the panel is there.                                                *)
OneOpen ==
    hasty \/
       /\ \A p, q \in Panels :
             (IsIn(p) \/ Opening(p)) /\ (IsIn(q) \/ Opening(q)) => p = q
       /\ \A p \in Panels : pending[p] = <<>> => (expanded[p] <=> IsIn(p))
=============================================================================
