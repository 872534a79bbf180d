---------------------------- MODULE Modal_proofs ----------------------------
(***************************************************************************)
(* Proofs about the login dialog, for any number of openings: types, the   *)
(* order it keeps when it was opened on a clean page, and the drags that   *)
(* do not close it.                                                        *)
(***************************************************************************)
EXTENDS Modal, FiniteSetTheorems, WellFoundedInduction, TLAPS

OfBackdrop == {"reveal", "remove", "closed"}

AllOf(s, S) == \A i \in DOMAIN s : s[i] \in S

(* What may wait on which node; one event's callbacks are of one kind.     *)
Queues ==
    /\ AllOf(pending[Element], {"hideModal"})
    /\ AllOf(pending[Dialog], {"shown"})
    /\ \A n \in Backdrops : AllOf(pending[n], OfBackdrop)
    /\ \/ AllOf(running, {"hideModal"})
       \/ AllOf(running, {"shown"})
       \/ AllOf(running, OfBackdrop)

(* Nothing waits on a node that is not in the document.                    *)
Attachments ==
    /\ backdrop # None => backdrop \in attached
    /\ \A n \in Backdrops : n \notin attached => pending[n] = <<>>

HidesRunning == IF AllOf(running, {"hideModal"}) THEN Len(running) ELSE 0

(* Each show() makes a backdrop, and each hide() may make another one, in  *)
(* hideModal(): so there is always one left to make.                       *)
Counted ==
    Cardinality(attached) + Len(pending[Element]) + HidesRunning
       + (IF isShown THEN 1 ELSE 0) <= 2 * opens

Mouse ==
    /\ drag = "outside" => running = <<>> /\ ignoreBackdropClick
    /\ drag # "none" \/ clickTwice => isShown

(* The phases of a dialog that was opened on a clean page.  A "shown" that *)
(* waits on the dialog may come in each of them.                           *)
OnlyShown == AllOf(running, {"shown"})

Coming(n, c) ==
    \/ pending[n] = <<c>> /\ OnlyShown
    \/ pending[n] = <<>> /\ running = <<c>>

BackdropUp ==
    /\ backdrop # None /\ attached = {backdrop}
    /\ modalOpen /\ restorer
    /\ padding = IF tall THEN 1 ELSE 0

FadingIn ==
    /\ isShown /\ ~display
    /\ BackdropUp
    /\ pending[Element] = <<>> /\ Coming(backdrop, "reveal")

Opened ==
    /\ isShown /\ display /\ inClass /\ trap
    /\ BackdropUp
    /\ pending[Element] = <<>> /\ pending[backdrop] = <<>> /\ OnlyShown

FadingOut ==
    /\ ~isShown /\ display /\ ~trap
    /\ BackdropUp
    /\ pending[backdrop] = <<>> /\ Coming(Element, "hideModal")

Removing ==
    /\ ~isShown /\ ~display /\ ~trap
    /\ BackdropUp
    /\ pending[Element] = <<>> /\ Coming(backdrop, "remove")

Gone ==
    /\ ~isShown /\ ~display /\ ~trap
    /\ backdrop = None /\ attached = {}
    /\ ~modalOpen /\ ~restorer /\ padding = 0
    /\ pending[Element] = <<>> /\ OnlyShown

Phases ==
    clean => /\ originalBodyPad = 0 /\ ~clickTwice
             /\ FadingIn \/ Opened \/ FadingOut \/ Removing \/ Gone

DialogInv ==
    TypeOK /\ Queues /\ Attachments /\ Counted /\ Mouse /\ Phases

-----------------------------------------------------------------------------
(* Queues and nodes *)

LEMMA AllOfAppend ==
    ASSUME NEW T, NEW s \in Seq(T), NEW c \in T, NEW S, c \in S, AllOf(s, S)
    PROVE  AllOf(Append(s, c), S)
BY DEF AllOf

LEMMA AllOfTail ==
    ASSUME NEW T, NEW s \in Seq(T), s # <<>>, NEW S, AllOf(s, S)
    PROVE  Head(s) \in S /\ AllOf(Tail(s), S)
<1>1. Head(s) = s[1] /\ 1 \in DOMAIN s
  OBVIOUS
<1>2. ASSUME NEW i \in DOMAIN Tail(s)
      PROVE  Tail(s)[i] = s[i + 1] /\ i + 1 \in DOMAIN s
  OBVIOUS
<1> QED
  BY <1>1, <1>2 DEF AllOf

LEMMA NoneOf ==
    ASSUME NEW T, NEW s \in Seq(T)
    PROVE  /\ \A S : s = <<>> => AllOf(s, S)
           /\ \A S, R : AllOf(s, S) /\ AllOf(s, R) /\ S \cap R = {} => s = <<>>
<1>1. s # <<>> => 1 \in DOMAIN s
  OBVIOUS
<1>2. s = <<>> => DOMAIN s = {}
  OBVIOUS
<1> QED
  BY <1>1, <1>2 DEF AllOf

LEMMA NodeFacts ==
    /\ MaxOpens \in Nat \ {0}
    /\ Element \in Nodes /\ Dialog \in Nodes /\ Backdrops \subseteq Nodes
    /\ Element \notin Backdrops /\ Dialog \notin Backdrops /\ Element # Dialog
    /\ None \notin Backdrops /\ None # Element /\ None # Dialog
    /\ Backdrops \subseteq Nat
BY ModalAssumption DEF Element, Dialog, Backdrops, Nodes, None

LEMMA Finite ==
    ASSUME NEW S, S \subseteq Backdrops
    PROVE  IsFiniteSet(S) /\ Cardinality(S) \in Nat
<1>1. IsFiniteSet(Backdrops)
  BY ModalAssumption, FS_Interval DEF Backdrops
<1> QED
  BY <1>1, FS_Subset, FS_CardinalityType

(* There is a least node among those that are no backdrops yet.            *)
LEMMA LeastBackdrop ==
    ASSUME NEW S, S \subseteq Backdrops, Cardinality(S) < 2 * MaxOpens
    PROVE  LET n == CHOOSE b \in Backdrops \ S : \A o \in Backdrops \ S : b <= o
           IN  n \in Backdrops /\ n \notin S
<1>1. Backdrops \ S # {}
  <2>1. Cardinality(Backdrops) = 2 * MaxOpens
    BY ModalAssumption, FS_Interval DEF Backdrops
  <2> QED
    BY <2>1, ModalAssumption
<1> DEFINE A == Backdrops \ S
<1>2. A # {} /\ A \subseteq Nat
  BY <1>1, NodeFacts
<1> HIDE DEF A
<1>3. PICK n \in A : \A o \in A : <<o, n>> \notin OpToRel(<, Nat)
  BY <1>2, WFMin, NatLessThanWellFounded
<1>4. \A o \in A : ~(o < n)
  BY <1>2, <1>3 DEF OpToRel
<1>5. \A o \in A : n <= o
  BY <1>2, <1>4
<1> QED
  BY <1>5 DEF A

(* A new backdrop is one nothing waits on, so its callback comes alone.    *)
LEMMA NewBackdropStep ==
    ASSUME DialogInv, NEW c, NewBackdrop(c),
           Cardinality(attached) < 2 * MaxOpens
    PROVE  \E n \in Backdrops \ attached :
              /\ backdrop' = n
              /\ attached' = attached \cup {n}
              /\ Cardinality(attached') = Cardinality(attached) + 1
              /\ pending' = [pending EXCEPT ![n] = <<c>>]
              /\ due' = [due EXCEPT ![n] = 1]
<1> DEFINE n == CHOOSE b \in Backdrops \ attached :
                   \A o \in Backdrops \ attached : b <= o
<1>1. attached \subseteq Backdrops
  BY DEF DialogInv, TypeOK
<1>2. n \in Backdrops /\ n \notin attached
  BY <1>1, LeastBackdrop
<1>3. backdrop' = n /\ attached' = attached \cup {n} /\ Await(pending, due, n, c, 1)
  BY Zenon DEF NewBackdrop
<1> HIDE DEF n
<1>4. pending[n] = <<>> /\ n \in Nodes
  BY <1>2, NodeFacts DEF DialogInv, Attachments
<1>5. pending' = [pending EXCEPT ![n] = <<c>>] /\ due' = [due EXCEPT ![n] = 1]
  BY <1>3, <1>4 DEF Await
<1>6. Cardinality(attached') = Cardinality(attached) + 1
  BY <1>1, <1>2, <1>3, Finite, FS_AddElement
<1> QED
  BY <1>2, <1>3, <1>5, <1>6

-----------------------------------------------------------------------------
(* show() and hide() *)

LEMMA ShowInv ==
    ASSUME DialogInv, Idle, Show
    PROVE  DialogInv'
<1>0. attached \subseteq Backdrops
  BY DEF DialogInv, TypeOK
<1>1. /\ attached \subseteq Backdrops /\ Cardinality(attached) \in Nat
      /\ Len(pending[Element]) \in Nat /\ HidesRunning \in Nat
      /\ opens \in Nat /\ opens < MaxOpens
  <2>1. Cardinality(attached) \in Nat
    BY <1>0, Finite
  <2> QED
    BY <1>0, <2>1, NodeFacts DEF DialogInv, TypeOK, HidesRunning, Show
<1>2. Cardinality(attached) < 2 * MaxOpens
  BY <1>1, NodeFacts DEF DialogInv, Counted
<1>3. PICK n \in Backdrops \ attached :
         /\ backdrop' = n
         /\ attached' = attached \cup {n}
         /\ Cardinality(attached') = Cardinality(attached) + 1
         /\ pending' = [pending EXCEPT ![n] = <<"reveal">>]
         /\ due' = [due EXCEPT ![n] = 1]
  BY <1>2, NewBackdropStep DEF Show
<1>4. /\ n \in Nodes /\ n # Element /\ n # Dialog /\ n # None
      /\ pending \in [Nodes -> Seq(Callbacks)] /\ due \in [Nodes -> 0..2]
  BY <1>3, NodeFacts DEF DialogInv, TypeOK
<1>5. /\ pending'[n] = <<"reveal">>
      /\ \A o \in Nodes \ {n} : pending'[o] = pending[o]
  BY <1>3, <1>4
<1>6. running = <<>> /\ running' = <<>>
  BY DEF Idle, Show
<1>7. TypeOK'
  <2>1. pending' \in [Nodes -> Seq(Callbacks)] /\ due' \in [Nodes -> 0..2]
    BY <1>3, <1>4 DEF Callbacks
  <2>2. padding' \in Nat /\ originalBodyPad' \in Nat
    BY DEF DialogInv, TypeOK, Show, SetScrollbar
  <2>3. opens' \in 0..MaxOpens
    BY <1>1, NodeFacts DEF Show
  <2>4. clean' \in BOOLEAN
    BY Zenon DEF Show, CleanPage
  <2> QED
    BY <1>3, <2>1, <2>2, <2>3, <2>4 DEF DialogInv, TypeOK, Show, mouseVars
<1>8. Queues'
  BY <1>3, <1>4, <1>5, <1>6, NodeFacts
  DEF DialogInv, Queues, AllOf, OfBackdrop
<1>9. Attachments'
  BY <1>3, <1>4, <1>5, NodeFacts DEF DialogInv, Attachments
<1>10. Counted'
  <2>1. pending'[Element] = pending[Element] /\ HidesRunning' = HidesRunning
    BY <1>4, <1>5, <1>6, NodeFacts DEF HidesRunning, AllOf
  <2>2. ~isShown /\ isShown' = TRUE /\ opens' = opens + 1
    BY DEF Show
  <2>3. Cardinality(attached) + Len(pending[Element]) + HidesRunning <= 2 * opens
    BY <1>1, <2>2 DEF DialogInv, Counted
  <2>4. Cardinality(attached') + Len(pending'[Element]) + HidesRunning' + 1
           <= 2 * opens'
    <3>1. \A c, l, h, o \in Nat : c + l + h <= 2 * o
                                     => (c + 1) + l + h + 1 <= 2 * (o + 1)
      OBVIOUS
    <3> QED
      BY <1>1, <1>3, <2>1, <2>2, <2>3, <3>1
  <2> QED
    BY <2>2, <2>4 DEF Counted
<1>11. Mouse'
  BY <1>6 DEF DialogInv, Mouse, Show, mouseVars
<1>12. Phases'
  <2> SUFFICES ASSUME clean'
               PROVE  originalBodyPad' = 0 /\ ~clickTwice' /\ FadingIn'
    BY DEF Phases
  <2>1. CleanPage
    BY Zenon DEF Show
  <2>2. originalBodyPad' = 0 /\ padding' = IF tall' THEN 1 ELSE 0
    BY <2>1 DEF CleanPage, Show, SetScrollbar
  <2>3. ~clickTwice'
    BY DEF DialogInv, Mouse, Show, mouseVars
  <2>4. pending'[Element] = <<>>
    BY <1>4, <1>5, <2>1, NodeFacts DEF CleanPage, Waits
  <2>5. Coming(backdrop, "reveal")'
    BY <1>3, <1>5, <1>6 DEF Coming, OnlyShown, AllOf
  <2>6. BackdropUp'
    BY <1>3, <1>4, <2>1, <2>2 DEF BackdropUp, CleanPage, Show
  <2> QED
    BY <2>1, <2>2, <2>3, <2>4, <2>5, <2>6 DEF FadingIn, CleanPage, Show
<1> QED
  BY <1>7, <1>8, <1>9, <1>10, <1>11, <1>12 DEF DialogInv

(* hide(): a dialog whose backdrop has not faded in is not clean any more. *)
LEMMA HideInv ==
    ASSUME DialogInv, running = <<>>, Hide, ignoreBackdropClick' \in BOOLEAN
    PROVE  DialogInv'
<1>1. /\ pending \in [Nodes -> Seq(Callbacks)] /\ due \in [Nodes -> 0..2]
      /\ running' = <<>>
  BY DEF DialogInv, TypeOK, Hide
<1>2. /\ pending'[Element] = Append(pending[Element], "hideModal")
      /\ \A o \in Nodes \ {Element} : pending'[o] = pending[o]
      /\ pending' \in [Nodes -> Seq(Callbacks)]
      /\ due' \in [Nodes -> 0..2]
  BY <1>1, NodeFacts DEF Hide, Await, Callbacks
<1>3. TypeOK'
  <2>1. clean' \in BOOLEAN
    BY Zenon DEF Hide
  <2> QED
    BY <1>1, <1>2, <2>1 DEF DialogInv, TypeOK, Hide, bodyVars
<1>4. Queues'
  <2>1. AllOf(pending'[Element], {"hideModal"})
    BY <1>1, <1>2, AllOfAppend, NodeFacts DEF DialogInv, Queues, Callbacks
  <2>2. AllOf(running', {"hideModal"})
    BY <1>1 DEF AllOf
  <2>3. AllOf(pending'[Dialog], {"shown"})
    BY <1>2, NodeFacts DEF DialogInv, Queues
  <2>4. \A n \in Backdrops : AllOf(pending'[n], OfBackdrop)
    BY <1>2, NodeFacts DEF DialogInv, Queues
  <2> QED
    BY <2>1, <2>2, <2>3, <2>4 DEF Queues
<1>5. Attachments'
  BY <1>2, NodeFacts DEF DialogInv, Attachments, Hide
<1>6. Counted'
  <2>1. Len(pending'[Element]) = Len(pending[Element]) + 1
        /\ Len(pending[Element]) \in Nat
    BY <1>1, <1>2, NodeFacts
  <2>2. HidesRunning = 0 /\ HidesRunning' = 0
    BY <1>1 DEF HidesRunning, AllOf
  <2>3. /\ isShown /\ isShown' = FALSE
        /\ UNCHANGED <<attached, opens>>
    BY DEF Hide
  <2>4. Cardinality(attached) \in Nat
    BY Finite DEF DialogInv, TypeOK
  <2>5. opens \in Nat
    BY NodeFacts DEF DialogInv, TypeOK
  <2> QED
    BY <2>1, <2>2, <2>3, <2>4, <2>5 DEF DialogInv, Counted
<1>7. Mouse'
  BY DEF Mouse, Hide
<1>8. Phases'
  <2> SUFFICES ASSUME clean'
               PROVE  originalBodyPad' = 0 /\ ~clickTwice' /\ FadingOut'
    BY DEF Phases
  <2>1. clean /\ \A n \in Backdrops : ~WaitsFor(n, "reveal")
    BY Zenon DEF Hide
  <2>2. ~FadingIn
    <3> SUFFICES ASSUME FadingIn PROVE FALSE
      OBVIOUS
    <3>1. pending[backdrop] = <<"reveal">>
      BY DEF FadingIn, Coming
    <3>2. backdrop \in Backdrops
      BY NodeFacts DEF FadingIn, BackdropUp, DialogInv, TypeOK
    <3>3. 1 \in DOMAIN pending[backdrop] /\ pending[backdrop][1] = "reveal"
      BY <3>1
    <3> QED
      BY <2>1, <3>2, <3>3 DEF WaitsFor
  <2>3. Opened
    BY <2>1, <2>2 DEF DialogInv, Phases, FadingOut, Removing, Gone, Hide
  <2>4. pending'[Element] = <<"hideModal">> /\ pending'[backdrop] = <<>>
    BY <1>1, <1>2, <2>3, NodeFacts
    DEF Opened, BackdropUp, DialogInv, TypeOK, Callbacks
  <2>5. Coming(Element, "hideModal")'
    BY <1>1, <2>4 DEF Coming, OnlyShown, AllOf
  <2>6. BackdropUp'
    BY <2>3 DEF Opened, BackdropUp, Hide, bodyVars
  <2> QED
    BY <2>1, <2>3, <2>4, <2>5, <2>6
    DEF FadingOut, Opened, Hide, bodyVars, DialogInv, Phases
<1> QED
  BY <1>3, <1>4, <1>5, <1>6, <1>7, <1>8 DEF DialogInv

-----------------------------------------------------------------------------
(* Transitions and time *)

LEMMA DispatchInv ==
    ASSUME DialogInv, NEW n \in Nodes, Dispatch(n)
    PROVE  DialogInv'
<1>1. /\ pending \in [Nodes -> Seq(Callbacks)] /\ due \in [Nodes -> 0..2]
      /\ running = <<>> /\ drag # "outside" /\ pending[n] # <<>>
  BY DEF DialogInv, TypeOK, Dispatch, Idle, Waits
<1>2. /\ running' = pending[n] /\ running' \in Seq(Callbacks)
      /\ pending'[n] = <<>>
      /\ \A o \in Nodes \ {n} : pending'[o] = pending[o]
      /\ pending' \in [Nodes -> Seq(Callbacks)]
      /\ due' \in [Nodes -> 0..2]
  BY <1>1 DEF Dispatch
<1>3. UNCHANGED <<isShown, display, inClass, trap, backdrop, attached,
                  modalOpen, padding, originalBodyPad, tall, drag,
                  ignoreBackdropClick, clickTwice, restorer, opens, clean>>
  BY DEF Dispatch, elementVars, bodyVars, mouseVars
<1>4. TypeOK'
  BY <1>2, <1>3 DEF DialogInv, TypeOK
<1>5. Queues'
  <2>1. /\ AllOf(pending'[Element], {"hideModal"})
        /\ AllOf(pending'[Dialog], {"shown"})
        /\ \A o \in Backdrops : AllOf(pending'[o], OfBackdrop)
    <3>1. \A o \in Nodes : pending'[o] = pending[o] \/ pending'[o] = <<>>
      BY <1>2
    <3>2. \A S : AllOf(<<>>, S)
      BY DEF AllOf
    <3>3. /\ AllOf(pending[Element], {"hideModal"})
          /\ AllOf(pending[Dialog], {"shown"})
          /\ \A o \in Backdrops : AllOf(pending[o], OfBackdrop)
      BY DEF DialogInv, Queues
    <3> QED
      BY <3>1, <3>2, <3>3, NodeFacts
  <2>2. \/ AllOf(pending[n], {"hideModal"})
        \/ AllOf(pending[n], {"shown"})
        \/ AllOf(pending[n], OfBackdrop)
    BY DEF DialogInv, Queues, Nodes
  <2> QED
    BY <1>2, <2>1, <2>2 DEF Queues
<1>6. Attachments'
  BY <1>2, <1>3, NodeFacts DEF DialogInv, Attachments
<1>7. HidesRunning = 0
  BY <1>1 DEF HidesRunning, AllOf
<1>8. /\ Len(pending[Element]) \in Nat
      /\ Len(pending'[Element]) + HidesRunning' = Len(pending[Element])
  <2>1. pending[Element] \in Seq(Callbacks) /\ Len(pending[Element]) \in Nat
    BY <1>1, NodeFacts
  <2>2. CASE n = Element
    <3>1. AllOf(running', {"hideModal"})
      BY <1>2, <2>2 DEF DialogInv, Queues
    <3>2. HidesRunning' = Len(pending[Element]) /\ Len(pending'[Element]) = 0
      BY <1>2, <2>2, <3>1 DEF HidesRunning
    <3> QED
      BY <2>1, <3>2
  <2>3. CASE n # Element
    <3>1. AllOf(running', {"shown"}) \/ AllOf(running', OfBackdrop)
      BY <1>2, <2>3 DEF DialogInv, Queues, Nodes
    <3>2. ~AllOf(running', {"hideModal"})
      <4>1. {"shown"} \cap {"hideModal"} = {} /\ OfBackdrop \cap {"hideModal"} = {}
        BY DEF OfBackdrop
      <4> QED
        BY <1>1, <1>2, <3>1, <4>1, NoneOf
    <3>3. HidesRunning' = 0 /\ pending'[Element] = pending[Element]
      BY <1>2, <2>3, <3>2, NodeFacts DEF HidesRunning
    <3> QED
      BY <2>1, <3>3
  <2> QED
    BY <2>2, <2>3
<1>9. Counted'
  <2>1. Cardinality(attached) \in Nat
    BY Finite DEF DialogInv, TypeOK
  <2>2. Cardinality(attached) + Len(pending[Element]) + 0
           + (IF isShown THEN 1 ELSE 0) <= 2 * opens
    BY <1>7 DEF DialogInv, Counted
  <2>3. HidesRunning' \in Nat /\ Len(pending'[Element]) \in Nat
    BY <1>2, NodeFacts DEF HidesRunning
  <2> DEFINE up == IF isShown THEN 1 ELSE 0
  <2>4. up \in Nat /\ opens \in Nat
    BY DEF DialogInv, TypeOK
  <2>5. Cardinality(attached) + Len(pending[Element]) + 0 + up <= 2 * opens
    BY <2>2
  <2> HIDE DEF up
  <2>6. Cardinality(attached) + Len(pending'[Element]) + HidesRunning' + up
           <= 2 * opens
    BY <1>8, <2>1, <2>3, <2>4, <2>5
  <2> QED
    BY <1>3, <2>6 DEF Counted, up
<1>10. Mouse'
  BY <1>1, <1>3 DEF DialogInv, Mouse
<1>11. Phases'
  <2> SUFFICES ASSUME clean
               PROVE  FadingIn' \/ Opened' \/ FadingOut' \/ Removing' \/ Gone'
    BY <1>3 DEF Phases, DialogInv
  <2>0. BackdropUp => /\ BackdropUp' /\ backdrop' = backdrop
                      /\ backdrop \in Backdrops
    BY <1>3, NodeFacts DEF BackdropUp, DialogInv, TypeOK
  <2>1. n # Element => pending'[Element] = pending[Element]
    BY <1>2, NodeFacts
  <2>2. n \in Backdrops => n \in attached
    BY <1>1 DEF DialogInv, Attachments
  <2>3. n = Dialog => OnlyShown'
    BY <1>2 DEF DialogInv, Queues, OnlyShown
  <2>4. BackdropUp /\ n # backdrop => pending'[backdrop] = pending[backdrop]
    BY <1>2, <2>0, NodeFacts
  <2>5. BackdropUp => n \in {Element, Dialog, backdrop}
    BY <2>2 DEF BackdropUp, Nodes
  <2>6. \A o, c : Coming(o, c) => pending[o] = <<c>>
    BY <1>1 DEF Coming
  <2>7. CASE FadingIn
    <3>1. n = Dialog \/ n = backdrop
      BY <1>1, <2>5, <2>7 DEF FadingIn
    <3>2. Coming(backdrop, "reveal")'
      BY <1>2, <2>0, <2>3, <2>4, <2>6, <2>7, <3>1 DEF FadingIn, Coming
    <3> QED
      BY <1>3, <2>0, <2>1, <2>7, <3>1, <3>2, NodeFacts DEF FadingIn
  <2>8. CASE Opened
    <3>1. n = Dialog
      BY <1>1, <2>5, <2>8 DEF Opened
    <3> QED
      BY <1>3, <2>0, <2>1, <2>3, <2>4, <2>8, <3>1, NodeFacts DEF Opened
  <2>9. CASE FadingOut
    <3>1. n = Dialog \/ n = Element
      BY <1>1, <2>5, <2>9 DEF FadingOut
    <3>2. Coming(Element, "hideModal")'
      BY <1>2, <2>1, <2>3, <2>6, <2>9, <3>1, NodeFacts DEF FadingOut, Coming
    <3> QED
      BY <1>3, <2>0, <2>4, <2>9, <3>1, <3>2, NodeFacts DEF FadingOut
  <2>10. CASE Removing
    <3>1. n = Dialog \/ n = backdrop
      BY <1>1, <2>5, <2>10 DEF Removing
    <3>2. Coming(backdrop, "remove")'
      BY <1>2, <2>0, <2>3, <2>4, <2>6, <2>10, <3>1 DEF Removing, Coming
    <3> QED
      BY <1>3, <2>0, <2>1, <2>10, <3>1, <3>2, NodeFacts DEF Removing
  <2>11. CASE Gone
    <3>1. n = Dialog
      BY <1>1, <2>2, <2>11 DEF Gone, Nodes
    <3> QED
      BY <1>3, <2>1, <2>3, <2>11, <3>1, NodeFacts DEF Gone
  <2> QED
    BY <2>7, <2>8, <2>9, <2>10, <2>11 DEF DialogInv, Phases
<1> QED
  BY <1>4, <1>5, <1>6, <1>9, <1>10, <1>11 DEF DialogInv

LEMMA TickInv ==
    ASSUME DialogInv, Tick
    PROVE  DialogInv'
<1>1. UNCHANGED <<isShown, display, inClass, trap, backdrop, attached, pending,
                  running, modalOpen, padding, originalBodyPad, tall, drag,
                  ignoreBackdropClick, clickTwice, restorer, opens, clean>>
  BY DEF Tick, elementVars, bodyVars, mouseVars
<1>2. due' \in [Nodes -> 0..2]
  BY DEF Tick, DialogInv, TypeOK
<1> QED
  BY <1>1, <1>2
  DEF DialogInv, TypeOK, Queues, Attachments, Counted, HidesRunning, Mouse,
      Phases, FadingIn, Opened, FadingOut, Removing, Gone, BackdropUp, Coming,
      OnlyShown

-----------------------------------------------------------------------------
(* The mouse *)

(* A step that changes nothing but what the plugin knows of the mouse.     *)
LEMMA MouseInv ==
    ASSUME DialogInv, Mouse',
           drag' \in {"none", "pressed", "outside"},
           ignoreBackdropClick' \in BOOLEAN,
           UNCHANGED <<elementVars, transitions, running, bodyVars, clickTwice,
                       restorer, opens, clean>>
    PROVE  DialogInv'
<1>1. UNCHANGED <<isShown, display, inClass, trap, backdrop, attached, pending,
                  due, running, modalOpen, padding, originalBodyPad, tall,
                  clickTwice, restorer, opens, clean>>
  BY DEF elementVars, transitions, bodyVars
<1> QED
  BY <1>1
  DEF DialogInv, TypeOK, Queues, Attachments, Counted, HidesRunning,
      Phases, FadingIn, Opened, FadingOut, Removing, Gone, BackdropUp, Coming,
      OnlyShown

LEMMA UserInv ==
    ASSUME DialogInv, User
    PROVE  DialogInv'
<1>0. /\ drag \in {"none", "pressed", "outside"}
      /\ ignoreBackdropClick \in BOOLEAN
      /\ Mouse
  BY DEF DialogInv, TypeOK
<1>1. CASE Click
  <2>1. running = <<>>
    BY <1>1 DEF Click, Idle
  <2>2. CASE Show
    BY <1>1, <2>2, ShowInv DEF Click
  <2>3. CASE Hide /\ UNCHANGED ignoreBackdropClick
    BY <1>0, <2>1, <2>3, HideInv
  <2> QED
    BY <1>1, <2>2, <2>3 DEF Click, Toggle
<1>2. CASE Dismiss
  BY <1>0, <1>2, HideInv DEF Dismiss, Idle
<1>3. CASE Press
  BY <1>0, <1>3, MouseInv DEF Press, Mouse, elementVars
<1>4. CASE ReleaseInside
  BY <1>0, <1>4, MouseInv DEF ReleaseInside, Mouse, elementVars
<1>5. CASE ReleaseOutside
  BY <1>0, <1>5, MouseInv DEF ReleaseOutside, Mouse, Idle, elementVars
<1>6. CASE NoClick
  BY <1>0, <1>6, MouseInv DEF NoClick, Mouse, elementVars
<1>7. ASSUME running = <<>>, NEW ignored, ElementClick(ignored)
      PROVE  DialogInv'
  <2>1. CASE Hide
    BY <1>7, <2>1, HideInv DEF ElementClick
  <2>2. CASE /\ drag' = "none"
             /\ UNCHANGED <<elementVars, transitions, running, bodyVars,
                            clickTwice, restorer, opens, clean>>
    BY <1>0, <1>7, <2>2, MouseInv DEF ElementClick, Mouse, elementVars
  <2> QED
    BY <1>7, <2>1, <2>2 DEF ElementClick
<1>8. CASE DragClick
  BY <1>0, <1>7, <1>8 DEF DragClick, Mouse
<1>9. CASE ClickBackdrop
  BY <1>7, <1>9 DEF ClickBackdrop, Idle
<1> QED
  BY <1>1, <1>2, <1>3, <1>4, <1>5, <1>6, <1>8, <1>9 DEF User

-----------------------------------------------------------------------------
(* The callbacks *)

(* What the first callback of an event is, the others are too.             *)
LEMMA RunsStep ==
    ASSUME DialogInv, NEW c, Runs(c)
    PROVE  /\ running' \in Seq(Callbacks) /\ drag # "outside"
           /\ \/ AllOf(running', {"hideModal"})
              \/ AllOf(running', {"shown"})
              \/ AllOf(running', OfBackdrop)
           /\ HidesRunning \in Nat /\ HidesRunning' \in Nat
           /\ c = "hideModal" => HidesRunning' = HidesRunning - 1
           /\ c # "hideModal" => HidesRunning' = HidesRunning
           /\ OnlyShown => c = "shown" /\ OnlyShown'
           /\ \A d : running = <<d>> => c = d /\ running' = <<>>
<1>1. /\ running \in Seq(Callbacks) /\ running # <<>>
      /\ c = Head(running) /\ running' = Tail(running)
  BY DEF Runs, DialogInv, TypeOK
<1>2. \A S : AllOf(running, S) => c \in S /\ AllOf(running', S)
  BY <1>1, AllOfTail
<1>3. running' \in Seq(Callbacks) /\ drag # "outside"
  BY <1>1 DEF DialogInv, Mouse
<1>4. \/ AllOf(running, {"hideModal"})
      \/ AllOf(running, {"shown"})
      \/ AllOf(running, OfBackdrop)
  BY DEF DialogInv, Queues
<1>5. HidesRunning \in Nat /\ HidesRunning' \in Nat
  BY <1>1, <1>3 DEF HidesRunning
<1>6. /\ c = "hideModal" => HidesRunning' = HidesRunning - 1
      /\ c # "hideModal" => HidesRunning' = HidesRunning
  <2>1. CASE AllOf(running, {"hideModal"})
    <3>1. c = "hideModal" /\ AllOf(running', {"hideModal"})
      BY <1>2, <2>1
    <3>2. Len(running') = Len(running) - 1
      BY <1>1
    <3>3. HidesRunning = Len(running) /\ HidesRunning' = Len(running')
      BY <2>1, <3>1 DEF HidesRunning
    <3> QED
      BY <3>1, <3>2, <3>3
  <2>2. CASE ~AllOf(running, {"hideModal"})
    <3>1. c # "hideModal"
      BY <1>2, <1>4, <2>2 DEF OfBackdrop
    <3>2. AllOf(running', {"shown"}) \/ AllOf(running', OfBackdrop)
      BY <1>2, <1>4, <2>2
    <3>3. {"shown"} \cap {"hideModal"} = {} /\ OfBackdrop \cap {"hideModal"} = {}
      BY DEF OfBackdrop
    <3>4. AllOf(running', {"hideModal"}) => running' = <<>>
      BY <1>3, <3>2, <3>3, NoneOf
    <3>5. HidesRunning = 0 /\ HidesRunning' = 0
      BY <2>2, <3>4 DEF HidesRunning
    <3> QED
      BY <3>1, <3>5
  <2> QED
    BY <2>1, <2>2
<1>7. OnlyShown => c = "shown" /\ OnlyShown'
  BY <1>2 DEF OnlyShown
<1>8. \A d : running = <<d>> => c = d /\ running' = <<>>
  BY <1>1
<1> QED
  BY <1>2, <1>3, <1>4, <1>5, <1>6, <1>7, <1>8

LEMMA RevealInv ==
    ASSUME DialogInv, Reveal
    PROVE  DialogInv'
<1>1. /\ pending \in [Nodes -> Seq(Callbacks)] /\ due \in [Nodes -> 0..2]
      /\ backdrop \in Backdrops \cup {None}
  BY DEF DialogInv, TypeOK
<1>2. /\ pending'[Dialog] = Append(pending[Dialog], "shown")
      /\ \A o \in Nodes \ {Dialog} : pending'[o] = pending[o]
      /\ pending' \in [Nodes -> Seq(Callbacks)]
      /\ due' \in [Nodes -> 0..2]
  BY <1>1, NodeFacts DEF Reveal, Await, Callbacks
<1>3. /\ UNCHANGED <<isShown, backdrop, attached, modalOpen, padding,
                     originalBodyPad, tall, drag, ignoreBackdropClick,
                     clickTwice, restorer, opens, clean>>
      /\ display' = TRUE /\ inClass' = TRUE /\ trap' = TRUE
      /\ Runs("reveal")
  BY DEF Reveal, bodyVars, mouseVars, EnforceFocus
<1>4. /\ running' \in Seq(Callbacks) /\ drag # "outside"
      /\ \/ AllOf(running', {"hideModal"})
         \/ AllOf(running', {"shown"})
         \/ AllOf(running', OfBackdrop)
      /\ HidesRunning' = HidesRunning
      /\ ~OnlyShown
      /\ \A d : running = <<d>> => d = "reveal" /\ running' = <<>>
  BY <1>3, RunsStep
<1>5. TypeOK'
  BY <1>2, <1>3, <1>4 DEF DialogInv, TypeOK
<1>6. Queues'
  <2>1. AllOf(pending'[Dialog], {"shown"})
    BY <1>1, <1>2, AllOfAppend, NodeFacts DEF DialogInv, Queues, Callbacks
  <2>2. /\ AllOf(pending'[Element], {"hideModal"})
        /\ \A n \in Backdrops : AllOf(pending'[n], OfBackdrop)
    BY <1>2, NodeFacts DEF DialogInv, Queues
  <2> QED
    BY <1>4, <2>1, <2>2 DEF Queues
<1>7. Attachments'
  BY <1>2, <1>3, NodeFacts DEF DialogInv, Attachments
<1>8. Counted'
  BY <1>2, <1>3, <1>4, NodeFacts DEF DialogInv, Counted
<1>9. Mouse'
  BY <1>3, <1>4 DEF DialogInv, Mouse
<1>10. Phases'
  <2> SUFFICES ASSUME clean
               PROVE  Opened'
    BY <1>3 DEF Phases, DialogInv
  <2>1. FadingIn /\ running = <<"reveal">>
    BY <1>4 DEF DialogInv, Phases, FadingIn, Opened, FadingOut, Removing, Gone,
                Coming
  <2>2. pending'[backdrop] = <<>> /\ pending'[Element] = <<>>
    BY <1>1, <1>2, <1>4, <2>1, NodeFacts DEF FadingIn, BackdropUp, Coming
  <2>3. OnlyShown'
    BY <1>4, <2>1 DEF OnlyShown, AllOf
  <2> QED
    BY <1>3, <2>1, <2>2, <2>3 DEF FadingIn, Opened, BackdropUp
<1> QED
  BY <1>5, <1>6, <1>7, <1>8, <1>9, <1>10 DEF DialogInv

LEMMA ShownInv ==
    ASSUME DialogInv, Shown
    PROVE  DialogInv'
<1>1. /\ UNCHANGED <<isShown, display, inClass, trap, backdrop, attached,
                     pending, due, modalOpen, padding, originalBodyPad, tall,
                     drag, ignoreBackdropClick, clickTwice, restorer, opens,
                     clean>>
      /\ Runs("shown")
  BY DEF Shown, elementVars, transitions, bodyVars, mouseVars
<1>2. /\ running' \in Seq(Callbacks) /\ drag # "outside"
      /\ \/ AllOf(running', {"hideModal"})
         \/ AllOf(running', {"shown"})
         \/ AllOf(running', OfBackdrop)
      /\ HidesRunning' = HidesRunning
      /\ OnlyShown => OnlyShown'
      /\ \A d : running = <<d>> => d = "shown"
  BY <1>1, RunsStep
<1>3. TypeOK' /\ Queues' /\ Attachments' /\ Counted' /\ Mouse'
  BY <1>1, <1>2 DEF DialogInv, TypeOK, Queues, Attachments, Counted, Mouse
<1>4. /\ Coming(backdrop, "reveal") => Coming(backdrop, "reveal")'
      /\ Coming(backdrop, "remove") => Coming(backdrop, "remove")'
      /\ Coming(Element, "hideModal") => Coming(Element, "hideModal")'
  BY <1>1, <1>2 DEF Coming
<1>5. Phases'
  BY <1>1, <1>2, <1>4
  DEF DialogInv, Phases, FadingIn, Opened, FadingOut, Removing, Gone, BackdropUp
<1> QED
  BY <1>3, <1>5 DEF DialogInv

(* hideModal() for a dialog that was shown again: another backdrop.        *)
LEMMA HideModalAgainInv ==
    ASSUME DialogInv, HideModal, isShown
    PROVE  DialogInv'
<1>1. /\ NewBackdrop("closed") /\ Runs("hideModal") /\ clickTwice' = TRUE
      /\ UNCHANGED <<isShown, inClass, trap, drag, ignoreBackdropClick, opens,
                     clean, modalOpen, padding, originalBodyPad, tall,
                     restorer>>
      /\ display' = FALSE
  BY DEF HideModal, bodyVars
<1>2. /\ running' \in Seq(Callbacks) /\ drag # "outside"
      /\ \/ AllOf(running', {"hideModal"})
         \/ AllOf(running', {"shown"})
         \/ AllOf(running', OfBackdrop)
      /\ HidesRunning \in Nat /\ HidesRunning' \in Nat
      /\ HidesRunning' = HidesRunning - 1
      /\ ~OnlyShown
      /\ \A d : running = <<d>> => d = "hideModal"
  BY <1>1, RunsStep
<1>3. /\ pending \in [Nodes -> Seq(Callbacks)] /\ due \in [Nodes -> 0..2]
      /\ attached \subseteq Backdrops /\ opens \in Nat /\ opens <= MaxOpens
      /\ Len(pending[Element]) \in Nat
  BY NodeFacts DEF DialogInv, TypeOK
<1>4. Cardinality(attached) \in Nat
  BY <1>3, Finite
<1>5. Cardinality(attached) + Len(pending[Element]) + HidesRunning + 1 <= 2 * opens
  BY DEF DialogInv, Counted
<1>6. Cardinality(attached) < 2 * MaxOpens
  BY <1>2, <1>3, <1>4, <1>5, NodeFacts
<1>7. PICK n \in Backdrops \ attached :
         /\ backdrop' = n
         /\ attached' = attached \cup {n}
         /\ Cardinality(attached') = Cardinality(attached) + 1
         /\ pending' = [pending EXCEPT ![n] = <<"closed">>]
         /\ due' = [due EXCEPT ![n] = 1]
  BY <1>1, <1>6, NewBackdropStep
<1>8. /\ n \in Nodes /\ n # Element /\ n # Dialog
      /\ pending'[n] = <<"closed">>
      /\ \A o \in Nodes \ {n} : pending'[o] = pending[o]
      /\ pending' \in [Nodes -> Seq(Callbacks)] /\ due' \in [Nodes -> 0..2]
  BY <1>3, <1>7, NodeFacts DEF Callbacks
<1>9. TypeOK'
  BY <1>1, <1>2, <1>7, <1>8 DEF DialogInv, TypeOK
<1>10. Queues'
  <2>1. Queues /\ Backdrops \subseteq Nodes
    BY NodeFacts DEF DialogInv
  <2>2. AllOf(pending'[n], OfBackdrop)
    BY <1>8 DEF AllOf, OfBackdrop
  <2>3. \A o \in Backdrops : AllOf(pending'[o], OfBackdrop)
    BY <1>8, <2>1, <2>2 DEF Queues
  <2> QED
    BY <1>2, <1>8, <2>1, <2>3, NodeFacts DEF Queues
<1>11. Attachments'
  BY <1>7, <1>8, NodeFacts DEF DialogInv, Attachments
<1>12. Counted'
  <2>1. \A c, l, h, o \in Nat :
           c + l + h + 1 <= 2 * o => (c + 1) + l + (h - 1) + 1 <= 2 * o
    OBVIOUS
  <2>2. pending'[Element] = pending[Element]
    BY <1>8, NodeFacts
  <2>3. Cardinality(attached') + Len(pending'[Element]) + HidesRunning' + 1
           <= 2 * opens
    BY <1>2, <1>3, <1>4, <1>5, <1>7, <2>1, <2>2
  <2> QED
    BY <1>1, <2>3 DEF Counted
<1>13. Mouse'
  BY <1>1, <1>2 DEF DialogInv, Mouse
<1>14. Phases'
  <2>1. ~clean
    BY <1>2 DEF DialogInv, Phases, FadingIn, Opened, FadingOut, Removing, Gone,
                Coming
  <2> QED
    BY <1>1, <2>1 DEF Phases
<1> QED
  BY <1>9, <1>10, <1>11, <1>12, <1>13, <1>14 DEF DialogInv

(* hideModal() for a dialog that is to go: its backdrop is to fade out, or *)
(* there is none.                                                          *)
LEMMA HideModalInv ==
    ASSUME DialogInv, HideModal, ~isShown
    PROVE  DialogInv'
<1>1. /\ Runs("hideModal") /\ display' = FALSE
      /\ UNCHANGED <<isShown, inClass, trap, drag, ignoreBackdropClick, opens,
                     clean, backdrop, attached, originalBodyPad, tall,
                     clickTwice>>
  BY DEF HideModal, bodyVars, transitions, WhenClosed
<1>2. /\ running' \in Seq(Callbacks) /\ drag # "outside"
      /\ \/ AllOf(running', {"hideModal"})
         \/ AllOf(running', {"shown"})
         \/ AllOf(running', OfBackdrop)
      /\ HidesRunning \in Nat /\ HidesRunning' \in Nat
      /\ HidesRunning' = HidesRunning - 1
      /\ ~OnlyShown
      /\ \A d : running = <<d>> => d = "hideModal" /\ running' = <<>>
  BY <1>1, RunsStep
<1>3. /\ pending \in [Nodes -> Seq(Callbacks)] /\ due \in [Nodes -> 0..2]
      /\ attached \subseteq Backdrops /\ opens \in Nat
      /\ Len(pending[Element]) \in Nat
  BY NodeFacts DEF DialogInv, TypeOK
<1>4. Cardinality(attached) \in Nat
  BY <1>3, Finite
<1>5. \/ /\ backdrop # None /\ backdrop \in Backdrops
         /\ pending'[backdrop] = Append(pending[backdrop], "remove")
         /\ \A o \in Nodes \ {backdrop} : pending'[o] = pending[o]
         /\ pending' \in [Nodes -> Seq(Callbacks)] /\ due' \in [Nodes -> 0..2]
         /\ UNCHANGED <<modalOpen, padding, restorer>>
      \/ /\ backdrop = None
         /\ UNCHANGED <<pending, due>>
         /\ modalOpen' = FALSE /\ restorer' = FALSE /\ padding' \in Nat
  <2>1. CASE backdrop # None
    <3>1. backdrop \in Backdrops
      BY <2>1 DEF DialogInv, TypeOK
    <3>2. Await(pending, due, backdrop, "remove", 1)
          /\ UNCHANGED <<modalOpen, padding, restorer>>
      BY <2>1 DEF HideModal, bodyVars
    <3> QED
      BY <1>3, <2>1, <3>1, <3>2, NodeFacts DEF Await, Callbacks
  <2>2. CASE backdrop = None
    <3>1. WhenClosed /\ UNCHANGED <<pending, due>>
      BY <2>2 DEF HideModal, transitions
    <3> QED
      BY <2>2, <3>1 DEF WhenClosed, ResetScrollbar, DialogInv, TypeOK
  <2> QED
    BY <2>1, <2>2
<1>6. TypeOK'
  BY <1>1, <1>2, <1>3, <1>5 DEF DialogInv, TypeOK
<1>7. pending'[Element] = pending[Element] /\ pending'[Dialog] = pending[Dialog]
  BY <1>5, NodeFacts
<1>8. Queues'
  <2>1. \A o \in Backdrops : AllOf(pending'[o], OfBackdrop)
    <3>1. \A o \in Backdrops : AllOf(pending[o], OfBackdrop)
      BY DEF DialogInv, Queues
    <3>2. CASE backdrop = None
      BY <1>5, <3>1, <3>2
    <3>3. CASE backdrop # None
      <4>1. AllOf(pending'[backdrop], OfBackdrop)
        <5>1. /\ pending[backdrop] \in Seq(Callbacks)
              /\ AllOf(pending[backdrop], OfBackdrop)
              /\ pending'[backdrop] = Append(pending[backdrop], "remove")
          BY <1>3, <1>5, <3>1, <3>3, NodeFacts
        <5>2. "remove" \in Callbacks /\ "remove" \in OfBackdrop
          BY DEF Callbacks, OfBackdrop
        <5> QED
          BY <5>1, <5>2, AllOfAppend
      <4> QED
        BY <1>5, <3>1, <3>3, <4>1, NodeFacts
    <3> QED
      BY <3>2, <3>3
  <2> QED
    BY <1>2, <1>7, <2>1 DEF DialogInv, Queues
<1>9. Attachments'
  BY <1>1, <1>5, NodeFacts DEF DialogInv, Attachments
<1>10. Counted'
  <2>1. Cardinality(attached) + Len(pending[Element]) + HidesRunning <= 2 * opens
    BY <1>2, <1>3, <1>4 DEF DialogInv, Counted
  <2>2. Cardinality(attached) + Len(pending'[Element]) + HidesRunning' <= 2 * opens
    BY <1>2, <1>3, <1>4, <1>7, <2>1
  <2>3. HidesRunning' \in Nat /\ Len(pending'[Element]) \in Nat
    BY <1>2, <1>3, <1>7
  <2> QED
    BY <1>1, <1>4, <2>2, <2>3 DEF Counted
<1>11. Mouse'
  BY <1>1, <1>2 DEF DialogInv, Mouse
<1>12. Phases'
  <2> SUFFICES ASSUME clean
               PROVE  Removing'
    BY <1>1 DEF Phases, DialogInv
  <2>1. FadingOut /\ running = <<"hideModal">>
    BY <1>2 DEF DialogInv, Phases, FadingIn, Opened, FadingOut, Removing, Gone,
                Coming
  <2>2. pending[Element] = <<>> /\ pending[backdrop] = <<>> /\ backdrop # None
    BY <1>2, <2>1 DEF FadingOut, Coming, BackdropUp
  <2>3. pending'[backdrop] = <<"remove">>
    BY <1>5, <2>2
  <2>4. Coming(backdrop, "remove")'
    BY <1>1, <1>2, <2>1, <2>3 DEF Coming, OnlyShown, AllOf
  <2>5. BackdropUp'
    BY <1>1, <1>5, <2>1, <2>2 DEF FadingOut, BackdropUp
  <2> QED
    BY <1>1, <1>7, <2>1, <2>2, <2>4, <2>5 DEF FadingOut, Removing
<1> QED
  BY <1>6, <1>8, <1>9, <1>10, <1>11, <1>12 DEF DialogInv

LEMMA RemoveInv ==
    ASSUME DialogInv, Remove
    PROVE  DialogInv'
<1>1. /\ Runs("remove")
      /\ UNCHANGED <<isShown, display, inClass, trap, drag, ignoreBackdropClick,
                     clickTwice, opens, clean, originalBodyPad, tall>>
      /\ modalOpen' = FALSE /\ restorer' = FALSE /\ padding' = originalBodyPad
      /\ backdrop' = None /\ attached' = attached \ {backdrop}
  BY DEF Remove, RemoveBackdrop, WhenClosed, ResetScrollbar, elementVars, mouseVars
<1>2. /\ running' \in Seq(Callbacks) /\ drag # "outside"
      /\ \/ AllOf(running', {"hideModal"})
         \/ AllOf(running', {"shown"})
         \/ AllOf(running', OfBackdrop)
      /\ HidesRunning \in Nat
      /\ HidesRunning' = HidesRunning
      /\ ~OnlyShown
      /\ \A d : running = <<d>> => d = "remove" /\ running' = <<>>
  BY <1>1, RunsStep
<1>3. /\ pending \in [Nodes -> Seq(Callbacks)] /\ due \in [Nodes -> 0..2]
      /\ attached \subseteq Backdrops /\ opens \in Nat
      /\ Len(pending[Element]) \in Nat
      /\ backdrop \in Backdrops \cup {None}
      /\ originalBodyPad \in Nat
  BY NodeFacts DEF DialogInv, TypeOK
<1>4. /\ pending' \in [Nodes -> Seq(Callbacks)] /\ due' \in [Nodes -> 0..2]
      /\ \A o \in Nodes :
            pending'[o] = IF o = backdrop THEN <<>> ELSE pending[o]
  BY <1>3 DEF Remove, RemoveBackdrop
<1>5. pending'[Element] = pending[Element] /\ pending'[Dialog] = pending[Dialog]
  BY <1>3, <1>4, NodeFacts
<1>6. TypeOK'
  BY <1>1, <1>2, <1>3, <1>4 DEF DialogInv, TypeOK
<1>7. Queues'
  <2>1. \A o \in Backdrops : AllOf(pending'[o], OfBackdrop)
    <3>1. \A o \in Backdrops : AllOf(pending[o], OfBackdrop)
      BY DEF DialogInv, Queues
    <3>2. AllOf(<<>>, OfBackdrop)
      BY DEF AllOf
    <3> QED
      BY <1>4, <3>1, <3>2, NodeFacts
  <2> QED
    BY <1>2, <1>5, <2>1 DEF DialogInv, Queues
<1>8. Attachments'
  BY <1>1, <1>4, NodeFacts DEF DialogInv, Attachments
<1>9. Counted'
  <2>1. /\ Cardinality(attached) \in Nat /\ Cardinality(attached') \in Nat
        /\ Cardinality(attached') <= Cardinality(attached)
    <3>1. IsFiniteSet(attached) /\ Cardinality(attached) \in Nat
      BY <1>3, Finite
    <3>2. attached' \subseteq attached /\ attached' \subseteq Backdrops
      BY <1>1, <1>3
    <3> QED
      BY <3>1, <3>2, FS_Subset, Finite
  <2> DEFINE up == IF isShown THEN 1 ELSE 0
  <2>2. up \in Nat /\ up' = up
    BY <1>1
  <2>3. Cardinality(attached) + Len(pending[Element]) + HidesRunning + up <= 2 * opens
    BY DEF DialogInv, Counted
  <2> HIDE DEF up
  <2>4. Cardinality(attached') + Len(pending'[Element]) + HidesRunning' + up <= 2 * opens
    BY <1>2, <1>3, <1>5, <2>1, <2>2, <2>3
  <2> QED
    BY <1>1, <2>4 DEF Counted, up
<1>10. Mouse'
  BY <1>1, <1>2 DEF DialogInv, Mouse
<1>11. Phases'
  <2> SUFFICES ASSUME clean
               PROVE  Gone'
    BY <1>1 DEF Phases, DialogInv
  <2>1. Removing /\ running = <<"remove">>
    BY <1>2 DEF DialogInv, Phases, FadingIn, Opened, FadingOut, Removing, Gone,
                Coming
  <2>2. OnlyShown'
    BY <1>2, <2>1 DEF OnlyShown, AllOf
  <2>3. originalBodyPad = 0
    BY DEF DialogInv, Phases
  <2> QED
    BY <1>1, <1>5, <2>1, <2>2, <2>3 DEF Removing, BackdropUp, Gone
<1> QED
  BY <1>6, <1>7, <1>8, <1>9, <1>10, <1>11 DEF DialogInv

(* The second backdrop of a dialog that was shown again: never a clean one.*)
LEMMA ClosedInv ==
    ASSUME DialogInv, Closed
    PROVE  DialogInv'
<1>1. /\ Runs("closed")
      /\ UNCHANGED <<isShown, display, inClass, trap, backdrop, attached, pending,
                     due, drag, ignoreBackdropClick, clickTwice, opens, clean,
                     originalBodyPad, tall>>
      /\ modalOpen' = FALSE /\ restorer' = FALSE /\ padding' = originalBodyPad
  BY DEF Closed, WhenClosed, ResetScrollbar, elementVars, transitions, mouseVars
<1>2. /\ running' \in Seq(Callbacks) /\ drag # "outside"
      /\ \/ AllOf(running', {"hideModal"})
         \/ AllOf(running', {"shown"})
         \/ AllOf(running', OfBackdrop)
      /\ HidesRunning' = HidesRunning
      /\ ~OnlyShown
      /\ \A d : running = <<d>> => d = "closed"
  BY <1>1, RunsStep
<1>3. ~clean
  BY <1>2 DEF DialogInv, Phases, FadingIn, Opened, FadingOut, Removing, Gone,
              Coming
<1> QED
  BY <1>1, <1>2, <1>3
  DEF DialogInv, TypeOK, Queues, Attachments, Counted, Mouse, Phases

-----------------------------------------------------------------------------
(* The theorems *)

LEMMA DialogInit == Init => DialogInv
<1> SUFFICES ASSUME Init PROVE DialogInv
  OBVIOUS
<1>1. /\ \A n \in Nodes : pending[n] = <<>>
      /\ pending \in [Nodes -> Seq(Callbacks)] /\ due \in [Nodes -> 0..2]
  BY DEF Init
<1>2. \A S : AllOf(<<>>, S)
  BY DEF AllOf
<1>3. TypeOK
  <2>1. /\ backdrop \in Backdrops \cup {None} /\ attached \subseteq Backdrops
        /\ running \in Seq(Callbacks)
        /\ padding \in Nat /\ originalBodyPad \in Nat
        /\ opens \in 0..MaxOpens
    BY NodeFacts DEF Init
  <2>2. /\ isShown \in BOOLEAN /\ display \in BOOLEAN /\ inClass \in BOOLEAN
        /\ trap \in BOOLEAN /\ modalOpen \in BOOLEAN /\ tall \in BOOLEAN
        /\ drag \in {"none", "pressed", "outside"}
        /\ ignoreBackdropClick \in BOOLEAN /\ clickTwice \in BOOLEAN
        /\ restorer \in BOOLEAN /\ clean \in BOOLEAN
    BY DEF Init
  <2> QED
    BY <1>1, <2>1, <2>2, Zenon DEF TypeOK
<1>4. Queues /\ Attachments /\ Mouse
  BY <1>1, <1>2, NodeFacts DEF Init, Queues, Attachments, Mouse
<1>5. Counted
  <2>1. Cardinality(attached) = 0 /\ Len(pending[Element]) = 0 /\ HidesRunning = 0
    BY <1>1, NodeFacts, FS_EmptySet DEF Init, HidesRunning
  <2> QED
    BY <2>1 DEF Init, Counted
<1>6. Phases
  BY <1>1, <1>2, NodeFacts DEF Init, Phases, Gone, OnlyShown
<1> QED
  BY <1>3, <1>4, <1>5, <1>6 DEF DialogInv

LEMMA DialogStep ==
    ASSUME DialogInv, [Next]_vars
    PROVE  DialogInv'
<1>1. CASE User
  BY <1>1, UserInv
<1>2. CASE Script
  <2>1. CASE HideModal
    BY <2>1, HideModalAgainInv, HideModalInv DEF DialogInv, TypeOK
  <2> QED
    BY <1>2, <2>1, RevealInv, ShownInv, RemoveInv, ClosedInv DEF Script
<1>3. CASE Tick
  BY <1>3, TickInv
<1>4. CASE \E n \in Nodes : TransitionEnd(n) \/ EmulatedEnd(n)
  BY <1>4, DispatchInv DEF TransitionEnd, EmulatedEnd
<1>5. CASE UNCHANGED vars
  <2>1. UNCHANGED <<isShown, display, inClass, trap, backdrop, attached, pending,
                    due, running, modalOpen, padding, originalBodyPad, tall,
                    drag, ignoreBackdropClick, clickTwice, restorer, opens,
                    clean>>
    BY <1>5 DEF vars, elementVars, transitions, bodyVars, mouseVars
  <2> QED
    BY <2>1
    DEF DialogInv, TypeOK, Queues, Attachments, Counted, HidesRunning, Mouse,
        Phases, FadingIn, Opened, FadingOut, Removing, Gone, BackdropUp, Coming,
        OnlyShown
<1> QED
  BY <1>1, <1>2, <1>3, <1>4, <1>5 DEF Next

LEMMA DialogAlways == Spec => []DialogInv
BY DialogInit, DialogStep, PTL DEF Spec

(* However often the dialog is opened there is a node for the next         *)
(* backdrop, and every queue, timer and width keeps its type.              *)
THEOREM TypeCorrect == Spec => []TypeOK
<1>1. DialogInv => TypeOK
  BY DEF DialogInv
<1> QED
  BY <1>1, DialogAlways, PTL

(* From the click that opens it on a clean page until the page is free     *)
(* again, a dialog that is not closed before its backdrop has faded in     *)
(* goes through the phases of its opening and closing and no other state.  *)
THEOREM AlwaysInOrder == Spec => []InOrder
<1>1. DialogInv => InOrder
  <2> SUFFICES ASSUME DialogInv, clean
               PROVE  InOrder
    BY DEF InOrder
  <2>1. backdrop # None => backdrop \in Nodes
    BY NodeFacts DEF DialogInv, TypeOK
  <2>2. CASE FadingIn
    <3>1. pending[backdrop] # <<>> \/ running # <<>>
      BY <2>2 DEF FadingIn, Coming
    <3> QED
      BY <2>1, <2>2, <3>1 DEF FadingIn, BackdropUp, InOrder, Waits
  <2>3. CASE Opened
    BY <2>3 DEF Opened, BackdropUp, InOrder
  <2>4. CASE FadingOut \/ Removing
    BY <2>4 DEF FadingOut, Removing, BackdropUp, InOrder
  <2>5. CASE Gone
    BY <2>5 DEF Gone, InOrder
  <2> QED
    BY <2>2, <2>3, <2>4, <2>5 DEF DialogInv, Phases
<1> QED
  BY <1>1, DialogAlways, PTL

(* A click that ends a drag is not taken for one beside the dialog: the    *)
(* flag is set when the button is let go, and there is one handler for it. *)
THEOREM DragsKeepOpen == Spec => DragKeepsOpen
<1>1. DialogInv /\ [Next]_vars => [clean /\ drag = "outside" => isShown' = isShown]_vars
  <2> SUFFICES ASSUME DialogInv, Next, clean, drag = "outside"
               PROVE  isShown' = isShown
    BY DEF vars
  <2>1. running = <<>> /\ ignoreBackdropClick /\ ~clickTwice
    BY DEF DialogInv, Mouse, Phases
  <2>2. CASE User
    BY <2>1, <2>2
    DEF User, Click, Dismiss, Press, ReleaseInside, ReleaseOutside, NoClick,
        DragClick, ClickBackdrop, ElementClick, Idle, elementVars
  <2>3. ~Script
    BY <2>1 DEF Script, Reveal, Shown, HideModal, Remove, Closed, Runs
  <2>4. ~Tick /\ \A n \in Nodes : ~Dispatch(n)
    BY DEF Tick, Dispatch, Idle
  <2> QED
    BY <2>2, <2>3, <2>4 DEF Next, TransitionEnd, EmulatedEnd
<1> QED
  BY <1>1, DialogAlways, PTL DEF Spec, DragKeepsOpen
=============================================================================
