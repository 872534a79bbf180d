-------------------------- MODULE BookPage_proofs --------------------------
(***************************************************************************)
(* Proofs about BookPage, for any pages, versions and timeouts: types and  *)
(* the deadline of a page; then when a page always shows reviews, when it  *)
(* never does, that it shows no answer to an attempt it gave up, and how   *)
(* many calls it leaves running.                                           *)
(***************************************************************************)
EXTENDS BookPage, FiniteSetTheorems, TLAPS

LEMMA CallTypes ==
    /\ Failed \in Response
    /\ NoCall \in Call
    /\ Closed \in Call
<1>1. Failed \in Response
  BY DEF Failed, Response
<1>2. PICK v \in Versions : NoCall = [state |-> "none", version |-> v, age |-> 0,
                                    asked |-> 0, answer |-> Failed]
  BY PageAssumption DEF NoCall
<1>3. NoCall \in Call
  BY <1>1, <1>2 DEF Call
<1>4. Closed \in Call
  BY <1>1, <1>2 DEF Call, Closed
<1> QED
  BY <1>1, <1>3, <1>4

LEMMA MeshTypes ==
    ASSUME TypeOK
    PROVE  /\ mesh.routes \in Routes
           /\ mesh.routes \subseteq Versions
           /\ mesh.delay \in Nat
           /\ mesh.lag \in Nat
  BY PageAssumption DEF TypeOK

(* The parts of TypeOK a page's thread changes, before and after.          *)
LEMMA AskType ==
    ASSUME TypeOK, NEW p \in Pages, NEW r \in Rounds, NEW a \in Attempts,
           NEW others \in [CallIds -> Call],
           Ask(p, r, a, others), UNCHANGED <<mesh, ratings, elapsed>>
    PROVE  TypeOK'
<1>2. calls' \in [Pages -> [CallIds -> Call]] /\ linked' \in [Pages -> BOOLEAN]
  BY DEF TypeOK, Ask
<1>3. waited' \in [Pages -> 0..PageTimeout]
  BY PageAssumption DEF TypeOK, Ask
<1>4. /\ pc' \in [Pages -> {"idle", "details", "reviews", "done"}]
      /\ round' \in [Pages -> Rounds]
      /\ attempt' \in [Pages -> Attempts]
  BY DEF TypeOK, Ask
<1>5. /\ ratings' \in Nat
      /\ since' \in [Pages -> Nat]
      /\ shown' \in [Pages -> Response]
      /\ elapsed' \in [Pages -> Nat]
  BY DEF TypeOK, Ask
<1> QED
  BY <1>2, <1>3, <1>4, <1>5 DEF TypeOK

LEMMA EndRoundType ==
    ASSUME TypeOK, NEW p \in Pages, NEW response \in Response,
           NEW others \in [CallIds -> Call],
           EndRound(p, response, others), UNCHANGED <<mesh, ratings, elapsed>>
    PROVE  TypeOK'
<1>1. CASE round[p] <= FloodFactor
  <2>1. round[p] + 1 \in Rounds /\ 1 \in Attempts
    BY <1>1, PageAssumption DEF TypeOK, Rounds, Attempts
  <2>2. Ask(p, round[p] + 1, 1, others)
    BY <1>1 DEF EndRound
  <2> QED
    BY <2>1, <2>2, AskType
<1>2. CASE ~(round[p] <= FloodFactor)
  <2>1. /\ pc' = [pc EXCEPT ![p] = "done"]
        /\ shown' = [shown EXCEPT ![p] = response]
        /\ calls' = [calls EXCEPT ![p] = others]
        /\ linked' = [linked EXCEPT ![p] = FALSE]
        /\ waited' = [waited EXCEPT ![p] = 0]
        /\ UNCHANGED <<round, attempt, since>>
    BY <1>2 DEF EndRound
  <2>2. 0 \in 0..PageTimeout
    BY PageAssumption
  <2>3. /\ pc' \in [Pages -> {"idle", "details", "reviews", "done"}]
        /\ shown' \in [Pages -> Response]
        /\ calls' \in [Pages -> [CallIds -> Call]]
        /\ linked' \in [Pages -> BOOLEAN]
        /\ waited' \in [Pages -> 0..PageTimeout]
    BY <2>1, <2>2 DEF TypeOK
  <2> QED
    BY <2>1, <2>3 DEF TypeOK
<1> QED
  BY <1>1, <1>2

LEMMA RetryType ==
    ASSUME TypeOK, NEW p \in Pages, NEW others \in [CallIds -> Call],
           Retry(p, others), UNCHANGED <<mesh, ratings, elapsed>>
    PROVE  TypeOK'
<1>1. CASE attempt[p] = 1
  <2>1. round[p] \in Rounds /\ 2 \in Attempts
    BY DEF TypeOK, Attempts
  <2> QED
    BY <1>1, <2>1, AskType DEF Retry
<1>2. CASE attempt[p] # 1
  BY <1>2, CallTypes, EndRoundType DEF Retry
<1> QED
  BY <1>1, <1>2

LEMMA AnswerType ==
    ASSUME TypeOK, NEW p \in Pages, NEW c \in CallIds, NEW answer \in Response,
           Answer(p, c, answer)
    PROVE  TypeOK'
<1>1. calls' \in [Pages -> [CallIds -> Call]]
  <2>1. calls \in [Pages -> [CallIds -> Call]]
    BY DEF TypeOK
  <2>2. calls' = [calls EXCEPT ![p][c].state = "ready", ![p][c].answer = answer]
    BY DEF Answer
  <2>3. [calls[p][c] EXCEPT !.state = "ready", !.answer = answer] \in Call
    <3>1. calls[p][c] \in Call
      BY <2>1
    <3> QED
      BY <3>1 DEF Call
  <2>4. calls' = [calls EXCEPT ![p] = [calls[p] EXCEPT ![c] =
                     [calls[p][c] EXCEPT !.state = "ready", !.answer = answer]]]
    BY <2>1, <2>2
  <2> QED
    BY <2>1, <2>3, <2>4
<1> QED
  BY <1>1 DEF TypeOK, Answer

(* A connection that is made: productpage's, and reviews'.                 *)
LEMMA ConnectType ==
    ASSUME TypeOK, NEW p \in Pages, Connect(p)
    PROVE  TypeOK'
<1>1. linked' \in [Pages -> BOOLEAN] /\ waited' \in [Pages -> 0..PageTimeout]
  <2>1. linked' \in [Pages -> BOOLEAN]
    BY DEF TypeOK, Connect
  <2>2. waited' = [waited EXCEPT ![p] = 0]
    BY DEF Connect
  <2>3. 0 \in 0..PageTimeout
    BY PageAssumption
  <2> QED
    BY <2>1, <2>2, <2>3 DEF TypeOK
<1>2. calls' \in [Pages -> [CallIds -> Call]]
  <2>1. calls \in [Pages -> [CallIds -> Call]] /\ Current(p) \in CallIds
    BY DEF TypeOK, Current, CallIds
  <2>2. CASE pc[p] = "reviews"
    <3>1. PICK v \in mesh.routes :
             calls' = [calls EXCEPT ![p][Current(p)] =
                         [NoCall EXCEPT !.state = "dialing", !.version = v]]
      BY <2>2 DEF Connect
    <3>2. [NoCall EXCEPT !.state = "dialing", !.version = v] \in Call
      BY CallTypes, MeshTypes DEF Call
    <3> QED
      BY <2>1, <3>1, <3>2
  <2>3. CASE pc[p] # "reviews"
    BY <2>1, <2>3 DEF Connect
  <2> QED
    BY <2>2, <2>3
<1> QED
  BY <1>1, <1>2 DEF TypeOK, Connect

LEMMA DialType ==
    ASSUME TypeOK, NEW p \in Pages, NEW c \in CallIds, RatingsConnect(p, c)
    PROVE  TypeOK'
<1>1. calls' \in [Pages -> [CallIds -> Call]]
  <2>1. calls \in [Pages -> [CallIds -> Call]] /\ calls[p][c] \in Call
    BY DEF TypeOK
  <2>2. [calls[p][c] EXCEPT !.state = "asking", !.asked = calls[p][c].age] \in Call
    BY <2>1 DEF Call
  <2>3. calls' = [calls EXCEPT ![p] = [calls[p] EXCEPT ![c] =
                     [calls[p][c] EXCEPT !.state = "asking",
                                         !.asked = calls[p][c].age]]]
    BY <2>1 DEF RatingsConnect
  <2> QED
    BY <2>1, <2>2, <2>3
<1> QED
  BY <1>1 DEF TypeOK, RatingsConnect

(* A wait that has room for half a second is shorter than the timeout.     *)
LEMMA ShorterBounds ==
    ASSUME NEW a \in Nat, NEW b \in Nat
    PROVE  /\ Shorter(a, b) \in Nat
           /\ Shorter(a, b) <= a
           /\ Shorter(a, b) <= b
  BY DEF Shorter

LEMMA TickType ==
    ASSUME TypeOK, Tick
    PROVE  TypeOK'
<1>0. PageTimeout \in Nat /\ Shorter(mesh.lag, PageTimeout) \in 0..PageTimeout
  BY PageAssumption, MeshTypes, ShorterBounds
<1>1. waited' \in [Pages -> 0..PageTimeout]
  <2> SUFFICES ASSUME NEW p \in Pages
               PROVE  (IF Waiting(p) THEN waited[p] + 1 ELSE waited[p]) \in 0..PageTimeout
    BY DEF Tick
  <2>1. waited[p] \in 0..PageTimeout /\ MayTick(p)
    BY DEF TypeOK, Tick
  <2> QED
    BY <1>0, <2>1 DEF MayTick
<1>2. elapsed' \in [Pages -> Nat]
  BY DEF TypeOK, Tick
<1>3. calls' \in [Pages -> [CallIds -> Call]]
  <2>1. calls \in [Pages -> [CallIds -> Call]]
    BY DEF TypeOK
  <2>2. ASSUME NEW call \in Call
        PROVE  [call EXCEPT !.age = @ + 1] \in Call
    BY DEF Call
  <2> QED
    BY <2>1, <2>2 DEF Tick
<1> QED
  BY <1>1, <1>2, <1>3 DEF TypeOK, Tick

LEMMA PageNextType ==
    ASSUME TypeOK, NEW p \in Pages, PageNext(p)
    PROVE  TypeOK'
<1>0. /\ calls[p] \in [CallIds -> Call]
      /\ ratings \in Nat
      /\ round[p] \in Rounds
      /\ attempt[p] \in Attempts
  BY DEF TypeOK
<1>1. CASE Front(p)
  BY <1>1 DEF Front, TypeOK
<1>2. CASE Details(p)
  <2>1. 1 \in Rounds /\ 1 \in Attempts
    BY PageAssumption DEF Rounds, Attempts
  <2> QED
    BY <1>0, <1>2, <2>1, AskType DEF Details
<1>3. CASE ReviewsTimeout(p)
  BY <1>0, <1>3, RetryType DEF ReviewsTimeout
<1>4. CASE ReviewsFail(p)
  <2>1. [calls[p] EXCEPT ![Current(p)] = Closed] \in [CallIds -> Call]
    BY <1>0, CallTypes
  <2> QED
    BY <1>0, <1>4, <2>1, RetryType DEF ReviewsFail
<1>5. ASSUME NEW c \in CallIds, AnswerUnrated(p, c) \/ RatingsRefuse(p, c)
      PROVE  TypeOK'
  <2>1. [status |-> 200, stars |-> -1] \in Response
    BY DEF Response
  <2> QED
    BY <1>5, <2>1, AnswerType DEF AnswerUnrated, RatingsRefuse
<1>6. ASSUME NEW c \in CallIds, RatingsAnswer(p, c)
      PROVE  TypeOK'
  <2>1. PICK kind \in RatingsKinds :
           Answer(p, c, CASE kind = "stars" -> [status |-> 200, stars |-> ratings]
                          [] kind = "error" -> [status |-> 200, stars |-> -1]
                          [] kind = "malformed" -> Failed)
    BY <1>6 DEF RatingsAnswer
  <2>2. kind \in AnswerKinds
    BY PageAssumption
  <2>3. /\ [status |-> 200, stars |-> ratings] \in Response
        /\ [status |-> 200, stars |-> -1] \in Response
    BY <1>0 DEF Response
  <2>4. (CASE kind = "stars" -> [status |-> 200, stars |-> ratings]
           [] kind = "error" -> [status |-> 200, stars |-> -1]
           [] kind = "malformed" -> Failed) \in Response
    BY <2>2, <2>3, CallTypes DEF AnswerKinds
  <2> QED
    BY <2>1, <2>4, AnswerType
<1>7. ASSUME NEW c \in CallIds, RatingsGiveUp(p, c)
      PROVE  TypeOK'
  <2>1. [status |-> 200, stars |-> -1] \in Response
    BY DEF Response
  <2> QED
    BY <1>7, <2>1, AnswerType DEF RatingsGiveUp
<1>8. ASSUME NEW c \in CallIds, ReviewsAnswer(p, c)
      PROVE  TypeOK'
  <2> DEFINE others == [calls[p] EXCEPT ![c] = Closed]
  <2>1. others \in [CallIds -> Call]
    BY <1>0, CallTypes
  <2>2. calls[p][c].answer \in Response
    <3>1. calls[p][c] \in Call
      BY <1>0
    <3> QED
      BY <3>1 DEF Call
  <2>3. UNCHANGED <<mesh, ratings, elapsed>>
    BY <1>8 DEF ReviewsAnswer
  <2>4. \/ EndRound(p, calls[p][c].answer, others)
        \/ Retry(p, others)
        \/ /\ calls' = [calls EXCEPT ![p] = others]
           /\ UNCHANGED <<pc, round, attempt, linked, waited, since, shown>>
    BY <1>8 DEF ReviewsAnswer
  <2>5. CASE EndRound(p, calls[p][c].answer, others)
    BY <2>1, <2>2, <2>3, <2>5, EndRoundType
  <2>6. CASE Retry(p, others)
    BY <2>1, <2>3, <2>6, RetryType
  <2>7. CASE /\ calls' = [calls EXCEPT ![p] = others]
             /\ UNCHANGED <<pc, round, attempt, linked, waited, since, shown>>
    <3>1. calls' \in [Pages -> [CallIds -> Call]]
      BY <2>1, <2>7 DEF TypeOK
    <3> QED
      BY <2>3, <2>7, <3>1 DEF TypeOK
  <2> QED
    BY <2>4, <2>5, <2>6, <2>7
<1> QED
  BY <1>1, <1>2, <1>3, <1>4, <1>5, <1>6, <1>7, <1>8, ConnectType, DialType DEF PageNext

LEMMA InitType == Init => TypeOK
<1> SUFFICES ASSUME Init PROVE TypeOK
  OBVIOUS
<1>1. /\ 1 \in Rounds
      /\ 1 \in Attempts
      /\ 0 \in 0..PageTimeout
  BY PageAssumption DEF Rounds, Attempts
<1>2. calls \in [Pages -> [CallIds -> Call]]
  BY CallTypes DEF Init
<1>3. shown \in [Pages -> Response]
  BY CallTypes DEF Init
<1> QED
  BY <1>1, <1>2, <1>3 DEF Init, TypeOK

LEMMA NextType ==
    ASSUME TypeOK, [Next]_vars
    PROVE  TypeOK'
<1>1. CASE \E p \in Pages : PageNext(p)
  BY <1>1, PageNextType
<1>2. CASE PostRatings
  BY <1>2 DEF PostRatings, TypeOK
<1>3. CASE Tick
  BY <1>3, TickType
<1>4. CASE UNCHANGED vars
  BY <1>4 DEF vars, TypeOK
<1> QED
  BY <1>1, <1>2, <1>3, <1>4 DEF Next

(* Every variable keeps its type: in particular no thread makes a third    *)
(* attempt, no round follows the one that is shown, and nobody waits       *)
(* longer than the timeout of requests.get.                                *)
THEOREM TypeCorrect == Spec => []TypeOK
<1>1. TypeOK /\ [Next]_vars => TypeOK'
  BY NextType
<1> QED
  BY <1>1, InitType, PTL DEF Spec

-----------------------------------------------------------------------------
(* The VirtualServices and the connections stay what they are.             *)
LEMMA MeshFixed ==
    ASSUME [Next]_vars
    PROVE  mesh' = mesh
<1>1. ASSUME NEW p \in Pages, PageNext(p)
      PROVE  mesh' = mesh
  <2>1. Front(p) \/ Connect(p) \/ Details(p) \/ ReviewsTimeout(p) \/ ReviewsFail(p)
           => mesh' = mesh
    BY DEF Front, Connect, Details, ReviewsTimeout, ReviewsFail
  <2>2. ASSUME NEW c \in CallIds,
               \/ AnswerUnrated(p, c) \/ RatingsConnect(p, c) \/ RatingsRefuse(p, c)
               \/ RatingsAnswer(p, c) \/ RatingsGiveUp(p, c) \/ ReviewsAnswer(p, c)
        PROVE  mesh' = mesh
    BY <2>2 DEF AnswerUnrated, RatingsConnect, RatingsRefuse, RatingsAnswer,
                RatingsGiveUp, Answer, ReviewsAnswer
  <2> QED
    BY <1>1, <2>1, <2>2 DEF PageNext
<1> QED
  BY <1>1 DEF Next, PostRatings, Tick, vars

-----------------------------------------------------------------------------
(* The deadline.  An action of a page, told as what it does to the page's  *)
(* own clock: another request is begun, it is connected, the page is       *)
(* rendered, or its clock is left alone.                                   *)
SameClock(p) ==
    UNCHANGED <<pc[p], round[p], attempt[p], linked[p], waited[p], elapsed[p]>>

Linked(p) ==
    /\ pc[p] \in {"details", "reviews"}
    /\ ~linked[p] /\ linked'[p]
    /\ waited'[p] = 0
    /\ UNCHANGED <<pc[p], round[p], attempt[p], elapsed[p]>>

SentNext(p) ==
    /\ pc'[p] = "reviews"
    /\ ~linked'[p]
    /\ waited'[p] = 0
    /\ elapsed'[p] = elapsed[p]
    /\ \/ /\ pc[p] = "details"
          /\ round'[p] = 1 /\ attempt'[p] = 1
       \/ /\ pc[p] = "reviews"
          /\ attempt[p] = 1
          /\ round'[p] = round[p] /\ attempt'[p] = 2
       \/ /\ pc[p] = "reviews"
          /\ round[p] <= FloodFactor
          /\ round'[p] = round[p] + 1 /\ attempt'[p] = 1

Rendered(p) ==
    /\ pc[p] = "reviews"
    /\ round[p] > FloodFactor
    /\ pc'[p] = "done"
    /\ elapsed'[p] = elapsed[p]
    /\ waited'[p] = 0

Begun(p) ==
    /\ pc[p] = "idle"
    /\ pc'[p] = "details"
    /\ UNCHANGED <<linked[p], waited[p], elapsed[p]>>

ClockStep(p) ==
    SameClock(p) \/ Linked(p) \/ SentNext(p) \/ Rendered(p) \/ Begun(p)

LEMMA AskClock ==
    ASSUME TypeOK, NEW p \in Pages, NEW r, NEW a, NEW others,
           Ask(p, r, a, others)
    PROVE  /\ pc'[p] = "reviews"
           /\ ~linked'[p]
           /\ waited'[p] = 0
           /\ round'[p] = r
           /\ attempt'[p] = a
  BY DEF Ask, TypeOK

LEMMA EndRoundClock ==
    ASSUME TypeOK, NEW p \in Pages, NEW response, NEW others,
           pc[p] = "reviews",
           EndRound(p, response, others), UNCHANGED elapsed
    PROVE  ClockStep(p)
<1>1. CASE round[p] <= FloodFactor
  <2>1. Ask(p, round[p] + 1, 1, others)
    BY <1>1 DEF EndRound
  <2> QED
    BY <1>1, <2>1, AskClock DEF ClockStep, SentNext
<1>2. CASE ~(round[p] <= FloodFactor)
  <2>1. round[p] > FloodFactor
    BY <1>2, PageAssumption DEF TypeOK, Rounds
  <2> QED
    BY <1>2, <2>1 DEF EndRound, ClockStep, Rendered, TypeOK
<1> QED
  BY <1>1, <1>2

LEMMA RetryClock ==
    ASSUME TypeOK, NEW p \in Pages, NEW others,
           pc[p] = "reviews",
           Retry(p, others), UNCHANGED elapsed
    PROVE  ClockStep(p)
<1>1. CASE attempt[p] = 1
  <2>1. Ask(p, round[p], 2, others)
    BY <1>1 DEF Retry
  <2> QED
    BY <1>1, <2>1, AskClock DEF ClockStep, SentNext
<1>2. CASE attempt[p] # 1
  BY <1>2, EndRoundClock DEF Retry
<1> QED
  BY <1>1, <1>2

LEMMA PageNextClock ==
    ASSUME TypeOK, NEW p \in Pages, PageNext(p)
    PROVE  ClockStep(p)
<1>1. CASE Front(p)
  BY <1>1 DEF Front, ClockStep, Begun, TypeOK
<1>2. CASE Details(p)
  <2>1. Ask(p, 1, 1, calls[p]) /\ UNCHANGED elapsed
    BY <1>2 DEF Details
  <2> QED
    BY <1>2, <2>1, AskClock DEF Details, ClockStep, SentNext
<1>3. CASE ReviewsTimeout(p)
  BY <1>3, RetryClock DEF ReviewsTimeout
<1>4. CASE ReviewsFail(p)
  BY <1>4, RetryClock DEF ReviewsFail
<1>5. ASSUME NEW c \in CallIds,
             \/ AnswerUnrated(p, c) \/ RatingsConnect(p, c) \/ RatingsRefuse(p, c)
             \/ RatingsAnswer(p, c) \/ RatingsGiveUp(p, c)
      PROVE  ClockStep(p)
  <2>1. UNCHANGED <<pc, round, attempt, linked, waited, elapsed>>
    BY <1>5 DEF AnswerUnrated, RatingsConnect, RatingsRefuse, RatingsAnswer,
                RatingsGiveUp, Answer
  <2> QED
    BY <2>1 DEF ClockStep, SameClock
<1>6. ASSUME NEW c \in CallIds, ReviewsAnswer(p, c)
      PROVE  ClockStep(p)
  <2> DEFINE others == [calls[p] EXCEPT ![c] = Closed]
  <2>1. UNCHANGED elapsed
    BY <1>6 DEF ReviewsAnswer
  <2>2. \/ pc[p] = "reviews" /\ EndRound(p, calls[p][c].answer, others)
        \/ pc[p] = "reviews" /\ Retry(p, others)
        \/ UNCHANGED <<pc, round, attempt, linked, waited>>
    BY <1>6 DEF ReviewsAnswer, Listening
  <2>3. CASE pc[p] = "reviews" /\ EndRound(p, calls[p][c].answer, others)
    BY <2>1, <2>3, EndRoundClock
  <2>4. CASE pc[p] = "reviews" /\ Retry(p, others)
    BY <2>1, <2>4, RetryClock
  <2>5. CASE UNCHANGED <<pc, round, attempt, linked, waited>>
    BY <2>1, <2>5 DEF ClockStep, SameClock
  <2> QED
    BY <2>2, <2>3, <2>4, <2>5
<1>7. CASE Connect(p)
  BY <1>7 DEF Connect, ClockStep, Linked, TypeOK
<1> QED
  BY <1>1, <1>2, <1>3, <1>4, <1>5, <1>6, <1>7 DEF PageNext

(* The actions of one page leave the clocks of the others alone.           *)
LEMMA OtherClock ==
    ASSUME TypeOK, NEW p \in Pages, PageNext(p), NEW q \in Pages, q # p
    PROVE  SameClock(q)
<1>1. ASSUME NEW r, NEW a, NEW others, Ask(p, r, a, others), UNCHANGED elapsed
      PROVE  SameClock(q)
  BY <1>1 DEF Ask, SameClock, TypeOK
<1>2. ASSUME NEW response, NEW others,
             EndRound(p, response, others), UNCHANGED elapsed
      PROVE  SameClock(q)
  BY <1>1, <1>2 DEF EndRound, SameClock, TypeOK
<1>3. ASSUME NEW others, Retry(p, others), UNCHANGED elapsed
      PROVE  SameClock(q)
  BY <1>1, <1>2, <1>3 DEF Retry
<1>4. CASE Front(p) \/ Connect(p)
  BY <1>4 DEF Front, Connect, SameClock, TypeOK
<1>5. CASE Details(p) \/ ReviewsTimeout(p) \/ ReviewsFail(p)
  BY <1>1, <1>3, <1>5 DEF Details, ReviewsTimeout, ReviewsFail
<1>6. ASSUME NEW c \in CallIds,
             \/ AnswerUnrated(p, c) \/ RatingsConnect(p, c) \/ RatingsRefuse(p, c)
             \/ RatingsAnswer(p, c) \/ RatingsGiveUp(p, c)
      PROVE  SameClock(q)
  <2>1. UNCHANGED <<pc, round, attempt, linked, waited, elapsed>>
    BY <1>6 DEF AnswerUnrated, RatingsConnect, RatingsRefuse, RatingsAnswer,
                RatingsGiveUp, Answer
  <2> QED
    BY <2>1 DEF SameClock
<1>7. ASSUME NEW c \in CallIds, ReviewsAnswer(p, c)
      PROVE  SameClock(q)
  <2> DEFINE others == [calls[p] EXCEPT ![c] = Closed]
  <2>1. UNCHANGED elapsed
    BY <1>7 DEF ReviewsAnswer
  <2>2. \/ EndRound(p, calls[p][c].answer, others)
        \/ Retry(p, others)
        \/ UNCHANGED <<pc, round, attempt, linked, waited>>
    BY <1>7 DEF ReviewsAnswer
  <2>3. CASE UNCHANGED <<pc, round, attempt, linked, waited>>
    BY <2>1, <2>3 DEF SameClock
  <2> QED
    BY <1>2, <1>3, <2>1, <2>2, <2>3
<1> QED
  BY <1>4, <1>5, <1>6, <1>7 DEF PageNext

(* PageInTime is not inductive: it does not say how much of the time goes  *)
(* to the requests already given up, and to the connection of the current  *)
(* one.  Used(p) is the share of the former, Share(p) that of the latter.  *)
Used(p) == LongestRequest * (2 * round[p] + attempt[p] - 2)

Dialing == Shorter(mesh.lag, PageTimeout)

Share(p) == IF linked[p] THEN Dialing + waited[p] ELSE waited[p]

Deadline(p) ==
    /\ pc[p] = "idle" => elapsed[p] = 0 /\ waited[p] = 0
    /\ Waiting(p) /\ ~linked[p] => waited[p] <= Dialing
    /\ pc[p] = "details" => elapsed[p] <= Share(p)
    /\ pc[p] = "reviews" => elapsed[p] <= Used(p) + Share(p)
    /\ pc[p] = "done" => elapsed[p] <= LongestRequest * (2 * FloodFactor + 3)

Deadlines == \A p \in Pages : Deadline(p)

LEMMA TimesMonotone ==
    ASSUME NEW k \in Nat, NEW m \in Nat, NEW n \in Nat, m <= n
    PROVE  k * m <= k * n
  OBVIOUS

LEMMA TimesNext ==
    ASSUME NEW k \in Nat, NEW m \in Int
    PROVE  k * (m + 1) = k * m + k
  OBVIOUS

LEMMA RequestTypes ==
    ASSUME TypeOK
    PROVE  /\ PageTimeout \in Nat /\ Dialing \in Nat /\ LongestRequest \in Nat
           /\ Dialing <= PageTimeout /\ LongestRequest = PageTimeout + Dialing
<1>1. mesh.lag \in Nat /\ PageTimeout \in Nat
  BY PageAssumption, MeshTypes
<1> QED
  BY <1>1, ShorterBounds DEF Dialing, LongestRequest

LEMMA RequestFixed ==
    ASSUME mesh' = mesh
    PROVE  Dialing' = Dialing /\ LongestRequest' = LongestRequest
  BY DEF Dialing, LongestRequest

(* The current request takes no more than one may.                         *)
LEMMA ShareBound ==
    ASSUME TypeOK, NEW p \in Pages, Deadline(p), Waiting(p)
    PROVE  Share(p) \in Nat /\ Share(p) <= LongestRequest
<1>1. waited[p] \in 0..PageTimeout /\ linked[p] \in BOOLEAN
  BY DEF TypeOK
<1> QED
  BY <1>1, RequestTypes DEF Share, Deadline

LEMMA DeadlineReached ==
    ASSUME TypeOK, NEW p \in Pages, Deadline(p), pc[p] = "reviews"
    PROVE  elapsed[p] <= LongestRequest * (2 * round[p] + attempt[p] - 1)
<1>1. /\ elapsed[p] \in Nat /\ round[p] \in Nat /\ attempt[p] \in Nat
      /\ LongestRequest \in Nat
  BY PageAssumption, RequestTypes DEF TypeOK, Rounds, Attempts
<1>2. elapsed[p] <= Used(p) + LongestRequest
  <2>1. Share(p) \in Nat /\ Share(p) <= LongestRequest
    BY ShareBound DEF Waiting
  <2>2. Used(p) \in Int
    BY <1>1 DEF Used
  <2> QED
    BY <1>1, <2>1, <2>2 DEF Deadline
<1>3. Used(p) + LongestRequest = LongestRequest * (2 * round[p] + attempt[p] - 1)
  <2> DEFINE given == 2 * round[p] + attempt[p] - 2
  <2>1. given \in Int /\ given + 1 = 2 * round[p] + attempt[p] - 1
    BY <1>1
  <2>2. Used(p) = LongestRequest * given
    BY DEF Used
  <2>3. LongestRequest * (given + 1) = LongestRequest * given + LongestRequest
    <3> HIDE DEF given
    <3> QED
      BY <1>1, <2>1, TimesNext
  <2> QED
    BY <2>1, <2>2, <2>3
<1> QED
  BY <1>2, <1>3

LEMMA DeadlineStep ==
    ASSUME TypeOK, NEW p \in Pages, Deadline(p), ClockStep(p), mesh' = mesh
    PROVE  Deadline(p)'
<1>1. /\ elapsed[p] \in Nat /\ waited[p] \in 0..PageTimeout
      /\ round[p] \in 1..(FloodFactor + 1) /\ attempt[p] \in 1..2
      /\ FloodFactor \in Nat
  BY PageAssumption DEF TypeOK, Rounds, Attempts
<1>r. /\ PageTimeout \in Nat /\ Dialing \in Nat /\ LongestRequest \in Nat
      /\ Dialing' = Dialing /\ LongestRequest' = LongestRequest
  BY RequestTypes, RequestFixed
<1>2. CASE SameClock(p)
  BY <1>2, <1>r DEF SameClock, Deadline, Used, Share, Waiting
<1>L. CASE Linked(p)
  <2>1. waited[p] <= Dialing /\ Share(p) = waited[p] /\ Share(p)' = Dialing
    BY <1>1, <1>r, <1>L DEF Linked, Deadline, Share, Waiting
  <2>2. Used(p)' = Used(p) /\ Used(p) \in Int
    BY <1>1, <1>r, <1>L DEF Linked, Used
  <2> QED
    BY <1>1, <1>r, <1>L, <2>1, <2>2 DEF Linked, Deadline, Waiting
<1>3. CASE SentNext(p) /\ pc[p] = "details"
  <2>1. elapsed[p] <= LongestRequest
    <3>1. Share(p) \in Nat /\ Share(p) <= LongestRequest
      BY <1>3, ShareBound DEF Waiting
    <3> QED
      BY <1>1, <1>3, <1>r, <3>1 DEF Deadline
  <2>2. Used(p)' = LongestRequest /\ Share(p)' = 0
    BY <1>1, <1>3, <1>r DEF SentNext, Used, Share
  <2> QED
    BY <1>1, <1>3, <1>r, <2>1, <2>2 DEF SentNext, Deadline
<1>4. CASE SentNext(p) /\ pc[p] = "reviews"
  <2> DEFINE old == 2 * round[p] + attempt[p] - 1
             new == 2 * round'[p] + attempt'[p] - 2
  <2>1. old \in Nat /\ new \in Nat /\ old <= new
    BY <1>1, <1>4 DEF SentNext
  <2>2. LongestRequest * old <= LongestRequest * new
    BY <1>r, <2>1, TimesMonotone
  <2>3. elapsed[p] <= LongestRequest * old
    BY <1>4, DeadlineReached
  <2>4. Used(p)' = LongestRequest * new /\ Share(p)' = 0
    BY <1>4, <1>r DEF Used, Share, SentNext
  <2>5. LongestRequest * old \in Nat /\ LongestRequest * new \in Nat
    BY <1>r, <2>1
  <2> HIDE DEF old, new
  <2> QED
    BY <1>1, <1>4, <1>r, <2>2, <2>3, <2>4, <2>5 DEF SentNext, Deadline
<1>5. CASE Rendered(p)
  <2> DEFINE old == 2 * round[p] + attempt[p] - 1
             new == 2 * FloodFactor + 3
  <2>1. old \in Nat /\ new \in Nat /\ old <= new
    BY <1>1
  <2>2. LongestRequest * old <= LongestRequest * new
    BY <1>r, <2>1, TimesMonotone
  <2>3. elapsed[p] <= LongestRequest * old
    BY <1>5, DeadlineReached DEF Rendered
  <2>4. LongestRequest * old \in Nat /\ LongestRequest * new \in Nat
    BY <1>r, <2>1
  <2>5. elapsed'[p] <= LongestRequest * new
    <3> HIDE DEF old, new
    <3> QED
      BY <1>1, <1>5, <2>2, <2>3, <2>4 DEF Rendered
  <2> QED
    BY <1>5, <1>r, <2>5 DEF Rendered, Deadline, Waiting
<1>6. CASE Begun(p)
  BY <1>1, <1>6, <1>r DEF Begun, Deadline, Share, Waiting
<1> QED
  BY <1>2, <1>L, <1>3, <1>4, <1>5, <1>6 DEF ClockStep, SentNext

LEMMA DeadlineTick ==
    ASSUME TypeOK, Tick, NEW p \in Pages, Deadline(p)
    PROVE  Deadline(p)'
<1>1. /\ elapsed[p] \in Nat /\ waited[p] \in Nat
      /\ Used(p)' = Used(p)
      /\ pc' = pc /\ linked' = linked
      /\ Dialing' = Dialing /\ LongestRequest' = LongestRequest
  BY PageAssumption, RequestFixed DEF TypeOK, Tick, Used
<1>r. /\ PageTimeout \in Nat /\ Dialing \in Nat /\ LongestRequest \in Nat
  BY RequestTypes
<1>2. CASE Waiting(p)
  <2>1. elapsed'[p] = elapsed[p] + 1 /\ waited'[p] = waited[p] + 1
    BY <1>2 DEF Tick
  <2>2. Used(p) \in Int
    BY <1>r, PageAssumption DEF TypeOK, Used, Rounds, Attempts
  <2>3. Share(p) \in Nat /\ Share(p)' = Share(p) + 1
    BY <1>1, <1>r, <2>1 DEF Share
  <2>4. ~linked[p] => waited'[p] <= Dialing
    <3>1. MayTick(p)
      BY DEF Tick
    <3> QED
      BY <1>1, <1>r, <1>2, <2>1, <3>1 DEF MayTick, Dialing
  <2> QED
    BY <1>1, <1>2, <1>r, <2>1, <2>2, <2>3, <2>4 DEF Deadline, Waiting
<1>3. CASE ~Waiting(p)
  <2>1. elapsed'[p] = elapsed[p] /\ waited'[p] = waited[p]
    BY <1>3 DEF Tick
  <2> QED
    BY <1>1, <1>3, <2>1 DEF Deadline, Waiting
<1> QED
  BY <1>2, <1>3

LEMMA DeadlineGivesTime ==
    ASSUME TypeOK, Deadlines
    PROVE  PageInTime
<1> SUFFICES ASSUME NEW p \in Pages
             PROVE  elapsed[p] <= LongestRequest * (1 + 2 * (FloodFactor + 1))
  BY DEF PageInTime
<1>1. /\ elapsed[p] \in Nat
      /\ round[p] \in 1..(FloodFactor + 1) /\ attempt[p] \in 1..2
      /\ FloodFactor \in Nat /\ LongestRequest \in Nat
      /\ pc[p] \in {"idle", "details", "reviews", "done"}
      /\ Deadline(p)
  BY PageAssumption, RequestTypes DEF TypeOK, Rounds, Attempts, Deadlines
<1> DEFINE all == 2 * FloodFactor + 3
<1>2. all = 1 + 2 * (FloodFactor + 1) /\ all \in Nat /\ 1 <= all
  BY <1>1
<1>3. LongestRequest * 1 <= LongestRequest * all /\ LongestRequest * all \in Nat
  BY <1>1, <1>2, TimesMonotone
<1>4. CASE pc[p] = "reviews"
  <2> DEFINE old == 2 * round[p] + attempt[p] - 1
  <2>1. old \in Nat /\ old <= all
    BY <1>1
  <2>2. LongestRequest * old <= LongestRequest * all /\ LongestRequest * old \in Nat
    BY <1>1, <1>2, <2>1, TimesMonotone
  <2>3. elapsed[p] <= LongestRequest * old
    BY <1>1, <1>4, DeadlineReached
  <2> HIDE DEF old, all
  <2> QED
    BY <1>1, <1>2, <1>3, <2>2, <2>3
<1>5. CASE pc[p] # "reviews"
  <2>1. elapsed[p] <= LongestRequest \/ elapsed[p] <= LongestRequest * all
    <3>1. pc[p] = "details" => Share(p) \in Nat /\ Share(p) <= LongestRequest
      BY <1>1, ShareBound DEF Waiting
    <3> QED
      BY <1>1, <1>5, <3>1 DEF Deadline
  <2> HIDE DEF all
  <2> QED
    BY <1>1, <1>2, <1>3, <2>1
<1> QED
  BY <1>4, <1>5

(* A page is rendered, or still waiting, within the limits of its own      *)
(* requests, each up to its timeout for the answer after up to its timeout *)
(* for the connection, whatever the timeouts, the flood factor and the     *)
(* services are.                                                           *)
THEOREM PageInTimeAlways == Spec => []PageInTime
<1>1. Init => Deadlines
  <2> SUFFICES ASSUME Init, NEW p \in Pages PROVE Deadline(p)
    BY DEF Deadlines
  <2>1. pc[p] = "idle" /\ elapsed[p] = 0 /\ waited[p] = 0
    BY DEF Init
  <2> QED
    BY <2>1 DEF Deadline, Waiting
<1>2. ASSUME TypeOK, Deadlines, [Next]_vars
      PROVE  Deadlines'
  <2> SUFFICES ASSUME NEW q \in Pages PROVE Deadline(q)'
    BY DEF Deadlines
  <2>0. Deadline(q) /\ mesh' = mesh
    BY <1>2, MeshFixed DEF Deadlines
  <2>1. ASSUME NEW p \in Pages, PageNext(p)
        PROVE  ClockStep(q)
    BY <1>2, <2>1, PageNextClock, OtherClock DEF ClockStep
  <2>2. CASE PostRatings \/ UNCHANGED vars
    <3>1. SameClock(q)
      BY <2>2 DEF PostRatings, vars, SameClock
    <3> QED
      BY <1>2, <2>0, <3>1, DeadlineStep DEF ClockStep
  <2>3. CASE Tick
    BY <1>2, <2>0, <2>3, DeadlineTick
  <2>4. CASE \E p \in Pages : PageNext(p)
    BY <1>2, <2>0, <2>1, <2>4, DeadlineStep
  <2> QED
    BY <1>2, <2>2, <2>3, <2>4 DEF Next
<1>3. TypeOK /\ Deadlines => PageInTime
  BY DeadlineGivesTime
<1> QED
  BY <1>1, <1>2, <1>3, TypeCorrect, PTL DEF Spec

-----------------------------------------------------------------------------

(* What an action of a page does to its calls and to what it shows.        *)
SameShow(p) ==
    UNCHANGED <<pc[p], round[p], attempt[p], linked[p], waited[p], calls[p], shown[p]>>

OpenCall(call) ==
    /\ call \in Call
    /\ call.state = "dialing"
    /\ call.age = 0
    /\ call.version \in mesh.routes

LEMMA AskShow ==
    ASSUME TypeOK, NEW p \in Pages, NEW r, NEW a, NEW others, Ask(p, r, a, others)
    PROVE  /\ pc'[p] = "reviews"
           /\ ~linked'[p]
           /\ waited'[p] = 0
           /\ shown'[p] = shown[p]
           /\ calls'[p] = others
<1>1. pc'[p] = "reviews" /\ ~linked'[p] /\ waited'[p] = 0
  BY AskClock
<1> QED
  BY <1>1 DEF Ask, TypeOK

LEMMA ConnectShow ==
    ASSUME TypeOK, NEW p \in Pages, Connect(p)
    PROVE  /\ linked'[p] /\ ~linked[p] /\ waited'[p] = 0
           /\ UNCHANGED <<pc, round, attempt, shown, since, ratings>>
           /\ Current(p)' = Current(p) /\ Current(p) \in CallIds
           /\ pc[p] \in {"details", "reviews"}
           /\ IF pc[p] = "reviews"
              THEN \E call : /\ OpenCall(call)
                             /\ calls'[p] = [calls[p] EXCEPT ![Current(p)] = call]
              ELSE calls'[p] = calls[p]
<1>1. /\ linked'[p] /\ ~linked[p] /\ waited'[p] = 0
      /\ UNCHANGED <<pc, round, attempt, shown, since, ratings>>
      /\ pc[p] \in {"details", "reviews"}
  BY DEF Connect, TypeOK
<1>2. Current(p)' = Current(p) /\ Current(p) \in CallIds
  BY <1>1 DEF Current, CallIds, TypeOK
<1>3. CASE pc[p] = "reviews"
  <2>1. PICK v \in mesh.routes :
           calls' = [calls EXCEPT ![p][Current(p)] =
                       [NoCall EXCEPT !.state = "dialing", !.version = v]]
    BY <1>3 DEF Connect
  <2> DEFINE call == [NoCall EXCEPT !.state = "dialing", !.version = v]
  <2>2. OpenCall(call)
    BY CallTypes, MeshTypes DEF Call, OpenCall, NoCall
  <2>3. calls'[p] = [calls[p] EXCEPT ![Current(p)] = call]
    BY <2>1 DEF TypeOK
  <2> HIDE DEF call
  <2> QED
    BY <1>1, <1>2, <1>3, <2>2, <2>3
<1>4. CASE pc[p] # "reviews"
  BY <1>1, <1>2, <1>4 DEF Connect
<1> QED
  BY <1>3, <1>4

LEMMA DialShow ==
    ASSUME TypeOK, NEW p \in Pages, NEW c \in CallIds, RatingsConnect(p, c)
    PROVE  /\ \E call : /\ calls'[p] = [calls[p] EXCEPT ![c] = call]
                        /\ call.state = "asking"
                        /\ call.age = calls[p][c].age
                        /\ call.asked = calls[p][c].age
                        /\ call.version = calls[p][c].version
           /\ UNCHANGED <<pc, round, attempt, linked, waited, shown, since, ratings>>
           /\ Current(p)' = Current(p)
<1> DEFINE call == [calls[p][c] EXCEPT !.state = "asking", !.asked = calls[p][c].age]
<1>1. calls[p][c] \in Call
  BY DEF TypeOK
<1>2. calls'[p] = [calls[p] EXCEPT ![c] = call]
  BY DEF RatingsConnect, TypeOK
<1>3. /\ call.state = "asking" /\ call.age = calls[p][c].age
      /\ call.asked = calls[p][c].age /\ call.version = calls[p][c].version
  BY <1>1 DEF Call
<1>4. UNCHANGED <<pc, round, attempt, linked, waited, shown, since, ratings>>
  BY DEF RatingsConnect
<1>5. Current(p)' = Current(p)
  BY <1>4 DEF Current
<1> HIDE DEF call
<1> QED
  BY <1>2, <1>3, <1>4, <1>5

(* The actions of one page leave the others alone.                         *)
LEMMA OtherShow ==
    ASSUME TypeOK, NEW p \in Pages, PageNext(p), NEW q \in Pages, q # p
    PROVE  SameShow(q)
<1>0. UNCHANGED <<pc[q], round[q], attempt[q], linked[q], waited[q]>>
  BY OtherClock DEF SameClock
<1> DEFINE Same == calls'[q] = calls[q] /\ shown'[q] = shown[q]
<1>1. ASSUME NEW r, NEW a, NEW others, Ask(p, r, a, others)
      PROVE  Same
  <2>1. calls' = [calls EXCEPT ![p] = others] /\ shown' = shown
    BY <1>1 DEF Ask
  <2> QED
    BY <2>1 DEF TypeOK
<1>2. ASSUME NEW response, NEW others, EndRound(p, response, others)
      PROVE  Same
  <2>1. CASE round[p] <= FloodFactor
    BY <1>1, <1>2, <2>1 DEF EndRound
  <2>2. CASE ~(round[p] <= FloodFactor)
    BY <1>2, <2>2 DEF EndRound, TypeOK
  <2> QED
    BY <2>1, <2>2
<1>3. ASSUME NEW others, Retry(p, others)
      PROVE  Same
  BY <1>1, <1>2, <1>3 DEF Retry
<1>4. Front(p) \/ Connect(p) => Same
  BY DEF Front, Connect, TypeOK
<1>5. Details(p) \/ ReviewsTimeout(p) \/ ReviewsFail(p) => Same
  <2> HIDE DEF Same
  <2> QED
    BY <1>1, <1>3 DEF Details, ReviewsTimeout, ReviewsFail
<1>6. ASSUME NEW c \in CallIds,
             \/ AnswerUnrated(p, c) \/ RatingsRefuse(p, c)
             \/ RatingsAnswer(p, c) \/ RatingsGiveUp(p, c)
      PROVE  Same
  <2>1. PICK answer : Answer(p, c, answer)
    BY <1>6 DEF AnswerUnrated, RatingsRefuse, RatingsAnswer, RatingsGiveUp
  <2> QED
    BY <2>1 DEF Answer, TypeOK
<1>9. ASSUME NEW c \in CallIds, RatingsConnect(p, c)
      PROVE  Same
  BY <1>9 DEF RatingsConnect, TypeOK
<1>7. ASSUME NEW c \in CallIds, ReviewsAnswer(p, c)
      PROVE  Same
  <2> DEFINE others == [calls[p] EXCEPT ![c] = Closed]
  <2>1. \/ EndRound(p, calls[p][c].answer, others)
        \/ Retry(p, others)
        \/ calls' = [calls EXCEPT ![p] = others] /\ shown' = shown
    BY <1>7 DEF ReviewsAnswer
  <2>2. CASE calls' = [calls EXCEPT ![p] = others] /\ shown' = shown
    BY <2>2 DEF TypeOK
  <2> HIDE DEF Same
  <2> QED
    BY <1>2, <1>3, <2>1, <2>2
<1>8. Same
  <2> HIDE DEF Same
  <2> QED
    BY <1>4, <1>5, <1>6, <1>7, <1>9 DEF PageNext
<1> QED
  BY <1>0, <1>8 DEF SameShow

-----------------------------------------------------------------------------
(* Every call reviews works on was sent to a version that applies, and is  *)
(* no older than connecting to ratings and waiting for them may take it.   *)
Busy(call) == call.state \in {"dialing", "asking", "ready"}

Young(call) ==
    LET limit == RatingsTimeout[call.version]
    IN  IF call.version \in Rated
        THEN /\ call.age <= limit + Shorter(mesh.lag, limit)
             /\ call.state = "dialing" => call.age <= Shorter(mesh.lag, limit)
             /\ call.state = "asking" => /\ call.asked <= Shorter(mesh.lag, limit)
                                         /\ call.age <= call.asked + limit
        ELSE call.age = 0

Sent(call) == Busy(call) => call.version \in mesh.routes /\ Young(call)

Routed == \A p \in Pages : \A c \in CallIds : Sent(calls[p][c])

LEMMA LimitTypes ==
    ASSUME TypeOK, NEW v \in Rated
    PROVE  /\ RatingsTimeout[v] \in Nat
           /\ Shorter(mesh.lag, RatingsTimeout[v]) \in Nat
           /\ Shorter(mesh.lag, RatingsTimeout[v]) <= RatingsTimeout[v]
<1>1. RatingsTimeout[v] \in Nat /\ mesh.lag \in Nat
  BY PageAssumption, MeshTypes
<1> QED
  BY <1>1, ShorterBounds

LEMMA NewSent ==
    ASSUME TypeOK, NEW call, OpenCall(call)
    PROVE  Sent(call)
<1>1. call.version \in Rated => /\ RatingsTimeout[call.version] \in Nat
                                /\ Shorter(mesh.lag, RatingsTimeout[call.version]) \in Nat
  BY LimitTypes
<1> QED
  BY <1>1 DEF OpenCall, Sent, Young

LEMMA EndRoundRouted ==
    ASSUME TypeOK, NEW p \in Pages, NEW response,
           NEW others \in [CallIds -> Call], EndRound(p, response, others),
           \A c \in CallIds : Sent(others[c])
    PROVE  \A c \in CallIds : Sent(calls'[p][c])
<1>1. CASE round[p] <= FloodFactor
  <2>1. calls'[p] = others
    BY <1>1, AskShow DEF EndRound
  <2> QED
    BY <2>1
<1>2. CASE ~(round[p] <= FloodFactor)
  <2>1. calls'[p] = others
    BY <1>2 DEF EndRound, TypeOK
  <2> QED
    BY <2>1
<1> QED
  BY <1>1, <1>2

LEMMA RetryRouted ==
    ASSUME TypeOK, NEW p \in Pages, NEW others \in [CallIds -> Call],
           Retry(p, others), \A c \in CallIds : Sent(others[c])
    PROVE  \A c \in CallIds : Sent(calls'[p][c])
<1>1. CASE attempt[p] = 1
  <2>1. calls'[p] = others
    BY <1>1, AskShow DEF Retry
  <2> QED
    BY <2>1
<1>2. CASE attempt[p] # 1
  BY <1>2, EndRoundRouted DEF Retry
<1> QED
  BY <1>1, <1>2

LEMMA RoutedStep ==
    ASSUME TypeOK, Routed, NEW p \in Pages, PageNext(p)
    PROVE  \A c \in CallIds : Sent(calls'[p][c])
<1>0. /\ calls[p] \in [CallIds -> Call]
      /\ Closed \in Call /\ Sent(Closed)
      /\ \A c \in CallIds : Sent(calls[p][c])
  <2>1. Sent(Closed)
    BY DEF Sent, Busy, Closed, NoCall
  <2> QED
    BY <2>1, CallTypes DEF TypeOK, Routed
<1>1. CASE Front(p)
  BY <1>0, <1>1 DEF Front
<1>2. CASE Details(p)
  BY <1>0, <1>2, AskShow DEF Details
<1>3. CASE ReviewsTimeout(p)
  BY <1>0, <1>3, RetryRouted DEF ReviewsTimeout
<1>4. CASE ReviewsFail(p)
  <2> DEFINE others == [calls[p] EXCEPT ![Current(p)] = Closed]
  <2>1. others \in [CallIds -> Call] /\ \A c \in CallIds : Sent(others[c])
    BY <1>0
  <2>2. Retry(p, calls[p]) \/ Retry(p, others)
    BY <1>4 DEF ReviewsFail
  <2> HIDE DEF others
  <2> QED
    BY <1>0, <2>1, <2>2, RetryRouted
<1>5. ASSUME NEW c \in CallIds,
             \/ AnswerUnrated(p, c) \/ RatingsRefuse(p, c)
             \/ RatingsAnswer(p, c) \/ RatingsGiveUp(p, c)
      PROVE  \A d \in CallIds : Sent(calls'[p][d])
  <2>1. PICK answer : Answer(p, c, answer)
    BY <1>5 DEF AnswerUnrated, RatingsRefuse, RatingsAnswer, RatingsGiveUp
  <2>2. IsOpen(calls[p][c]) /\ Busy(calls[p][c])
    BY <1>5 DEF AnswerUnrated, RatingsRefuse, RatingsAnswer, RatingsGiveUp, IsOpen, Busy
  <2> DEFINE call == [calls[p][c] EXCEPT !.state = "ready", !.answer = answer]
  <2>3. calls'[p] = [calls[p] EXCEPT ![c] = call]
    BY <2>1 DEF Answer, TypeOK
  <2>4. Sent(call)
    <3>1. /\ call.version = calls[p][c].version /\ call.age = calls[p][c].age
          /\ call.state = "ready"
      BY <1>0 DEF Call
    <3>2. calls[p][c].version \in mesh.routes /\ Young(calls[p][c])
      BY <1>0, <2>2 DEF Sent
    <3> HIDE DEF call
    <3> QED
      BY <3>1, <3>2 DEF Sent, Young
  <2> HIDE DEF call
  <2> QED
    BY <1>0, <2>3, <2>4
<1>7. ASSUME NEW c \in CallIds, RatingsConnect(p, c)
      PROVE  \A d \in CallIds : Sent(calls'[p][d])
  <2>1. PICK call : /\ calls'[p] = [calls[p] EXCEPT ![c] = call]
                    /\ call.state = "asking"
                    /\ call.age = calls[p][c].age
                    /\ call.asked = calls[p][c].age
                    /\ call.version = calls[p][c].version
    BY <1>7, DialShow
  <2>2. /\ calls[p][c].version \in mesh.routes /\ Young(calls[p][c])
        /\ calls[p][c].state = "dialing" /\ calls[p][c].version \in Rated
        /\ calls[p][c].age \in Nat
    BY <1>0, <1>7 DEF Sent, Busy, RatingsConnect, Call
  <2>3. /\ RatingsTimeout[call.version] \in Nat
        /\ Shorter(mesh.lag, RatingsTimeout[call.version]) \in Nat
    BY <2>1, <2>2, LimitTypes
  <2>4. Sent(call)
    BY <2>1, <2>2, <2>3 DEF Sent, Young
  <2> QED
    BY <1>0, <2>1, <2>4
<1>8. CASE Connect(p)
  <2>1. CASE pc[p] = "reviews"
    <3>1. PICK call : /\ OpenCall(call)
                      /\ calls'[p] = [calls[p] EXCEPT ![Current(p)] = call]
      BY <1>8, <2>1, ConnectShow
    <3>2. Sent(call)
      BY <3>1, NewSent
    <3> QED
      BY <1>0, <3>1, <3>2
  <2>2. CASE pc[p] # "reviews"
    BY <1>0, <1>8, <2>2, ConnectShow
  <2> QED
    BY <2>1, <2>2
<1>6. ASSUME NEW c \in CallIds, ReviewsAnswer(p, c)
      PROVE  \A d \in CallIds : Sent(calls'[p][d])
  <2> DEFINE others == [calls[p] EXCEPT ![c] = Closed]
  <2>1. others \in [CallIds -> Call] /\ \A d \in CallIds : Sent(others[d])
    BY <1>0
  <2>2. \/ EndRound(p, calls[p][c].answer, others)
        \/ Retry(p, others)
        \/ calls' = [calls EXCEPT ![p] = others]
    BY <1>6 DEF ReviewsAnswer
  <2>3. CASE calls' = [calls EXCEPT ![p] = others]
    BY <2>1, <2>3 DEF TypeOK
  <2> HIDE DEF others
  <2> QED
    BY <2>1, <2>2, <2>3, EndRoundRouted, RetryRouted
<1> QED
  BY <1>1, <1>2, <1>3, <1>4, <1>5, <1>6, <1>7, <1>8 DEF PageNext

(* What half a second does to one call of a page that may tick.            *)
LEMMA TickCalls ==
    ASSUME TypeOK, Tick, NEW p \in Pages, NEW c \in CallIds
    PROVE  /\ calls[p][c].state # "ready"
           /\ calls'[p][c].state = calls[p][c].state
           /\ calls'[p][c].version = calls[p][c].version
           /\ calls'[p][c].asked = calls[p][c].asked
           /\ IsOpen(calls[p][c]) =>
                 /\ calls'[p][c].age = calls[p][c].age + 1
                 /\ calls[p][c].version \in Rated
                 /\ Spent(calls[p][c])
                      < IF calls[p][c].state = "asking"
                        THEN RatingsTimeout[calls[p][c].version]
                        ELSE Shorter(mesh.lag, RatingsTimeout[calls[p][c].version])
<1>1. calls[p][c] \in Call
  BY DEF TypeOK
<1>2. MayTick(p)
  BY DEF Tick
<1>3. calls'[p][c] = IF IsOpen(calls[p][c])
                     THEN [calls[p][c] EXCEPT !.age = @ + 1]
                     ELSE calls[p][c]
  BY DEF Tick, Open
<1>4. CASE IsOpen(calls[p][c])
  <2>1. calls'[p][c] = [calls[p][c] EXCEPT !.age = @ + 1]
    BY <1>3, <1>4
  <2>2. /\ calls[p][c].version \in Rated
        /\ Spent(calls[p][c])
             < IF calls[p][c].state = "asking"
               THEN RatingsTimeout[calls[p][c].version]
               ELSE Shorter(mesh.lag, RatingsTimeout[calls[p][c].version])
    BY <1>2, <1>4 DEF MayTick, Open
  <2>3. calls[p][c].state # "ready"
    BY <1>4 DEF IsOpen
  <2> QED
    BY <1>1, <2>1, <2>2, <2>3 DEF Call
<1>5. CASE ~IsOpen(calls[p][c])
  BY <1>2, <1>3, <1>5 DEF MayTick
<1> QED
  BY <1>4, <1>5

(* Half a second makes no call older than it may get.                      *)
LEMMA TickSent ==
    ASSUME TypeOK, Tick, NEW p \in Pages, NEW c \in CallIds, Sent(calls[p][c])
    PROVE  Sent(calls[p][c])'
<1> DEFINE call == calls[p][c]
           next == calls'[p][c]
<1>0. call \in Call /\ mesh' = mesh
  BY DEF TypeOK, Tick
<1>1. /\ call.state # "ready" /\ next.state = call.state
      /\ next.version = call.version /\ next.asked = call.asked
  BY TickCalls
<1>2. CASE IsOpen(call)
  <2> DEFINE limit == RatingsTimeout[call.version]
             lag == Shorter(mesh.lag, limit)
  <2>1. /\ next.age = call.age + 1 /\ call.version \in Rated
        /\ Spent(call) < IF call.state = "asking" THEN limit ELSE lag
    BY <1>2, TickCalls
  <2>2. limit \in Nat /\ lag \in Nat /\ lag <= limit
    BY <2>1, LimitTypes
  <2>3. call.version \in mesh.routes /\ Young(call)
    BY <1>2 DEF IsOpen, Sent, Busy
  <2>4. call.age \in Nat /\ call.asked \in Nat
    BY <1>0 DEF Call
  <2>5. CASE call.state = "asking"
    <3>1. call.age - call.asked < limit
      BY <2>1, <2>5 DEF Spent
    <3>2. call.asked <= lag
      BY <2>1, <2>3, <2>5 DEF Young
    <3>3. next.age <= next.asked + limit /\ next.age <= limit + lag /\ next.asked <= lag
      <4> HIDE DEF call, next, limit, lag
      <4> QED
        BY <1>1, <2>1, <2>2, <2>4, <3>1, <3>2
    <3> QED
      BY <1>0, <1>1, <2>1, <2>3, <2>5, <3>3 DEF Sent, Young
  <2>6. CASE call.state = "dialing"
    <3>1. call.age < lag
      BY <2>1, <2>6 DEF Spent
    <3>2. next.age <= lag /\ next.age <= limit + lag
      <4> HIDE DEF call, next, limit, lag
      <4> QED
        BY <1>1, <2>1, <2>2, <2>4, <3>1
    <3> QED
      BY <1>0, <1>1, <2>1, <2>3, <2>6, <3>2 DEF Sent, Young
  <2> QED
    BY <1>2, <2>5, <2>6 DEF IsOpen
<1>3. CASE ~IsOpen(call)
  BY <1>0, <1>1, <1>3 DEF Sent, Busy, IsOpen
<1> QED
  BY <1>2, <1>3

LEMMA AlwaysRouted == Spec => []Routed
<1>1. Init => Routed
  <2> SUFFICES ASSUME Init, NEW p \in Pages, NEW c \in CallIds
               PROVE  Sent(calls[p][c])
    BY DEF Routed
  <2>1. calls[p][c] = NoCall
    BY DEF Init
  <2> QED
    BY <2>1 DEF Sent, Busy, NoCall
<1>2. ASSUME TypeOK, Routed, [Next]_vars
      PROVE  Routed'
  <2> SUFFICES ASSUME NEW q \in Pages, NEW c \in CallIds
               PROVE  Sent(calls'[q][c])
    BY <1>2, MeshFixed DEF Routed, Sent, Young
  <2>0. Sent(calls[q][c])
    BY <1>2 DEF Routed
  <2>1. ASSUME NEW p \in Pages, PageNext(p)
        PROVE  Sent(calls'[q][c])
    <3>1. CASE p = q
      BY <1>2, <2>1, <3>1, RoutedStep
    <3>2. CASE p # q
      <4>1. SameShow(q)
        BY <1>2, <2>1, <3>2, OtherShow
      <4> QED
        BY <2>0, <4>1 DEF SameShow
    <3> QED
      BY <3>1, <3>2
  <2>2. CASE PostRatings \/ UNCHANGED vars
    BY <2>0, <2>2 DEF PostRatings, vars
  <2>3. CASE Tick
    BY <1>2, <2>0, <2>3, TickSent, MeshFixed DEF Sent, Young
  <2> QED
    BY <1>2, <2>1, <2>2, <2>3 DEF Next
<1> QED
  BY <1>1, <1>2, TypeCorrect, PTL DEF Spec

-----------------------------------------------------------------------------
(* Reviews is done with ratings before productpage gives up on reviews.    *)
RatingsFirst ==
    /\ mesh.lag < PageTimeout
    /\ \A v \in mesh.routes \cap Rated : LongestCall(v) < PageTimeout
    /\ "malformed" \notin RatingsKinds
    /\ ~ReviewsMayFail

Answering(call) == call.state = "ready" => call.answer.status = 200

InTime(call, time) == Busy(call) /\ call.age = time

Heard(p) ==
    /\ \A c \in CallIds : Answering(calls[p][c])
    /\ pc[p] = "idle" => waited[p] = 0
    /\ Waiting(p) /\ ~linked[p] => waited[p] <= mesh.lag
    /\ pc[p] = "reviews" /\ linked[p] => InTime(calls[p][Current(p)], waited[p])
    /\ pc[p] = "done" => shown[p].status = 200

LEMMA AskHeard ==
    ASSUME TypeOK, NEW p \in Pages, NEW r, NEW a, NEW others, Ask(p, r, a, others),
           mesh' = mesh, \A c \in CallIds : Answering(others[c])
    PROVE  Heard(p)'
<1>1. /\ pc'[p] = "reviews" /\ ~linked'[p] /\ waited'[p] = 0
      /\ calls'[p] = others
  BY AskShow
<1>2. 0 <= mesh.lag
  BY MeshTypes
<1> QED
  BY <1>1, <1>2 DEF Heard

LEMMA EndRoundHeard ==
    ASSUME TypeOK, NEW p \in Pages, NEW response \in Response,
           NEW others \in [CallIds -> Call], EndRound(p, response, others),
           mesh' = mesh, response.status = 200,
           \A c \in CallIds : Answering(others[c])
    PROVE  Heard(p)'
<1>1. CASE round[p] <= FloodFactor
  BY <1>1, AskHeard DEF EndRound
<1>2. CASE ~(round[p] <= FloodFactor)
  <2>1. pc'[p] = "done" /\ shown'[p] = response /\ calls'[p] = others
    BY <1>2 DEF EndRound, TypeOK
  <2> QED
    BY <2>1 DEF Heard, Waiting
<1> QED
  BY <1>1, <1>2

(* An answer that becomes known changes one call only.                     *)
LEMMA AnswerCalls ==
    ASSUME TypeOK, NEW p \in Pages, NEW c \in CallIds, NEW answer \in Response,
           Answer(p, c, answer)
    PROVE  /\ \E call : /\ calls'[p] = [calls[p] EXCEPT ![c] = call]
                        /\ call.state = "ready"
                        /\ call.answer = answer
                        /\ call.age = calls[p][c].age
                        /\ call.version = calls[p][c].version
           /\ UNCHANGED <<pc, round, attempt, linked, waited, shown, since, ratings>>
           /\ Current(p)' = Current(p)
<1> DEFINE call == [calls[p][c] EXCEPT !.state = "ready", !.answer = answer]
<1>1. calls[p][c] \in Call
  BY DEF TypeOK
<1>2. calls'[p] = [calls[p] EXCEPT ![c] = call]
  BY DEF Answer, TypeOK
<1>3. /\ call.state = "ready" /\ call.answer = answer
      /\ call.age = calls[p][c].age /\ call.version = calls[p][c].version
  BY <1>1 DEF Call
<1>4. UNCHANGED <<pc, round, attempt, linked, waited, shown, since, ratings>>
  BY DEF Answer
<1>5. Current(p)' = Current(p)
  BY <1>4 DEF Current
<1> HIDE DEF call
<1> QED
  BY <1>2, <1>3, <1>4, <1>5

(* A call that goes on, connected or with its answer, keeps its age.       *)
LEMMA GoesOnHeard ==
    ASSUME TypeOK, NEW p \in Pages, NEW c \in CallIds, Heard(p), NEW call,
           calls'[p] = [calls[p] EXCEPT ![c] = call],
           Busy(call), call.age = calls[p][c].age, Answering(call),
           UNCHANGED <<mesh, pc, linked, waited, shown>>, Current(p)' = Current(p)
    PROVE  Heard(p)'
<1>1. \A d \in CallIds : calls'[p][d] = IF d = c THEN call ELSE calls[p][d]
  BY DEF TypeOK
<1>2. \A d \in CallIds : Answering(calls'[p][d])
  BY <1>1 DEF Heard
<1>3. ASSUME pc[p] = "reviews", linked[p]
      PROVE  InTime(calls'[p][Current(p)], waited[p])
  <2>1. Current(p) \in CallIds
    BY DEF TypeOK, Current, CallIds
  <2> QED
    BY <1>1, <1>3, <2>1 DEF Heard, InTime
<1> QED
  BY <1>2, <1>3 DEF Heard, Waiting

LEMMA AnswerHeard ==
    ASSUME TypeOK, NEW p \in Pages, NEW c \in CallIds, NEW answer \in Response,
           Heard(p), Answer(p, c, answer), answer.status = 200
    PROVE  Heard(p)'
<1>0. PICK call : /\ calls'[p] = [calls[p] EXCEPT ![c] = call]
                  /\ call.state = "ready"
                  /\ call.answer = answer
                  /\ call.age = calls[p][c].age
                  /\ call.version = calls[p][c].version
  BY AnswerCalls
<1>1. /\ UNCHANGED <<mesh, pc, linked, waited, shown>> /\ Current(p)' = Current(p)
      /\ Busy(call) /\ Answering(call)
  BY <1>0, AnswerCalls DEF Answer, Busy, Answering
<1> QED
  BY <1>0, <1>1, GoesOnHeard

LEMMA HeardStep ==
    ASSUME RatingsFirst, TypeOK, Routed, NEW p \in Pages, Heard(p), PageNext(p)
    PROVE  Heard(p)'
<1>0. /\ calls[p] \in [CallIds -> Call]
      /\ Current(p) \in CallIds
      /\ calls[p][Current(p)] \in Call
      /\ Answering(Closed)
      /\ mesh' = mesh
  <2>1. calls[p] \in [CallIds -> Call] /\ Current(p) \in CallIds
    BY DEF TypeOK, Current, CallIds
  <2>2. Answering(Closed)
    BY CallTypes DEF Answering, Closed, NoCall
  <2>3. mesh' = mesh
    BY MeshFixed DEF Next
  <2> QED
    BY <2>1, <2>2, <2>3
<1>1. CASE Front(p)
  <2>1. pc'[p] = "details" /\ calls' = calls /\ waited' = waited /\ waited[p] = 0
    BY <1>1 DEF Front, TypeOK, Heard
  <2>2. 0 <= mesh.lag
    BY MeshTypes
  <2> QED
    BY <1>0, <2>1, <2>2 DEF Heard
<1>2. CASE Details(p)
  BY <1>0, <1>2, AskHeard DEF Details, Heard
<1>8. CASE Connect(p)
  <2>1. CASE pc[p] = "reviews"
    <3>1. PICK call : /\ OpenCall(call)
                      /\ calls'[p] = [calls[p] EXCEPT ![Current(p)] = call]
      BY <1>8, <2>1, ConnectShow
    <3>2. InTime(call, 0) /\ Answering(call)
      BY <3>1 DEF OpenCall, InTime, Busy, Answering
    <3>3. /\ linked'[p] /\ waited'[p] = 0 /\ pc'[p] = "reviews"
          /\ Current(p)' = Current(p)
      BY <1>8, <2>1, ConnectShow
    <3>4. calls'[p][Current(p)'] = call /\ \A c \in CallIds : Answering(calls'[p][c])
      BY <1>0, <3>1, <3>2, <3>3 DEF Heard
    <3> QED
      BY <3>2, <3>3, <3>4 DEF Heard
  <2>2. CASE pc[p] # "reviews"
    <3>1. /\ linked'[p] /\ pc'[p] = "details" /\ calls'[p] = calls[p]
      BY <1>8, <2>2, ConnectShow
    <3> QED
      BY <3>1 DEF Heard
  <2> QED
    BY <2>1, <2>2
<1>9. ASSUME NEW c \in CallIds, RatingsConnect(p, c)
      PROVE  Heard(p)'
  <2>1. PICK call : /\ calls'[p] = [calls[p] EXCEPT ![c] = call]
                    /\ call.state = "asking"
                    /\ call.age = calls[p][c].age
    BY <1>9, DialShow
  <2>2. UNCHANGED <<mesh, pc, linked, waited, shown>> /\ Current(p)' = Current(p)
    BY <1>0, <1>9, DialShow
  <2>3. Busy(call) /\ Answering(call)
    BY <2>1 DEF Busy, Answering
  <2> QED
    BY <2>1, <2>2, <2>3, GoesOnHeard
<1>3. ~ReviewsTimeout(p)
  <2> SUFFICES ASSUME pc[p] = "reviews", waited[p] = PageTimeout PROVE FALSE
    BY DEF ReviewsTimeout
  <2>0. PageTimeout \in Nat \ {0} /\ mesh.lag \in Nat /\ linked[p] \in BOOLEAN
    BY PageAssumption, MeshTypes DEF TypeOK
  <2>1. CASE ~linked[p]
    BY <2>0, <2>1 DEF Heard, Waiting, RatingsFirst
  <2>2. CASE linked[p]
    <3> DEFINE call == calls[p][Current(p)]
    <3>1. Busy(call) /\ call.age = PageTimeout
      BY <2>2 DEF Heard, InTime
    <3>2. call.version \in mesh.routes /\ Young(call)
      BY <1>0, <3>1 DEF Routed, Sent
    <3> HIDE DEF call
    <3>3. CASE call.version \in Rated
      <4>1. LongestCall(call.version) < PageTimeout /\ call.age <= LongestCall(call.version)
        BY <3>2, <3>3 DEF RatingsFirst, LongestCall, Young
      <4>2. LongestCall(call.version) \in Nat
        BY <3>3, LimitTypes DEF LongestCall
      <4> QED
        BY <2>0, <3>1, <4>1, <4>2
    <3>4. CASE call.version \notin Rated
      BY <2>0, <3>1, <3>2, <3>4 DEF Young
    <3> QED
      BY <3>3, <3>4
  <2> QED
    BY <2>0, <2>1, <2>2
<1>4. ~ReviewsFail(p)
  BY DEF RatingsFirst, ReviewsFail
<1>5. ASSUME NEW c \in CallIds,
             AnswerUnrated(p, c) \/ RatingsRefuse(p, c) \/ RatingsGiveUp(p, c)
      PROVE  Heard(p)'
  <2> DEFINE answer == [status |-> 200, stars |-> -1]
  <2>1. answer \in Response /\ answer.status = 200
    BY DEF Response
  <2>2. Answer(p, c, answer)
    BY <1>5 DEF AnswerUnrated, RatingsRefuse, RatingsGiveUp
  <2> HIDE DEF answer
  <2> QED
    BY <2>1, <2>2, AnswerHeard
<1>6. ASSUME NEW c \in CallIds, RatingsAnswer(p, c)
      PROVE  Heard(p)'
  <2>1. PICK kind \in RatingsKinds :
           Answer(p, c, CASE kind = "stars" -> [status |-> 200, stars |-> ratings]
                          [] kind = "error" -> [status |-> 200, stars |-> -1]
                          [] kind = "malformed" -> Failed)
    BY <1>6 DEF RatingsAnswer
  <2>2. kind \in {"stars", "error"}
    BY PageAssumption DEF RatingsFirst, AnswerKinds
  <2>3. PICK answer \in Response : answer.status = 200 /\ Answer(p, c, answer)
    <3>1. [status |-> 200, stars |-> ratings] \in Response
      BY DEF TypeOK, Response
    <3>2. [status |-> 200, stars |-> -1] \in Response
      BY DEF Response
    <3>3. CASE kind = "stars"
      BY <2>1, <3>1, <3>3
    <3>4. CASE kind = "error"
      BY <2>1, <3>2, <3>4
    <3> QED
      BY <2>2, <3>3, <3>4
  <2> QED
    BY <2>3, AnswerHeard
<1>7. ASSUME NEW c \in CallIds, ReviewsAnswer(p, c)
      PROVE  Heard(p)'
  <2> DEFINE others == [calls[p] EXCEPT ![c] = Closed]
  <2>1. others \in [CallIds -> Call] /\ \A d \in CallIds : Answering(others[d])
    BY <1>0, CallTypes DEF Heard
  <2>2. calls[p][c].state = "ready" /\ calls[p][c].answer.status = 200
    BY <1>7 DEF ReviewsAnswer, Heard, Answering
  <2>3. calls[p][c].answer \in Response
    <3>1. calls[p][c] \in Call
      BY <1>0
    <3> QED
      BY <3>1 DEF Call
  <2>4. \/ EndRound(p, calls[p][c].answer, others)
        \/ /\ ~Listening(p, c)
           /\ calls' = [calls EXCEPT ![p] = others]
           /\ UNCHANGED <<pc, round, attempt, linked, waited, shown>>
    BY <1>7, <2>2 DEF ReviewsAnswer
  <2>5. CASE EndRound(p, calls[p][c].answer, others)
    BY <1>0, <2>1, <2>2, <2>3, <2>5, EndRoundHeard
  <2>6. CASE /\ ~Listening(p, c)
             /\ calls' = [calls EXCEPT ![p] = others]
             /\ UNCHANGED <<pc, round, attempt, linked, waited, shown>>
    <3>1. calls'[p] = others /\ Current(p)' = Current(p)
      BY <2>6 DEF TypeOK, Current
    <3>2. pc[p] = "reviews" /\ linked[p] => others[Current(p)] = calls[p][Current(p)]
      BY <1>0, <2>6 DEF Listening
    <3>3. UNCHANGED <<mesh, pc, linked, waited, shown>>
      BY <1>0, <2>6
    <3> HIDE DEF others
    <3> QED
      BY <2>1, <3>1, <3>2, <3>3 DEF Heard, Waiting
  <2> QED
    BY <2>4, <2>5, <2>6
<1> QED
  BY <1>1, <1>2, <1>3, <1>4, <1>5, <1>6, <1>7, <1>8, <1>9 DEF PageNext

LEMMA TickClock ==
    ASSUME TypeOK, Tick, NEW p \in Pages
    PROVE  /\ UNCHANGED <<mesh, pc, round, attempt, linked, shown>>
           /\ Current(p)' = Current(p)
           /\ Current(p) \in CallIds
           /\ waited'[p] = IF Waiting(p) THEN waited[p] + 1 ELSE waited[p]
           /\ Waiting(p) =>
                 waited[p] < IF linked[p] THEN PageTimeout ELSE Shorter(mesh.lag, PageTimeout)
  BY DEF TypeOK, Tick, MayTick, Current, CallIds

LEMMA HeardTick ==
    ASSUME TypeOK, Tick, NEW p \in Pages, Heard(p)
    PROVE  Heard(p)'
<1>0. /\ UNCHANGED <<mesh, pc, linked, shown>> /\ Current(p)' = Current(p)
      /\ waited'[p] = IF Waiting(p) THEN waited[p] + 1 ELSE waited[p]
      /\ waited[p] \in Nat /\ mesh.lag \in Nat /\ PageTimeout \in Nat
  BY TickClock, MeshTypes, PageAssumption DEF TypeOK
<1>1. \A c \in CallIds : Answering(calls'[p][c])
  BY TickCalls DEF Answering
<1>2. ASSUME pc[p] = "reviews", linked[p]
      PROVE  InTime(calls'[p][Current(p)], waited'[p])
  <2> DEFINE call == calls[p][Current(p)]
             next == calls'[p][Current(p)]
  <2>1. Busy(call) /\ call.age = waited[p] /\ call.state # "ready"
    BY <1>2, TickCalls, TickClock DEF Heard, InTime
  <2>2. IsOpen(call)
    BY <2>1 DEF Busy, IsOpen
  <2>3. next.state = call.state /\ next.age = call.age + 1
    BY <2>2, TickCalls, TickClock
  <2>4. waited'[p] = waited[p] + 1
    BY <1>0, <1>2 DEF Waiting
  <2> HIDE DEF call, next
  <2>5. InTime(next, waited'[p])
    BY <2>1, <2>3, <2>4 DEF InTime, Busy
  <2> QED
    BY <2>5 DEF next
<1>3. Waiting(p) /\ ~linked[p] => waited'[p] <= mesh.lag
  <2> SUFFICES ASSUME Waiting(p), ~linked[p] PROVE waited'[p] <= mesh.lag
    OBVIOUS
  <2>1. waited[p] < Shorter(mesh.lag, PageTimeout)
    BY TickClock
  <2>2. Shorter(mesh.lag, PageTimeout) \in Nat /\ Shorter(mesh.lag, PageTimeout) <= mesh.lag
    BY <1>0, ShorterBounds
  <2>3. waited'[p] = waited[p] + 1
    BY <1>0
  <2> QED
    BY <1>0, <2>1, <2>2, <2>3
<1> QED
  BY <1>0, <1>1, <1>2, <1>3 DEF Heard, Waiting

(* Whenever reviews is done with ratings, its connection and its wait      *)
(* together, before productpage gives up on reviews, connections take less *)
(* than productpage's limit and no call fails, every page that is rendered *)
(* has its reviews, however slow ratings is.                               *)
THEOREM ReviewsShown == Spec => []ReviewsAlwaysShown
<1> DEFINE Inv == RatingsFirst => \A p \in Pages : Heard(p)
<1>1. Init => Inv
  <2> SUFFICES ASSUME Init, NEW p \in Pages PROVE Heard(p)
    OBVIOUS
  <2>1. \A c \in CallIds : calls[p][c] = NoCall
    BY DEF Init
  <2>2. pc[p] = "idle" /\ waited[p] = 0
    BY DEF Init
  <2>3. Answering(NoCall)
    BY DEF Answering, NoCall
  <2> QED
    BY <2>1, <2>2, <2>3 DEF Heard, Waiting
<1>2. ASSUME TypeOK, Routed, Inv, [Next]_vars
      PROVE  Inv'
  <2> SUFFICES ASSUME RatingsFirst, NEW q \in Pages PROVE Heard(q)'
    BY <1>2, MeshFixed DEF RatingsFirst, LongestCall
  <2>0. Heard(q) /\ mesh' = mesh
    BY <1>2, MeshFixed
  <2>1. ASSUME NEW p \in Pages, PageNext(p)
        PROVE  Heard(q)'
    <3>1. CASE p = q
      BY <1>2, <2>0, <2>1, <3>1, HeardStep
    <3>2. CASE p # q
      <4>1. SameShow(q)
        BY <1>2, <2>1, <3>2, OtherShow
      <4> QED
        BY <2>0, <4>1 DEF SameShow, Heard, Current, Waiting
    <3> QED
      BY <3>1, <3>2
  <2>2. CASE PostRatings \/ UNCHANGED vars
    BY <2>0, <2>2 DEF PostRatings, vars, Heard, Current, Waiting
  <2>3. CASE Tick
    BY <1>2, <2>0, <2>3, HeardTick
  <2> QED
    BY <1>2, <2>1, <2>2, <2>3 DEF Next
<1>3. Inv => ReviewsAlwaysShown
  BY DEF RatingsFirst, ReviewsAlwaysShown, Heard
<1> HIDE DEF Inv
<1> QED
  BY <1>1, <1>2, <1>3, TypeCorrect, AlwaysRouted, PTL DEF Spec

-----------------------------------------------------------------------------
(* Productpage gives up on reviews before ratings answers and before       *)
(* reviews gives up on ratings.                                            *)
PageFirst ==
    /\ mesh.delay > PageTimeout
    /\ \A v \in mesh.routes : v \in Rated /\ RatingsTimeout[v] > PageTimeout

Pending(call, time) == IsOpen(call) /\ call.age = time

Hidden(p) ==
    /\ "malformed" \notin RatingsKinds =>
          \A c \in CallIds : Answering(calls[p][c])
    /\ pc[p] = "reviews" /\ linked[p] => Pending(calls[p][Current(p)], waited[p])
    /\ shown[p] = Failed

LEMMA AskHidden ==
    ASSUME TypeOK, NEW p \in Pages, NEW r, NEW a, NEW others, Ask(p, r, a, others),
           Hidden(p),
           "malformed" \notin RatingsKinds =>
              \A c \in CallIds : Answering(others[c])
    PROVE  Hidden(p)'
<1>1. ~linked'[p] /\ shown'[p] = shown[p] /\ calls'[p] = others
  BY AskShow
<1> QED
  BY <1>1 DEF Hidden, Failed

LEMMA RetryHidden ==
    ASSUME TypeOK, NEW p \in Pages, NEW others, Retry(p, others),
           Hidden(p),
           "malformed" \notin RatingsKinds =>
              \A c \in CallIds : Answering(others[c])
    PROVE  Hidden(p)'
<1>1. CASE attempt[p] = 1 \/ round[p] <= FloodFactor
  <2>1. \E r, a : Ask(p, r, a, others)
    BY <1>1 DEF Retry, EndRound
  <2> QED
    BY <2>1, AskHidden
<1>3. CASE attempt[p] # 1 /\ ~(round[p] <= FloodFactor)
  <2>1. EndRound(p, Failed, others)
    BY <1>3 DEF Retry
  <2>2. pc'[p] = "done" /\ shown'[p] = Failed /\ calls'[p] = others
    BY <1>3, <2>1 DEF EndRound, TypeOK
  <2> QED
    BY <2>2 DEF Hidden, Failed
<1> QED
  BY <1>1, <1>3

(* A call that goes on without an answer keeps its age.                    *)
LEMMA GoesOnHidden ==
    ASSUME TypeOK, NEW p \in Pages, NEW c \in CallIds, Hidden(p),
           RatingsConnect(p, c)
    PROVE  Hidden(p)'
<1>0. PICK call : /\ calls'[p] = [calls[p] EXCEPT ![c] = call]
                  /\ call.state = "asking"
                  /\ call.age = calls[p][c].age
  BY DialShow
<1>1. UNCHANGED <<pc, linked, waited, shown>> /\ Current(p)' = Current(p)
  BY DialShow
<1>2. \A d \in CallIds : calls'[p][d] = IF d = c THEN call ELSE calls[p][d]
  BY <1>0 DEF TypeOK
<1>3. "malformed" \notin RatingsKinds =>
         \A d \in CallIds : Answering(calls'[p][d])
  BY <1>0, <1>2 DEF Hidden, Answering
<1>4. ASSUME pc[p] = "reviews", linked[p]
      PROVE  Pending(calls'[p][Current(p)], waited[p])
  <2>1. Current(p) \in CallIds
    BY DEF TypeOK, Current, CallIds
  <2> QED
    BY <1>0, <1>2, <1>4, <2>1 DEF Hidden, Pending, IsOpen
<1> QED
  BY <1>1, <1>3, <1>4 DEF Hidden, Failed

(* A call nobody waits for any more may get any answer.                    *)
LEMMA AnswerHidden ==
    ASSUME TypeOK, NEW p \in Pages, NEW c \in CallIds, NEW answer \in Response,
           Hidden(p), Answer(p, c, answer), ~Listening(p, c),
           "malformed" \notin RatingsKinds => answer.status = 200
    PROVE  Hidden(p)'
<1>0. PICK call : /\ calls'[p] = [calls[p] EXCEPT ![c] = call]
                  /\ call.state = "ready"
                  /\ call.answer = answer
  BY AnswerCalls
<1>1. UNCHANGED <<pc, linked, waited, shown>> /\ Current(p)' = Current(p)
  BY AnswerCalls
<1>2. \A d \in CallIds : calls'[p][d] = IF d = c THEN call ELSE calls[p][d]
  BY <1>0 DEF TypeOK
<1>3. "malformed" \notin RatingsKinds =>
         \A d \in CallIds : Answering(calls'[p][d])
  BY <1>0, <1>2 DEF Hidden, Answering
<1>4. Current(p) \in CallIds
  BY DEF TypeOK, Current, CallIds
<1>5. pc[p] = "reviews" /\ linked[p] => calls'[p][Current(p)] = calls[p][Current(p)]
  BY <1>2, <1>4 DEF Listening
<1> QED
  BY <1>1, <1>3, <1>5 DEF Hidden, Failed

LEMMA HiddenStep ==
    ASSUME PageFirst, TypeOK, Routed, NEW p \in Pages, Hidden(p), PageNext(p)
    PROVE  Hidden(p)'
<1>0. /\ calls[p] \in [CallIds -> Call]
      /\ Current(p) \in CallIds
      /\ Answering(Closed)
  <2>1. calls[p] \in [CallIds -> Call] /\ Current(p) \in CallIds
    BY DEF TypeOK, Current, CallIds
  <2>2. Answering(Closed)
    BY CallTypes DEF Answering, Closed, NoCall
  <2> QED
    BY <2>1, <2>2
<1>a. ASSUME NEW c \in CallIds, Listening(p, c)
      PROVE  /\ calls[p][c].state # "ready"
             /\ calls[p][c].version \in Rated
             /\ calls[p][c].age - calls[p][c].asked < mesh.delay
             /\ Spent(calls[p][c]) < RatingsTimeout[calls[p][c].version]
             /\ mesh.delay # 0
  <2> DEFINE call == calls[p][c]
  <2>1. call \in Call /\ waited[p] \in 0..PageTimeout /\ PageTimeout \in Nat
    BY PageAssumption DEF TypeOK
  <2>2. Pending(call, waited[p])
    BY <1>a DEF Hidden, Listening
  <2>3. call.version \in mesh.routes
    BY <2>2 DEF Pending, IsOpen, Routed, Sent, Busy
  <2>4. /\ call.version \in Rated
        /\ RatingsTimeout[call.version] > PageTimeout
        /\ mesh.delay > PageTimeout
    BY <2>3 DEF PageFirst
  <2>5. RatingsTimeout[call.version] \in Nat /\ mesh.delay \in Nat
    BY <2>4, PageAssumption, MeshTypes
  <2>6. call.age \in Nat /\ call.asked \in Nat
    BY <2>1 DEF Call
  <2>7. call.state # "ready" /\ call.age <= PageTimeout
    BY <2>1, <2>2 DEF Pending, IsOpen
  <2> HIDE DEF call
  <2>8. call.age - call.asked <= PageTimeout /\ call.age - call.asked \in Int
    BY <2>1, <2>6, <2>7
  <2>9. Spent(call) <= PageTimeout /\ Spent(call) \in Int
    BY <2>6, <2>7, <2>8 DEF Spent
  <2>10. call.age - call.asked < mesh.delay /\ mesh.delay # 0
    BY <2>1, <2>4, <2>5, <2>8
  <2>11. Spent(call) < RatingsTimeout[call.version]
    BY <2>1, <2>4, <2>5, <2>9
  <2> QED
    BY <2>4, <2>7, <2>10, <2>11 DEF call
<1>1. CASE Front(p)
  <2>1. pc'[p] = "details" /\ calls' = calls /\ shown' = shown
    BY <1>1 DEF Front, TypeOK
  <2> QED
    BY <2>1 DEF Hidden, Failed
<1>2. CASE Details(p)
  BY <1>0, <1>2, AskHidden DEF Details, Hidden
<1>3. CASE ReviewsTimeout(p)
  BY <1>0, <1>3, RetryHidden DEF ReviewsTimeout, Hidden
<1>8. CASE Connect(p)
  <2>1. CASE pc[p] = "reviews"
    <3>1. PICK call : /\ OpenCall(call)
                      /\ calls'[p] = [calls[p] EXCEPT ![Current(p)] = call]
      BY <1>8, <2>1, ConnectShow
    <3>2. Pending(call, 0) /\ Answering(call)
      BY <3>1 DEF OpenCall, Pending, IsOpen, Answering
    <3>3. /\ waited'[p] = 0 /\ shown' = shown /\ Current(p)' = Current(p)
      BY <1>8, ConnectShow
    <3>4. calls'[p][Current(p)'] = call
      BY <1>0, <3>1, <3>3
    <3>5. "malformed" \notin RatingsKinds =>
             \A d \in CallIds : Answering(calls'[p][d])
      BY <1>0, <3>1, <3>2 DEF Hidden
    <3> QED
      BY <3>2, <3>3, <3>4, <3>5 DEF Hidden, Failed
  <2>2. CASE pc[p] # "reviews"
    <3>1. /\ pc'[p] = "details" /\ calls'[p] = calls[p] /\ shown' = shown
      BY <1>8, <2>2, ConnectShow
    <3> QED
      BY <3>1 DEF Hidden, Failed
  <2> QED
    BY <2>1, <2>2
<1>9. ASSUME NEW c \in CallIds, RatingsConnect(p, c)
      PROVE  Hidden(p)'
  BY <1>9, GoesOnHidden
<1>4. CASE ReviewsFail(p)
  <2> DEFINE others == [calls[p] EXCEPT ![Current(p)] = Closed]
  <2>1. "malformed" \notin RatingsKinds =>
           \A d \in CallIds : Answering(others[d]) /\ Answering(calls[p][d])
    BY <1>0 DEF Hidden
  <2>2. Retry(p, calls[p]) \/ Retry(p, others)
    BY <1>4 DEF ReviewsFail
  <2> HIDE DEF others
  <2> QED
    BY <2>1, <2>2, RetryHidden
<1>5. ASSUME NEW c \in CallIds,
             AnswerUnrated(p, c) \/ RatingsRefuse(p, c) \/ RatingsGiveUp(p, c)
      PROVE  Hidden(p)'
  <2> DEFINE answer == [status |-> 200, stars |-> -1]
  <2>1. answer \in Response /\ answer.status = 200
    BY DEF Response
  <2>2. Answer(p, c, answer)
    BY <1>5 DEF AnswerUnrated, RatingsRefuse, RatingsGiveUp
  <2>3. ~Listening(p, c)
    <3> SUFFICES ASSUME Listening(p, c) PROVE FALSE
      OBVIOUS
    <3>1. /\ calls[p][c].version \in Rated /\ mesh.delay # 0
          /\ Spent(calls[p][c]) < RatingsTimeout[calls[p][c].version]
      BY <1>a
    <3>2. RatingsGiveUp(p, c)
      BY <1>5, <3>1 DEF AnswerUnrated, RatingsRefuse
    <3>3. RatingsTimeout[calls[p][c].version] \in Nat
      BY <3>1, LimitTypes
    <3> QED
      BY <3>1, <3>2, <3>3 DEF RatingsGiveUp
  <2> HIDE DEF answer
  <2> QED
    BY <2>1, <2>2, <2>3, AnswerHidden
<1>6. ASSUME NEW c \in CallIds, RatingsAnswer(p, c)
      PROVE  Hidden(p)'
  <2>0. ~Listening(p, c)
    <3> SUFFICES ASSUME Listening(p, c) PROVE FALSE
      OBVIOUS
    <3>1. calls[p][c].age - calls[p][c].asked < mesh.delay
      BY <1>a
    <3>2. calls[p][c].age - calls[p][c].asked >= mesh.delay
      BY <1>6 DEF RatingsAnswer
    <3>3. calls[p][c].age \in Nat /\ calls[p][c].asked \in Nat
      BY DEF TypeOK, Call
    <3> QED
      BY <3>1, <3>2, <3>3, MeshTypes
  <2>1. PICK kind \in RatingsKinds :
           Answer(p, c, CASE kind = "stars" -> [status |-> 200, stars |-> ratings]
                          [] kind = "error" -> [status |-> 200, stars |-> -1]
                          [] kind = "malformed" -> Failed)
    BY <1>6 DEF RatingsAnswer
  <2>2. kind \in {"stars", "error", "malformed"}
    BY PageAssumption DEF AnswerKinds
  <2>3. PICK answer \in Response :
           /\ "malformed" \notin RatingsKinds => answer.status = 200
           /\ Answer(p, c, answer)
    <3>1. [status |-> 200, stars |-> ratings] \in Response
      BY DEF TypeOK, Response
    <3>2. [status |-> 200, stars |-> -1] \in Response
      BY DEF Response
    <3>3. CASE kind = "stars"
      BY <2>1, <3>1, <3>3
    <3>4. CASE kind = "error"
      BY <2>1, <3>2, <3>4
    <3>5. CASE kind = "malformed"
      BY <2>1, <3>5, CallTypes
    <3> QED
      BY <2>2, <3>3, <3>4, <3>5
  <2> QED
    BY <2>0, <2>3, AnswerHidden
<1>7. ASSUME NEW c \in CallIds, ReviewsAnswer(p, c)
      PROVE  Hidden(p)'
  <2> DEFINE others == [calls[p] EXCEPT ![c] = Closed]
  <2>1. "malformed" \notin RatingsKinds => \A d \in CallIds : Answering(others[d])
    BY <1>0 DEF Hidden
  <2>2. ~Listening(p, c)
    BY <1>7, <1>a DEF ReviewsAnswer
  <2>3. /\ calls' = [calls EXCEPT ![p] = others]
        /\ UNCHANGED <<pc, round, attempt, linked, waited, shown>>
    BY <1>7, <2>2 DEF ReviewsAnswer
  <2>4. calls'[p] = others /\ Current(p)' = Current(p)
    BY <2>3 DEF TypeOK, Current
  <2>5. pc[p] = "reviews" /\ linked[p] => others[Current(p)] = calls[p][Current(p)]
    BY <1>0, <2>2 DEF Listening
  <2> HIDE DEF others
  <2> QED
    BY <2>1, <2>3, <2>4, <2>5 DEF Hidden, Failed
<1> QED
  BY <1>1, <1>2, <1>3, <1>4, <1>5, <1>6, <1>7, <1>8, <1>9 DEF PageNext

LEMMA HiddenTick ==
    ASSUME TypeOK, Tick, NEW p \in Pages, Hidden(p)
    PROVE  Hidden(p)'
<1>1. \A c \in CallIds : Answering(calls'[p][c])
  BY TickCalls DEF Answering
<1>2. ASSUME pc[p] = "reviews", linked[p]
      PROVE  Pending(calls'[p][Current(p)], waited'[p])
  <2>1. Pending(calls[p][Current(p)], waited[p])
    BY <1>2 DEF Hidden
  <2>2. /\ calls'[p][Current(p)].state = calls[p][Current(p)].state
        /\ calls'[p][Current(p)].age = calls[p][Current(p)].age + 1
    BY <2>1, TickCalls, TickClock DEF Pending
  <2>3. waited'[p] = waited[p] + 1
    BY <1>2, TickClock DEF Waiting
  <2> QED
    BY <2>1, <2>2, <2>3 DEF Pending, IsOpen
<1> QED
  BY <1>1, <1>2, TickClock DEF Hidden, Failed

(* When ratings needs longer than productpage waits for reviews, and so    *)
(* does reviews for ratings, no page ever shows reviews, however often it  *)
(* tries, although reviews answers every call with status 200.             *)
THEOREM DelayHides == Spec => []DelayHidesReviews
<1> DEFINE Inv == PageFirst => \A p \in Pages : Hidden(p)
<1>1. Init => Inv
  <2> SUFFICES ASSUME Init, NEW p \in Pages PROVE Hidden(p)
    OBVIOUS
  <2>1. \A c \in CallIds : calls[p][c] = NoCall
    BY DEF Init
  <2> QED
    BY <2>1, CallTypes DEF Init, Hidden, Answering, NoCall
<1>2. ASSUME TypeOK, Routed, Inv, [Next]_vars
      PROVE  Inv'
  <2> SUFFICES ASSUME PageFirst, NEW q \in Pages PROVE Hidden(q)'
    BY <1>2, MeshFixed DEF PageFirst
  <2>0. Hidden(q)
    BY <1>2
  <2>1. ASSUME NEW p \in Pages, PageNext(p)
        PROVE  Hidden(q)'
    <3>1. CASE p = q
      BY <1>2, <2>0, <2>1, <3>1, HiddenStep
    <3>2. CASE p # q
      <4>1. SameShow(q)
        BY <1>2, <2>1, <3>2, OtherShow
      <4> QED
        BY <2>0, <4>1 DEF SameShow, Hidden, Current, Failed
    <3> QED
      BY <3>1, <3>2
  <2>2. CASE PostRatings \/ UNCHANGED vars
    BY <2>0, <2>2 DEF PostRatings, vars, Hidden, Current, Failed
  <2>3. CASE Tick
    BY <1>2, <2>0, <2>3, HiddenTick
  <2> QED
    BY <1>2, <2>1, <2>2, <2>3 DEF Next
<1>3. Inv => DelayHidesReviews
  <2> SUFFICES ASSUME Inv, PageFirst, NEW p \in Pages
               PROVE  /\ pc[p] = "done" => shown[p].status = 500
                      /\ "malformed" \notin RatingsKinds =>
                            \A c \in CallIds : calls[p][c].state = "ready" =>
                               /\ calls[p][c].answer.status = 200
                               /\ ~Listening(p, c)
    BY DEF PageFirst, DelayHidesReviews
  <2>1. Hidden(p)
    OBVIOUS
  <2>2. shown[p].status = 500
    BY <2>1 DEF Hidden, Failed
  <2>3. ASSUME NEW c \in CallIds, calls[p][c].state = "ready", Listening(p, c)
        PROVE  FALSE
    BY <2>1, <2>3 DEF Hidden, Pending, IsOpen, Listening
  <2> QED
    BY <2>1, <2>2, <2>3 DEF Hidden, Answering
<1> HIDE DEF Inv
<1> QED
  BY <1>1, <1>2, <1>3, TypeCorrect, AlwaysRouted, PTL DEF Spec

-----------------------------------------------------------------------------
(* ShownFresh is not inductive: it says nothing of the answer that is      *)
(* ready to be sent to the attempt which waits for it.                     *)
New(answer, time) == answer.stars = -1 \/ answer.stars >= time

Fresh(p) ==
    /\ since[p] <= ratings
    /\ (Listening(p, Current(p)) /\ calls[p][Current(p)].state = "ready")
          => New(calls[p][Current(p)].answer, since[p])
    /\ pc[p] = "done" => New(shown[p], since[p])

(* A page leaves the ratings alone, and when the others' attempts began.   *)
LEMMA SinceStep ==
    ASSUME TypeOK, NEW p \in Pages, PageNext(p), NEW q \in Pages, q # p
    PROVE  ratings' = ratings /\ since'[q] = since[q]
<1> DEFINE Same == since'[q] = since[q]
<1>1. ASSUME NEW r, NEW a, NEW others, Ask(p, r, a, others)
      PROVE  Same
  BY <1>1 DEF Ask, TypeOK
<1>2. ASSUME NEW response, NEW others, EndRound(p, response, others)
      PROVE  Same
  BY <1>1, <1>2 DEF EndRound
<1>3. ASSUME NEW others, Retry(p, others)
      PROVE  Same
  BY <1>1, <1>2, <1>3 DEF Retry
<1>4. ASSUME NEW c \in CallIds, ReviewsAnswer(p, c)
      PROVE  Same /\ ratings' = ratings
  <2> HIDE DEF Same
  <2>1. \/ \E others : Retry(p, others)
        \/ \E response, others : EndRound(p, response, others)
        \/ since' = since
    BY <1>4 DEF ReviewsAnswer
  <2>2. since' = since => Same
    BY DEF Same
  <2> QED
    BY <1>2, <1>3, <1>4, <2>1, <2>2 DEF ReviewsAnswer
<1>5. ASSUME NEW c \in CallIds,
             RatingsConnect(p, c) \/ AnswerUnrated(p, c) \/ RatingsRefuse(p, c)
                \/ RatingsAnswer(p, c) \/ RatingsGiveUp(p, c)
      PROVE  Same /\ ratings' = ratings
  BY <1>5 DEF RatingsConnect, AnswerUnrated, RatingsRefuse, RatingsAnswer, RatingsGiveUp,
              Answer
<1>6. Front(p) \/ Connect(p) => Same /\ ratings' = ratings
  BY DEF Front, Connect
<1>7. Details(p) \/ ReviewsTimeout(p) \/ ReviewsFail(p) => Same /\ ratings' = ratings
  <2> HIDE DEF Same
  <2> QED
    BY <1>1, <1>3 DEF Details, ReviewsTimeout, ReviewsFail
<1> HIDE DEF Same
<1>8. Same /\ ratings' = ratings
  BY <1>4, <1>5, <1>6, <1>7 DEF PageNext
<1> QED
  BY <1>8 DEF Same

LEMMA AskFresh ==
    ASSUME TypeOK, NEW p \in Pages, NEW r, NEW a, NEW others, Ask(p, r, a, others),
           ratings' = ratings
    PROVE  Fresh(p)'
<1>1. pc'[p] = "reviews" /\ ~linked'[p]
  BY AskShow
<1>2. since'[p] = ratings /\ ratings \in Nat
  BY DEF Ask, TypeOK
<1> QED
  BY <1>1, <1>2 DEF Fresh, Listening

LEMMA EndRoundFresh ==
    ASSUME TypeOK, NEW p \in Pages, NEW response \in Response,
           NEW others \in [CallIds -> Call], EndRound(p, response, others),
           ratings' = ratings, since[p] <= ratings, New(response, since[p])
    PROVE  Fresh(p)'
<1>1. CASE round[p] <= FloodFactor
  BY <1>1, AskFresh DEF EndRound
<1>2. CASE ~(round[p] <= FloodFactor)
  <2>1. pc'[p] = "done" /\ shown'[p] = response /\ since' = since
    BY <1>2 DEF EndRound, TypeOK
  <2> QED
    BY <2>1 DEF Fresh, Listening
<1> QED
  BY <1>1, <1>2

LEMMA RetryFresh ==
    ASSUME TypeOK, NEW p \in Pages, NEW others \in [CallIds -> Call],
           Retry(p, others), ratings' = ratings, since[p] <= ratings
    PROVE  Fresh(p)'
<1>1. CASE attempt[p] = 1
  BY <1>1, AskFresh DEF Retry
<1>2. CASE attempt[p] # 1
  <2>1. EndRound(p, Failed, others)
    BY <1>2 DEF Retry
  <2>2. Failed \in Response /\ New(Failed, since[p])
    BY DEF Failed, Response, New
  <2> QED
    BY <2>1, <2>2, EndRoundFresh
<1> QED
  BY <1>1, <1>2

LEMMA FreshStep ==
    ASSUME TypeOK, NEW p \in Pages, Fresh(p), PageNext(p)
    PROVE  Fresh(p)'
<1>0. /\ calls[p] \in [CallIds -> Call] /\ Current(p) \in CallIds
      /\ Closed \in Call
      /\ since[p] <= ratings /\ since[p] \in Nat /\ ratings \in Nat
  <2>1. calls[p] \in [CallIds -> Call] /\ Current(p) \in CallIds
    BY DEF TypeOK, Current, CallIds
  <2> QED
    BY <2>1, CallTypes DEF TypeOK, Fresh
<1>1. CASE Front(p)
  <2>1. pc'[p] = "details" /\ UNCHANGED <<since, ratings>>
    BY <1>1 DEF Front, TypeOK
  <2> QED
    BY <1>0, <2>1 DEF Fresh, Listening
<1>7. CASE Connect(p)
  <2>1. /\ UNCHANGED <<pc, shown, since, ratings>> /\ pc[p] \in {"details", "reviews"}
        /\ Current(p)' = Current(p)
    BY <1>7, ConnectShow
  <2>2. pc[p] = "reviews" => calls'[p][Current(p)].state = "dialing"
    <3> SUFFICES ASSUME pc[p] = "reviews"
                 PROVE  calls'[p][Current(p)].state = "dialing"
      OBVIOUS
    <3>1. PICK call : /\ OpenCall(call)
                      /\ calls'[p] = [calls[p] EXCEPT ![Current(p)] = call]
      BY <1>7, ConnectShow
    <3> QED
      BY <1>0, <3>1 DEF OpenCall
  <2> QED
    BY <1>0, <2>1, <2>2 DEF Fresh, Listening
<1>8. ASSUME NEW c \in CallIds, RatingsConnect(p, c)
      PROVE  Fresh(p)'
  <2>1. PICK call : /\ calls'[p] = [calls[p] EXCEPT ![c] = call]
                    /\ call.state = "asking"
    BY <1>8, DialShow
  <2>2. /\ UNCHANGED <<pc, linked, shown, since, ratings>>
        /\ Current(p)' = Current(p)
    BY <1>8, DialShow
  <2>3. calls'[p][Current(p)].state = "ready"
           => calls'[p][Current(p)] = calls[p][Current(p)]
    BY <1>0, <2>1
  <2>4. calls'[p][Current(p)'] = calls'[p][Current(p)]
    BY <2>2
  <2>5. (Listening(p, Current(p)) /\ calls[p][Current(p)].state = "ready")'
           => Listening(p, Current(p)) /\ calls[p][Current(p)].state = "ready"
    BY <2>2, <2>3, <2>4 DEF Listening
  <2> QED
    BY <1>0, <2>2, <2>3, <2>4, <2>5 DEF Fresh
<1>2. CASE Details(p)
  BY <1>0, <1>2, AskFresh DEF Details
<1>3. CASE ReviewsTimeout(p)
  BY <1>0, <1>3, RetryFresh DEF ReviewsTimeout
<1>4. CASE ReviewsFail(p)
  <2>1. [calls[p] EXCEPT ![Current(p)] = Closed] \in [CallIds -> Call]
    BY <1>0
  <2> QED
    BY <1>0, <1>4, <2>1, RetryFresh DEF ReviewsFail
<1>5. ASSUME NEW c \in CallIds,
             \/ AnswerUnrated(p, c) \/ RatingsRefuse(p, c)
             \/ RatingsAnswer(p, c) \/ RatingsGiveUp(p, c)
      PROVE  Fresh(p)'
  <2>1. PICK answer \in Response : /\ answer.stars \in {-1, ratings}
                                   /\ Answer(p, c, answer)
    <3> DEFINE none == [status |-> 200, stars |-> -1]
               stars == [status |-> 200, stars |-> ratings]
    <3>1. /\ none \in Response /\ none.stars = -1
          /\ stars \in Response /\ stars.stars = ratings
          /\ Failed \in Response /\ Failed.stars = -1
      BY <1>0 DEF Response, Failed
    <3>2. Answer(p, c, none) \/ Answer(p, c, stars) \/ Answer(p, c, Failed)
      <4>1. CASE AnswerUnrated(p, c) \/ RatingsRefuse(p, c) \/ RatingsGiveUp(p, c)
        BY <4>1 DEF AnswerUnrated, RatingsRefuse, RatingsGiveUp
      <4>2. CASE RatingsAnswer(p, c)
        <5> HIDE DEF none, stars
        <5>1. PICK kind \in RatingsKinds :
                 Answer(p, c, CASE kind = "stars" -> stars
                                [] kind = "error" -> none
                                [] kind = "malformed" -> Failed)
          BY <4>2 DEF RatingsAnswer, none, stars
        <5>2. kind \in {"stars", "error", "malformed"}
          BY PageAssumption DEF AnswerKinds
        <5> QED
          BY <5>1, <5>2
      <4> QED
        BY <1>5, <4>1, <4>2
    <3> HIDE DEF none, stars
    <3> QED
      BY <3>1, <3>2
  <2>2. PICK call : /\ calls'[p] = [calls[p] EXCEPT ![c] = call]
                    /\ call.answer = answer
    BY <2>1, AnswerCalls
  <2>3. UNCHANGED <<pc, linked, shown, since, ratings>> /\ Current(p)' = Current(p)
    BY <2>1 DEF Answer, Current
  <2>4. New(answer, since[p])
    BY <1>0, <2>1 DEF New
  <2>5. CASE Current(p) = c
    <3>1. calls'[p][Current(p)].answer = answer
      BY <1>0, <2>2, <2>5
    <3> QED
      BY <1>0, <2>3, <2>4, <3>1 DEF Fresh, Listening
  <2>6. CASE Current(p) # c
    <3>1. calls'[p][Current(p)] = calls[p][Current(p)]
      BY <1>0, <2>2, <2>6
    <3> QED
      BY <1>0, <2>3, <3>1 DEF Fresh, Listening
  <2> QED
    BY <2>5, <2>6
<1>6. ASSUME NEW c \in CallIds, ReviewsAnswer(p, c)
      PROVE  Fresh(p)'
  <2> DEFINE others == [calls[p] EXCEPT ![c] = Closed]
             answer == calls[p][c].answer
  <2>1. others \in [CallIds -> Call] /\ answer \in Response /\ ratings' = ratings
    <3>1. calls[p][c] \in Call
      BY <1>0
    <3> QED
      BY <1>0, <1>6, <3>1 DEF Call, ReviewsAnswer
  <2>2. CASE Listening(p, c)
    <3>0. c = Current(p)
      BY <2>2 DEF Listening
    <3>1. New(answer, since[p])
      BY <1>6, <2>2, <3>0 DEF ReviewsAnswer, Fresh
    <3>2. EndRound(p, answer, others) \/ Retry(p, others)
      BY <1>6, <2>2 DEF ReviewsAnswer
    <3> HIDE DEF others, answer
    <3> QED
      BY <1>0, <2>1, <3>1, <3>2, EndRoundFresh, RetryFresh
  <2>3. CASE ~Listening(p, c)
    <3>1. /\ calls'[p] = others /\ Current(p)' = Current(p)
          /\ UNCHANGED <<pc, linked, shown, since>>
      BY <1>6, <2>3 DEF ReviewsAnswer, TypeOK, Current
    <3>2. Listening(p, Current(p)) => others[Current(p)] = calls[p][Current(p)]
      BY <1>0, <2>3 DEF Listening
    <3> HIDE DEF others
    <3> QED
      BY <1>0, <2>1, <3>1, <3>2 DEF Fresh, Listening
  <2> QED
    BY <2>2, <2>3
<1> QED
  BY <1>1, <1>2, <1>3, <1>4, <1>5, <1>6, <1>7, <1>8 DEF PageNext

(* The stars a page shows are no older than the attempt they were asked    *)
(* for with, for any timeouts, versions, floods and ratings.               *)
THEOREM AlwaysFresh == Spec => []ShownFresh
<1> DEFINE Inv == \A p \in Pages : Fresh(p)
<1>1. Init => Inv
  BY DEF Init, Fresh, Listening
<1>2. ASSUME TypeOK, Inv, [Next]_vars
      PROVE  Inv'
  <2> SUFFICES ASSUME NEW q \in Pages PROVE Fresh(q)'
    OBVIOUS
  <2>0. Fresh(q) /\ since[q] \in Nat /\ ratings \in Nat
    BY <1>2 DEF TypeOK
  <2>1. ASSUME NEW p \in Pages, PageNext(p)
        PROVE  Fresh(q)'
    <3>1. CASE p = q
      BY <1>2, <2>0, <2>1, <3>1, FreshStep
    <3>2. CASE p # q
      <4>1. SameShow(q) /\ ratings' = ratings /\ since'[q] = since[q]
        BY <1>2, <2>1, <3>2, OtherShow, SinceStep
      <4> QED
        BY <2>0, <4>1 DEF SameShow, Fresh, Listening, Current
    <3> QED
      BY <3>1, <3>2
  <2>2. CASE PostRatings
    <3>1. /\ UNCHANGED <<pc, linked, calls, shown, since>> /\ Current(q)' = Current(q)
          /\ ratings' = ratings + 1
      BY <2>2 DEF PostRatings, Current
    <3> QED
      BY <2>0, <3>1 DEF Fresh, Listening
  <2>3. CASE Tick
    <3>1. /\ UNCHANGED <<pc, shown, since, ratings>> /\ Current(q)' = Current(q)
          /\ Current(q) \in CallIds
      BY <1>2, <2>3, TickClock DEF Tick
    <3>2. calls'[q][Current(q)].state # "ready"
      BY <1>2, <2>3, <3>1, TickCalls
    <3> QED
      BY <2>0, <3>1, <3>2 DEF Fresh
  <2>4. CASE UNCHANGED vars
    BY <2>0, <2>4 DEF vars, Fresh, Listening, Current
  <2> QED
    BY <1>2, <2>1, <2>2, <2>3, <2>4 DEF Next
<1>3. TypeOK /\ Inv => ShownFresh
  <2> SUFFICES ASSUME TypeOK, Inv, NEW p \in Pages, pc[p] = "done",
                      shown[p].stars # -1
               PROVE  shown[p].stars >= since[p]
    BY DEF ShownFresh
  <2> QED
    BY DEF Fresh, New
<1> HIDE DEF Inv
<1> QED
  BY <1>1, <1>2, <1>3, TypeCorrect, PTL DEF Spec

-----------------------------------------------------------------------------
(* The calls of a page that reviews works on were made one page timeout    *)
(* after the other, and none is older than the longest life of a call.     *)
Apart(call, other) ==
    \/ call.age >= other.age + PageTimeout
    \/ other.age >= call.age + PageTimeout

Placed(p, c) ==
    /\ pc[p] \in {"reviews", "done"}
    /\ pc[p] = "reviews" =>
          IF linked[p] /\ c = Current(p)
          THEN calls[p][c].age = waited[p]
          ELSE calls[p][c].age >= waited[p] + PageTimeout

Spaced(p) ==
    /\ \A c \in CallIds : IsOpen(calls[p][c]) => Placed(p, c)
    /\ \A c, d \in CallIds :
          c # d /\ IsOpen(calls[p][c]) /\ IsOpen(calls[p][d])
             => Apart(calls[p][c], calls[p][d])

(* What is left of the calls when an attempt is over: all are that old.    *)
Left(p, others) ==
    /\ others \in [CallIds -> Call]
    /\ \A c \in CallIds : IsOpen(others[c]) => PageTimeout <= others[c].age
    /\ \A c, d \in CallIds :
          c # d /\ IsOpen(others[c]) /\ IsOpen(others[d])
             => Apart(others[c], others[d])

LEMMA Longest ==
    ASSUME TypeOK
    PROVE  /\ LongestRatings \in Nat
           /\ \A v \in mesh.routes \cap Rated : RatingsTimeout[v] <= LongestRatings
<1> DEFINE versions == mesh.routes \cap Rated
           times == {RatingsTimeout[v] : v \in versions}
           Bound(t) == \A u \in times : u <= t
<1>1. LongestRatings = IF times = {} THEN 0 ELSE CHOOSE t \in times : Bound(t)
  BY DEF LongestRatings
<1>2. times \subseteq Nat
  BY PageAssumption
<1>3. CASE versions = {}
  <2>1. times = {}
    BY <1>3
  <2> QED
    BY <1>1, <1>3, <2>1
<1>4. CASE versions # {}
  <2>1. PICK v \in versions : \A w \in versions : RatingsTimeout[w] <= RatingsTimeout[v]
    BY <1>4, MeshTypes, PageAssumption
  <2>2. RatingsTimeout[v] \in times /\ Bound(RatingsTimeout[v])
    BY <2>1
  <2>3. \A w \in versions : RatingsTimeout[w] \in times
    OBVIOUS
  <2> HIDE DEF times, versions
  <2>4. LongestRatings \in times /\ Bound(LongestRatings)
    BY <1>1, <2>2
  <2>5. \A w \in versions : RatingsTimeout[w] <= LongestRatings
    BY <2>3, <2>4
  <2> QED
    BY <1>2, <2>4, <2>5 DEF versions
<1> QED
  BY <1>3, <1>4

LEMMA ShorterMonotone ==
    ASSUME NEW lag \in Nat, NEW a \in Nat, NEW b \in Nat, a <= b
    PROVE  /\ Shorter(lag, a) \in Nat
           /\ Shorter(lag, b) \in Nat
           /\ Shorter(lag, a) <= Shorter(lag, b)
  BY DEF Shorter

LEMMA LifeType ==
    ASSUME TypeOK
    PROVE  LongestLife \in Nat
<1>1. LongestRatings \in Nat /\ mesh.lag \in Nat
  BY Longest, MeshTypes
<1> DEFINE lag == Shorter(mesh.lag, LongestRatings)
<1>2. lag \in Nat
  BY <1>1, ShorterBounds
<1>3. LongestLife = LongestRatings + lag
  BY DEF LongestLife
<1> HIDE DEF lag
<1> QED
  BY <1>1, <1>2, <1>3

(* No open call is older than the longest life of a call.                  *)
LEMMA LifeBound ==
    ASSUME TypeOK, Routed, NEW p \in Pages, NEW c \in CallIds,
           IsOpen(calls[p][c])
    PROVE  /\ calls[p][c].age \in Nat
           /\ LongestLife \in Nat
           /\ calls[p][c].age <= LongestLife
<1> DEFINE v == calls[p][c].version
           age == calls[p][c].age
<1>1. v \in mesh.routes /\ Young(calls[p][c])
  BY DEF Routed, Sent, Busy, IsOpen
<1>2. LongestRatings \in Nat /\ mesh.lag \in Nat /\ age \in Nat
  <2>1. calls[p][c] \in Call
    BY DEF TypeOK
  <2> QED
    BY <2>1, Longest, MeshTypes DEF Call
<1>3. LongestLife \in Nat
  BY LifeType
<1>4. CASE v \in Rated
  <2> DEFINE limit == RatingsTimeout[v]
  <2>1. limit \in Nat /\ limit <= LongestRatings
    BY <1>1, <1>4, Longest, PageAssumption
  <2>2. age <= limit + Shorter(mesh.lag, limit)
    BY <1>1, <1>4 DEF Young
  <2> HIDE DEF limit, age, v
  <2>3. /\ Shorter(mesh.lag, limit) <= Shorter(mesh.lag, LongestRatings)
        /\ Shorter(mesh.lag, limit) \in Nat
        /\ Shorter(mesh.lag, LongestRatings) \in Nat
    BY <1>2, <2>1, ShorterMonotone
  <2>4. age <= LongestLife
    BY <1>2, <2>1, <2>2, <2>3 DEF LongestLife
  <2> QED
    BY <1>2, <1>3, <2>4 DEF age
<1>5. CASE v \notin Rated
  BY <1>1, <1>2, <1>3, <1>5 DEF Young
<1> QED
  BY <1>4, <1>5

LEMMA AskSpaced ==
    ASSUME TypeOK, NEW p \in Pages, NEW r, NEW a, NEW others,
           Left(p, others), Ask(p, r, a, others)
    PROVE  Spaced(p)'
<1>1. /\ pc'[p] = "reviews" /\ ~linked'[p] /\ waited'[p] = 0
      /\ calls'[p] = others
  BY AskShow
<1>2. PageTimeout \in Nat
  BY PageAssumption
<1>3. ASSUME NEW c \in CallIds, IsOpen(others[c])
      PROVE  others[c].age >= 0 + PageTimeout
  <2>1. others[c].age \in Nat /\ PageTimeout <= others[c].age
    BY <1>3 DEF Left, Call
  <2> QED
    BY <1>2, <2>1
<1> QED
  BY <1>1, <1>3 DEF Spaced, Placed, Left, Apart

LEMMA EndRoundSpaced ==
    ASSUME TypeOK, NEW p \in Pages, NEW response, NEW others,
           Left(p, others), EndRound(p, response, others)
    PROVE  Spaced(p)'
<1>1. CASE round[p] <= FloodFactor
  BY <1>1, AskSpaced DEF EndRound
<1>2. CASE ~(round[p] <= FloodFactor)
  <2>1. pc'[p] = "done" /\ calls'[p] = others
    BY <1>2 DEF EndRound, TypeOK
  <2> QED
    BY <2>1 DEF Spaced, Placed, Left, Apart
<1> QED
  BY <1>1, <1>2

LEMMA RetrySpaced ==
    ASSUME TypeOK, NEW p \in Pages, NEW others, Left(p, others), Retry(p, others)
    PROVE  Spaced(p)'
  BY AskSpaced, EndRoundSpaced DEF Retry

(* The calls that are left when the current one is over, or its timeout.   *)
LEMMA LeftBehind ==
    ASSUME TypeOK, NEW p \in Pages, Spaced(p), pc[p] = "reviews",
           NEW others \in [CallIds -> Call],
           \A c \in CallIds : IsOpen(others[c]) => others[c] = calls[p][c],
           \/ ~linked[p]
           \/ ~IsOpen(others[Current(p)])
           \/ waited[p] = PageTimeout
    PROVE  Left(p, others)
<1>0. PageTimeout \in Nat /\ waited[p] \in Nat
  BY PageAssumption DEF TypeOK
<1>1. \A c \in CallIds : others[c].age \in Nat
  BY DEF Call
<1>2. ASSUME NEW c \in CallIds, IsOpen(others[c])
      PROVE  PageTimeout <= others[c].age
  <2>1. others[c] = calls[p][c] /\ Placed(p, c)
    BY <1>2 DEF Spaced
  <2> QED
    BY <1>0, <1>1, <1>2, <2>1 DEF Placed
<1>3. ASSUME NEW c \in CallIds, NEW d \in CallIds, c # d,
             IsOpen(others[c]), IsOpen(others[d])
      PROVE  Apart(others[c], others[d])
  BY <1>3 DEF Spaced
<1> QED
  BY <1>2, <1>3 DEF Left

(* A call that is answered, or over, is one open call less; one that       *)
(* connects to ratings keeps its age.                                      *)
LEMMA FewerSpaced ==
    ASSUME TypeOK, NEW p \in Pages, Spaced(p), NEW c \in CallIds, NEW call,
           IsOpen(call) => IsOpen(calls[p][c]) /\ call.age = calls[p][c].age,
           calls'[p] = [calls[p] EXCEPT ![c] = call],
           UNCHANGED <<pc[p], linked[p], waited[p]>>, Current(p)' = Current(p)
    PROVE  Spaced(p)'
<1>1. calls[p] \in [CallIds -> Call]
  BY DEF TypeOK
<1>2. \A d \in CallIds : IsOpen(calls'[p][d]) =>
         IsOpen(calls[p][d]) /\ calls'[p][d].age = calls[p][d].age
  BY <1>1
<1>3. \A d \in CallIds : IsOpen(calls'[p][d]) => Placed(p, d)'
  BY <1>2 DEF Spaced, Placed
<1>4. ASSUME NEW d \in CallIds, NEW e \in CallIds, d # e,
             IsOpen(calls'[p][d]), IsOpen(calls'[p][e])
      PROVE  Apart(calls'[p][d], calls'[p][e])
  <2>1. Apart(calls[p][d], calls[p][e])
    BY <1>2, <1>4 DEF Spaced
  <2> QED
    BY <1>2, <1>4, <2>1 DEF Apart
<1> QED
  BY <1>3, <1>4 DEF Spaced, Apart

LEMMA ConnectSpaced ==
    ASSUME TypeOK, NEW p \in Pages, Spaced(p), Connect(p)
    PROVE  Spaced(p)'
<1>1. /\ linked'[p] /\ ~linked[p] /\ waited'[p] = 0
      /\ pc'[p] = pc[p] /\ pc[p] \in {"details", "reviews"}
      /\ Current(p)' = Current(p) /\ Current(p) \in CallIds
  BY ConnectShow
<1>2. CASE pc[p] = "reviews"
  <2>1. PICK call : /\ OpenCall(call)
                    /\ calls'[p] = [calls[p] EXCEPT ![Current(p)] = call]
    BY <1>2, ConnectShow
  <2>2. calls[p] \in [CallIds -> Call]
    BY DEF TypeOK
  <2>3. \A c \in CallIds : calls'[p][c] = IF c = Current(p) THEN call ELSE calls[p][c]
    BY <2>1, <2>2
  <2>4. call.age = 0 /\ PageTimeout \in Nat /\ waited[p] \in Nat
    BY <2>1, PageAssumption DEF OpenCall, TypeOK
  <2>5. ASSUME NEW c \in CallIds, c # Current(p), IsOpen(calls[p][c])
        PROVE  calls[p][c].age >= 0 + PageTimeout
    <3>1. calls[p][c].age >= waited[p] + PageTimeout
      BY <1>1, <1>2, <2>5 DEF Spaced, Placed
    <3>2. calls[p][c].age \in Nat
      BY <2>2 DEF Call
    <3> QED
      BY <2>4, <3>1, <3>2
  <2>6. ASSUME NEW c \in CallIds, IsOpen(calls'[p][c])
        PROVE  Placed(p, c)'
    BY <1>1, <1>2, <2>3, <2>4, <2>5, <2>6 DEF Placed
  <2>7. ASSUME NEW c \in CallIds, NEW d \in CallIds, c # d,
               IsOpen(calls'[p][c]), IsOpen(calls'[p][d])
        PROVE  Apart(calls'[p][c], calls'[p][d])
    BY <2>3, <2>4, <2>5, <2>7 DEF Spaced, Apart
  <2> QED
    BY <2>6, <2>7 DEF Spaced, Apart
<1>3. CASE pc[p] = "details"
  <2>1. calls'[p] = calls[p]
    BY <1>3, ConnectShow
  <2> QED
    BY <1>1, <1>3, <2>1 DEF Spaced, Placed
<1> QED
  BY <1>1, <1>2, <1>3

LEMMA SpacedStep ==
    ASSUME TypeOK, NEW p \in Pages, Spaced(p), PageNext(p)
    PROVE  Spaced(p)'
<1>0. /\ calls[p] \in [CallIds -> Call] /\ Current(p) \in CallIds
      /\ Closed \in Call /\ ~IsOpen(Closed)
  <2>1. calls[p] \in [CallIds -> Call] /\ Current(p) \in CallIds
    BY DEF TypeOK, Current, CallIds
  <2>2. ~IsOpen(Closed)
    BY DEF IsOpen, Closed, NoCall
  <2> QED
    BY <2>1, <2>2, CallTypes
<1>1. CASE Front(p)
  <2>1. \A c \in CallIds : ~IsOpen(calls[p][c])
    BY <1>1 DEF Front, Spaced, Placed
  <2>2. calls' = calls
    BY <1>1 DEF Front
  <2> QED
    BY <2>1, <2>2 DEF Spaced
<1>2. CASE Details(p)
  <2>1. \A c \in CallIds : ~IsOpen(calls[p][c])
    BY <1>2 DEF Details, Spaced, Placed
  <2>2. Left(p, calls[p])
    BY <1>0, <2>1 DEF Left
  <2> QED
    BY <1>2, <2>2, AskSpaced DEF Details
<1>3. CASE ReviewsTimeout(p)
  <2>1. Left(p, calls[p])
    BY <1>0, <1>3, LeftBehind DEF ReviewsTimeout
  <2> QED
    BY <1>3, <2>1, RetrySpaced DEF ReviewsTimeout
<1>4. CASE ReviewsFail(p)
  <2> DEFINE others == [calls[p] EXCEPT ![Current(p)] = Closed]
  <2>1. /\ others \in [CallIds -> Call] /\ ~IsOpen(others[Current(p)])
        /\ \A c \in CallIds : IsOpen(others[c]) => others[c] = calls[p][c]
    BY <1>0
  <2>2. pc[p] = "reviews" /\ ((~linked[p] /\ Retry(p, calls[p])) \/ Retry(p, others))
    BY <1>4 DEF ReviewsFail
  <2> HIDE DEF others
  <2>3. Left(p, others)
    BY <2>1, <2>2, LeftBehind
  <2>4. ~linked[p] => Left(p, calls[p])
    BY <1>0, <2>2, LeftBehind
  <2> QED
    BY <2>2, <2>3, <2>4, RetrySpaced
<1>5. ASSUME NEW c \in CallIds,
             \/ AnswerUnrated(p, c) \/ RatingsRefuse(p, c)
             \/ RatingsAnswer(p, c) \/ RatingsGiveUp(p, c)
      PROVE  Spaced(p)'
  <2>1. PICK answer : Answer(p, c, answer)
    BY <1>5 DEF AnswerUnrated, RatingsRefuse, RatingsAnswer, RatingsGiveUp
  <2> DEFINE call == [calls[p][c] EXCEPT !.state = "ready", !.answer = answer]
  <2>2. calls'[p] = [calls[p] EXCEPT ![c] = call]
    BY <2>1 DEF Answer, TypeOK
  <2>3. call.state = "ready"
    <3>1. calls[p][c] \in Call
      BY <1>0
    <3> QED
      BY <3>1 DEF Call
  <2> HIDE DEF call
  <2>4. UNCHANGED <<pc, linked, waited>> /\ Current(p)' = Current(p) /\ ~IsOpen(call)
    BY <2>1, <2>3 DEF Answer, IsOpen, Current
  <2> QED
    BY <2>2, <2>4, FewerSpaced
<1>6. ASSUME NEW c \in CallIds, ReviewsAnswer(p, c)
      PROVE  Spaced(p)'
  <2> DEFINE others == [calls[p] EXCEPT ![c] = Closed]
             answer == calls[p][c].answer
  <2>1. CASE Listening(p, c)
    <3>1. /\ others \in [CallIds -> Call] /\ ~IsOpen(others[Current(p)])
          /\ \A d \in CallIds : IsOpen(others[d]) => others[d] = calls[p][d]
      BY <1>0, <2>1 DEF Listening
    <3>2. EndRound(p, answer, others) \/ Retry(p, others)
      BY <1>6, <2>1 DEF ReviewsAnswer
    <3> HIDE DEF others, answer
    <3>3. Left(p, others)
      BY <2>1, <3>1, LeftBehind DEF Listening
    <3> QED
      BY <3>2, <3>3, EndRoundSpaced, RetrySpaced
  <2>2. CASE ~Listening(p, c)
    <3>1. /\ calls'[p] = [calls[p] EXCEPT ![c] = Closed]
          /\ UNCHANGED <<pc, linked, waited>> /\ Current(p)' = Current(p)
      BY <1>6, <2>2 DEF ReviewsAnswer, TypeOK, Current
    <3> QED
      BY <1>0, <3>1, FewerSpaced
  <2> QED
    BY <2>1, <2>2
<1>7. ASSUME NEW c \in CallIds, RatingsConnect(p, c)
      PROVE  Spaced(p)'
  <2>1. \E call : /\ calls'[p] = [calls[p] EXCEPT ![c] = call]
                  /\ call.age = calls[p][c].age
    <3>1. PICK call : /\ calls'[p] = [calls[p] EXCEPT ![c] = call]
                      /\ call.state = "asking"
                      /\ call.age = calls[p][c].age
                      /\ call.asked = calls[p][c].age
                      /\ call.version = calls[p][c].version
      BY <1>7, DialShow
    <3> QED
      BY <3>1
  <2>2. UNCHANGED <<pc, linked, waited>> /\ Current(p)' = Current(p)
    BY <1>7, DialShow
  <2>3. IsOpen(calls[p][c])
    BY <1>7 DEF RatingsConnect, IsOpen
  <2> QED
    BY <2>1, <2>2, <2>3, FewerSpaced
<1> QED
  BY <1>1, <1>2, <1>3, <1>4, <1>5, <1>6, <1>7, ConnectSpaced DEF PageNext

LEMMA SpacedTick ==
    ASSUME TypeOK, Tick, NEW p \in Pages, Spaced(p)
    PROVE  Spaced(p)'
<1>0. /\ \A c \in CallIds : calls[p][c].age \in Nat
      /\ PageTimeout \in Nat /\ waited[p] \in Nat
  <2>1. \A c \in CallIds : calls[p][c] \in Call
    BY DEF TypeOK
  <2> QED
    BY <2>1, PageAssumption DEF Call, TypeOK
<1>1. ASSUME NEW c \in CallIds, IsOpen(calls'[p][c])
      PROVE  IsOpen(calls[p][c]) /\ calls'[p][c].age = calls[p][c].age + 1
  BY <1>1, TickCalls DEF IsOpen
<1>2. ASSUME NEW c \in CallIds, IsOpen(calls'[p][c])
      PROVE  Placed(p, c)'
  <2>1. Placed(p, c) /\ calls'[p][c].age = calls[p][c].age + 1
    BY <1>1, <1>2 DEF Spaced
  <2>2. /\ pc' = pc /\ linked' = linked /\ Current(p)' = Current(p)
        /\ pc[p] = "reviews" => waited'[p] = waited[p] + 1
    BY TickClock DEF Waiting
  <2> QED
    BY <1>0, <2>1, <2>2 DEF Placed
<1>3. ASSUME NEW c \in CallIds, NEW d \in CallIds, c # d,
             IsOpen(calls'[p][c]), IsOpen(calls'[p][d])
      PROVE  Apart(calls'[p][c], calls'[p][d])
  <2>1. Apart(calls[p][c], calls[p][d])
    BY <1>1, <1>3 DEF Spaced
  <2> QED
    BY <1>0, <1>1, <1>3, <2>1 DEF Apart
<1> QED
  BY <1>2, <1>3 DEF Spaced, Apart

-----------------------------------------------------------------------------
(* From the distances to the number: the page timeouts that fit in the age *)
(* of a call tell the open calls apart.                                    *)
LEMMA DivBounds ==
    ASSUME NEW a \in Nat, NEW d \in Nat \ {0}
    PROVE  /\ a \div d \in Nat
           /\ d * (a \div d) <= a
           /\ a < d * (a \div d) + d
OBVIOUS

LEMMA TimesLess ==
    ASSUME NEW d \in Nat \ {0}, NEW x \in Nat, NEW y \in Nat, x < y
    PROVE  d * x + d <= d * y
<1>1. PICK k \in Nat : y = x + 1 + k
  <2>1. y - x - 1 \in Nat /\ y = x + 1 + (y - x - 1)
    OBVIOUS
  <2> QED
    BY <2>1
<1>2. d * y = d * x + d + d * k
  BY <1>1
<1>3. d * k \in Nat /\ d * x \in Nat
  OBVIOUS
<1> QED
  BY <1>2, <1>3

LEMMA DivMonotone ==
    ASSUME NEW a \in Nat, NEW b \in Nat, NEW d \in Nat \ {0}, a <= b
    PROVE  a \div d <= b \div d
<1>1. CASE a \div d <= b \div d
  BY <1>1
<1>2. CASE b \div d < a \div d
  <2>1. /\ a \div d \in Nat /\ d * (a \div d) <= a
        /\ b \div d \in Nat /\ b < d * (b \div d) + d
    BY DivBounds
  <2> DEFINE x == b \div d
             y == a \div d
  <2>2. d * x + d <= d * y
    BY <1>2, <2>1, TimesLess
  <2>3. d * x \in Nat /\ d * y \in Nat
    BY <2>1
  <2> HIDE DEF x, y
  <2>4. d * y <= a /\ b < d * x + d
    BY <2>1 DEF x, y
  <2> QED
    BY <2>2, <2>3, <2>4
<1> QED
  BY <1>1, <1>2, DivBounds

LEMMA DivApart ==
    ASSUME NEW a \in Nat, NEW b \in Nat, NEW d \in Nat \ {0}, a >= b + d
    PROVE  a \div d # b \div d
<1> SUFFICES ASSUME a \div d = b \div d PROVE FALSE
  OBVIOUS
<1> DEFINE y == a \div d
<1>1. d * y <= b /\ a < d * y + d /\ d * y \in Nat
  <2>1. y \in Nat /\ d * y <= b /\ a < d * y + d
    BY DivBounds
  <2> HIDE DEF y
  <2> QED
    BY <2>1
<1> HIDE DEF y
<1> QED
  BY <1>1

LEMMA OpenFinite ==
    ASSUME NEW p \in Pages
    PROVE  IsFiniteSet(Open(p))
<1>1. IsFiniteSet(Rounds) /\ IsFiniteSet(Attempts)
  <2>1. FloodFactor + 1 \in Int
    BY PageAssumption
  <2>2. Attempts = 1..2
    BY DEF Attempts
  <2>3. ASSUME NEW n \in Int PROVE IsFiniteSet(1..n)
    BY FS_Interval
  <2>4. 2 \in Int
    OBVIOUS
  <2>5. IsFiniteSet(1..2)
    BY <2>3, <2>4, Zenon
  <2>6. IsFiniteSet(1..(FloodFactor + 1))
    BY <2>1, <2>3, Zenon
  <2> QED
    BY <2>2, <2>5, <2>6, Zenon DEF Rounds
<1>2. IsFiniteSet(CallIds)
  BY <1>1, FS_Product DEF CallIds
<1>3. Open(p) \in SUBSET CallIds
  BY DEF Open
<1> QED
  BY <1>2, <1>3, FS_Subset

LEMMA SpacedFew ==
    ASSUME TypeOK, Routed, NEW p \in Pages, Spaced(p)
    PROVE  Cardinality(Open(p)) <= LongestLife \div PageTimeout + 1
<1> DEFINE n == LongestLife \div PageTimeout
           f == [c \in Open(p) |-> calls[p][c].age \div PageTimeout]
<1>1. PageTimeout \in Nat \ {0} /\ LongestLife \in Nat
  BY PageAssumption, LifeType
<1>2. \A c \in Open(p) : /\ c \in CallIds /\ IsOpen(calls[p][c])
                         /\ calls[p][c].age \in Nat
                         /\ calls[p][c].age <= LongestLife
  BY LifeBound DEF Open
<1>3. n \in Nat
  BY <1>1, DivBounds
<1>4. \A c \in Open(p) : calls[p][c].age \div PageTimeout \in 0..n
  <2> SUFFICES ASSUME NEW c \in Open(p)
               PROVE  calls[p][c].age \div PageTimeout \in 0..n
    OBVIOUS
  <2>1. /\ calls[p][c].age \div PageTimeout \in Nat
        /\ calls[p][c].age \div PageTimeout <= n
    BY <1>1, <1>2, DivBounds, DivMonotone
  <2> HIDE DEF n
  <2> QED
    BY <1>3, <2>1
<1>5. ASSUME NEW c \in Open(p), NEW d \in Open(p), c # d
      PROVE  f[c] # f[d]
  <2>1. Apart(calls[p][c], calls[p][d])
    BY <1>2, <1>5 DEF Spaced
  <2>2. calls[p][c].age \div PageTimeout # calls[p][d].age \div PageTimeout
    BY <1>1, <1>2, <2>1, DivApart DEF Apart
  <2> QED
    BY <2>2
<1>6. f \in [Open(p) -> 0..n]
  BY <1>4
<1> HIDE DEF n, f
<1>7. IsFiniteSet(0..n) /\ Cardinality(0..n) = n + 1
  BY <1>3, FS_Interval
<1>8. IsFiniteSet(Open(p)) /\ Cardinality(Open(p)) \in Nat
  BY OpenFinite, FS_CardinalityType
<1>9. ~(Cardinality(0..n) < Cardinality(Open(p)))
  BY <1>5, <1>6, <1>7, <1>8, FS_PigeonHole
<1> QED
  BY <1>3, <1>7, <1>8, <1>9 DEF n

(* A page leaves no more calls running in reviews than fit in the longest  *)
(* life of a call, connecting to ratings and waiting for them, one per     *)
(* timeout of the page, whatever fails and however slow connections are.   *)
THEOREM AlwaysFew == Spec => []OpenBounded
<1> DEFINE Inv == \A p \in Pages : Spaced(p)
<1>1. Init => Inv
  BY DEF Init, Spaced, IsOpen, NoCall
<1>2. ASSUME TypeOK, Inv, [Next]_vars
      PROVE  Inv'
  <2> SUFFICES ASSUME NEW q \in Pages PROVE Spaced(q)'
    OBVIOUS
  <2>0. Spaced(q)
    BY <1>2
  <2>1. ASSUME NEW p \in Pages, PageNext(p)
        PROVE  Spaced(q)'
    <3>1. CASE p = q
      BY <1>2, <2>0, <2>1, <3>1, SpacedStep
    <3>2. CASE p # q
      <4>1. SameShow(q)
        BY <1>2, <2>1, <3>2, OtherShow
      <4> QED
        BY <2>0, <4>1
        DEF SameShow, Spaced, Placed, Current, Apart
    <3> QED
      BY <3>1, <3>2
  <2>2. CASE PostRatings \/ UNCHANGED vars
    <3>1. UNCHANGED <<pc, round, attempt, linked, waited, calls>>
      BY <2>2 DEF PostRatings, vars
    <3> QED
      BY <2>0, <3>1 DEF Spaced, Placed, Current, Apart
  <2>3. CASE Tick
    BY <1>2, <2>0, <2>3, SpacedTick
  <2> QED
    BY <1>2, <2>1, <2>2, <2>3 DEF Next
<1>3. TypeOK /\ Routed /\ Inv => OpenBounded
  BY SpacedFew DEF OpenBounded
<1> HIDE DEF Inv
<1> QED
  BY <1>1, <1>2, <1>3, TypeCorrect, AlwaysRouted, PTL DEF Spec
=============================================================================
