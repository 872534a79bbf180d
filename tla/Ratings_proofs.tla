--------------------------- MODULE Ratings_proofs ---------------------------
(***************************************************************************)
(* Proofs about Ratings, for any requests, products and variants.          *)
(***************************************************************************)
EXTENDS Ratings, TLAPS

LEMMA Responses ==
    /\ \A s \in Status : Error(s) \in Response
    /\ NoDatabase \in Response
    /\ FromDatabase \in Response
    /\ \A ask \in Ask : Refusal(ask) \in Response
BY DEF Error, Response, Status, Kind, NoDatabase, FromDatabase, Refusal

LEMMA LocalType ==
    ASSUME NEW i \in Products, store \in [Products -> Rating]
    PROVE  Local(i) \in Response
BY DEF Local, Rating, Response, Status

(* The answer of a handler keeps the types of what it changes.             *)
LEMMA AnswersType ==
    ASSUME TypeOK, NEW r \in Requests, NEW a \in Response, Answers(r, a)
    PROVE  /\ step' \in [Requests -> {"new", "body", "timer", "connect", "query", "done"}]
           /\ sent' \in [Requests -> Nat]
           /\ answer' \in [Requests -> Response]
           /\ \A q \in Requests : step'[q] = "body" => q # r /\ step[q] = "body"
BY DEF TypeOK, Answers

LEMMA WaitsType ==
    ASSUME TypeOK, NEW r \in Requests, Waits(r, "body") \/ Waits(r, "timer") \/
              Waits(r, "connect") \/ Waits(r, "query") \/ Waits(r, "done")
    PROVE  /\ step' \in [Requests -> {"new", "body", "timer", "connect", "query", "done"}]
           /\ sent' \in [Requests -> Nat]
           /\ answer' \in [Requests -> Response]
           /\ \A q \in Requests : step'[q] = "body" /\ q # r => step[q] = "body"
           /\ step'[r] = "body" => Waits(r, "body")
BY DEF TypeOK, Waits

LEMMA AskTypes ==
    /\ NoAsk \in Ask
    /\ \A i \in Products \cup {NaN} :
          [op |-> "get", id |-> i, body |-> "none"] \in Ask
    /\ [op |-> "health", id |-> NaN, body |-> "none"] \in Ask
    /\ \A i \in Products \cup {NaN}, b \in Body \ {"none"} :
          [op |-> "post", id |-> i, body |-> b] \in Ask
BY DEF NoAsk, Ask, Body, Kind

(* What GET does in each variant: an answer or a wait.                     *)
LEMMA GetCases ==
    ASSUME TypeOK, NEW r \in Requests, NEW i \in Products \cup {NaN},
           IF i = NaN THEN Answers(r, Error(400)) ELSE GetNumber(r, i)
    PROVE  \/ \E s \in Status : Answers(r, Error(s))
           \/ i \in Products /\ Answers(r, Local(i))
           \/ i \in Products /\ variant \in Database /\ Waits(r, "connect")
           \/ i \in Products /\ Waits(r, "timer")
<1>1. CASE i = NaN
  BY <1>1 DEF Status
<1>2. CASE i # NaN
  BY <1>2 DEF GetNumber, Status
<1> QED
  BY <1>1, <1>2

LEMMA GetType ==
    ASSUME TypeOK, NEW r \in Requests, Get(r)
    PROVE  TypeOK'
<1>1. PICK i \in Products \cup {NaN} :
         /\ Arrives(r, [op |-> "get", id |-> i, body |-> "none"])
         /\ UNCHANGED store
         /\ IF i = NaN THEN Answers(r, Error(400)) ELSE GetNumber(r, i)
  BY DEF Get
<1>2. request' \in [Requests -> Ask] /\ \A q \in Requests : q # r => request'[q] = request[q]
  BY <1>1, AskTypes DEF Arrives, TypeOK
<1>3. /\ step' \in [Requests -> {"new", "body", "timer", "connect", "query", "done"}]
      /\ sent' \in [Requests -> Nat]
      /\ answer' \in [Requests -> Response]
      /\ \A q \in Requests : step'[q] = "body" => q # r /\ step[q] = "body"
  <2>1. CASE \E s \in Status : Answers(r, Error(s))
    BY <2>1, Responses, AnswersType
  <2>2. CASE i \in Products /\ Answers(r, Local(i))
    BY <2>2, LocalType, AnswersType DEF TypeOK
  <2>3. CASE Waits(r, "connect") \/ Waits(r, "timer")
    BY <2>3 DEF TypeOK, Waits
  <2> QED
    BY <1>1, <2>1, <2>2, <2>3, GetCases
<1> QED
  BY <1>1, <1>2, <1>3 DEF TypeOK, Arrives, process, history

LEMMA HealthType ==
    ASSUME TypeOK, NEW r \in Requests, Health(r)
    PROVE  TypeOK'
<1> DEFINE a == [status |-> IF healthy THEN 200 ELSE 500, version |-> -1, kind |-> "error"]
<1>1. a \in Response
  BY DEF Response, Status
<1>2. Answers(r, a)
  BY DEF Health
<1>3. request' \in [Requests -> Ask] /\ \A q \in Requests : q # r => request'[q] = request[q]
  BY AskTypes DEF Health, Arrives, TypeOK
<1> HIDE DEF a
<1> QED
  BY <1>1, <1>2, <1>3, AnswersType DEF TypeOK, Health, Arrives, process, history

LEMMA PostArrivesType ==
    ASSUME TypeOK, NEW r \in Requests, PostArrives(r)
    PROVE  TypeOK'
<1>1. PICK i \in Products \cup {NaN}, b \in Body \ {"none"} :
         /\ Arrives(r, [op |-> "post", id |-> i, body |-> b])
         /\ Waits(r, "body")
         /\ UNCHANGED store
  BY DEF PostArrives
<1>2. /\ request' \in [Requests -> Ask]
      /\ \A q \in Requests : q # r => request'[q] = request[q]
      /\ request'[r].body # "none"
  BY <1>1, AskTypes DEF Arrives, TypeOK
<1> QED
  BY <1>1, <1>2, WaitsType DEF TypeOK, Arrives, process, history

LEMMA PutType ==
    ASSUME TypeOK, NEW i \in Products, NEW k \in Kind, Put(i, k)
    PROVE  store' \in [Products -> Rating] /\ posted' \in [Products -> Seq(Kind)]
BY DEF TypeOK, Put, Rating

(* The two ways a POST ends.                                               *)
LEMMA PostEndCases ==
    ASSUME TypeOK, NEW r \in Requests, PostEnd(r)
    PROVE  \/ /\ Answers(r, Refusal(request[r]))
              /\ UNCHANGED <<store, posted>>
           \/ /\ variant \notin Database
              /\ request[r].id \in Products
              /\ request[r].body \in Kind
              /\ Put(request[r].id, request[r].body)
              /\ Answers(r, [status |-> 200, version |-> store'[request[r].id].version,
                             kind |-> store'[request[r].id].kind])
<1>1. request[r] \in Ask /\ request[r].body # "none" /\ request' = request
  BY DEF TypeOK, PostEnd
<1>2. CASE request[r].id = NaN \/ request[r].body = "no JSON" \/ variant \in Database
  BY <1>2 DEF PostEnd
<1>3. CASE ~(request[r].id = NaN \/ request[r].body = "no JSON" \/ variant \in Database)
  <2>1. request[r].id \in Products /\ request[r].body \in Kind
    BY <1>1, <1>3 DEF Ask, Body
  <2> QED
    BY <1>1, <1>3, <2>1 DEF PostEnd, Local
<1> QED
  BY <1>2, <1>3

LEMMA PostEndType ==
    ASSUME TypeOK, NEW r \in Requests, PostEnd(r)
    PROVE  TypeOK'
<1>1. request[r] \in Ask
  BY DEF TypeOK
<1>2. CASE Answers(r, Refusal(request[r])) /\ UNCHANGED <<store, posted>>
  BY <1>1, <1>2, Responses, AnswersType DEF TypeOK, PostEnd, process
<1>3. CASE /\ request[r].id \in Products
           /\ request[r].body \in Kind
           /\ Put(request[r].id, request[r].body)
           /\ Answers(r, [status |-> 200, version |-> store'[request[r].id].version,
                          kind |-> store'[request[r].id].kind])
  <2>1. store' \in [Products -> Rating] /\ posted' \in [Products -> Seq(Kind)]
    BY <1>3, PutType
  <2>2. [status |-> 200, version |-> store'[request[r].id].version,
         kind |-> store'[request[r].id].kind] \in Response
    BY <1>3, <2>1 DEF Rating, Response, Status
  <2> QED
    BY <1>3, <2>1, <2>2, AnswersType DEF TypeOK, PostEnd, process
<1> QED
  BY <1>2, <1>3, PostEndCases

(* The callbacks and the timer: they answer or wait, and ask nothing new.  *)
LEMMA CallbackType ==
    ASSUME TypeOK, NEW r \in Requests,
           \/ PostAborted(r) \/ Delayed(r) \/ Connected(r)
           \/ NotConnected(r) \/ Queried(r),
           step[r] = "timer" => request[r].id \in Products
    PROVE  TypeOK'
<1>1. CASE PostAborted(r)
  BY <1>1, WaitsType DEF TypeOK, PostAborted, process, Waits
<1>2. CASE Delayed(r)
  BY <1>2, LocalType, AnswersType DEF TypeOK, Delayed, process, history
<1>3. CASE Connected(r)
  BY <1>3 DEF TypeOK, Connected, Waits, process, history
<1>4. CASE NotConnected(r)
  BY <1>4, Responses, AnswersType DEF TypeOK, NotConnected, process, history
<1>5. CASE Queried(r)
  <2>1. \E a \in Response : Answers(r, a)
    BY <1>5, Responses DEF Queried, Status
  <2> QED
    BY <1>5, <2>1, AnswersType DEF TypeOK, Queried, process, history
<1> QED
  BY <1>1, <1>2, <1>3, <1>4, <1>5

LEMMA DownType ==
    ASSUME TypeOK, Down, gone' \subseteq Requests, faults' \in 0..MaxFaults
    PROVE  TypeOK'
<1>1. step' \in [Requests -> {"new", "body", "timer", "connect", "query", "done"}]
      /\ \A r \in Requests : step'[r] # "body"
  BY DEF TypeOK, Down, InFlight
<1> QED
  BY <1>1 DEF TypeOK, Down

LEMMA SignalType ==
    ASSUME TypeOK, Toggle \/ Sigterm \/ Exit \/ Kill
    PROVE  TypeOK'
<1>0. MaxFaults \in Nat
  BY RatingsAssumption
<1>1. CASE Toggle
  BY <1>1 DEF TypeOK, Toggle, history
<1>2. CASE Sigterm
  BY <1>0, <1>2 DEF TypeOK, Sigterm, Fault, history
<1>3. CASE Exit
  BY <1>3, DownType DEF TypeOK, Exit
<1>4. CASE Kill
  <2>1. gone' \subseteq Requests /\ faults' \in 0..MaxFaults
    BY <1>0, <1>4 DEF TypeOK, Kill, Fault, InFlight
  <2> QED
    BY <1>4, <2>1, DownType DEF Kill
<1> QED
  BY <1>1, <1>2, <1>3, <1>4

-----------------------------------------------------------------------------
(* A request that waits for its timer or for a database asked for a        *)
(* product, one that waits for a database runs in a process that has one,  *)
(* and one that has not ended has not been answered.                       *)
Asked ==
    \A r \in Requests :
       /\ step[r] \in {"timer", "connect", "query"} => request[r].id \in Products
       /\ step[r] \in {"connect", "query"} => variant \in Database
       /\ step[r] # "done" => answer[r].version = -1

(* The four things a step of a request can come to.                        *)
Refused(r) ==
    /\ \E a \in Response : a.version = -1 /\ Answers(r, a)
    /\ UNCHANGED <<store, posted, gone>>

Shown(r) ==
    /\ request'[r].id \in Products
    /\ \/ Answers(r, Local(request'[r].id))
       \/ variant \in Database /\ Answers(r, FromDatabase)
    /\ UNCHANGED <<store, posted, gone>>

Replaced(r) ==
    /\ variant \notin Database
    /\ request'[r].id \in Products
    /\ request'[r].body \in Kind
    /\ Put(request'[r].id, request'[r].body)
    /\ Answers(r, [status |-> 200, version |-> store'[request'[r].id].version,
                   kind |-> store'[request'[r].id].kind])
    /\ UNCHANGED gone

Waiting(r) ==
    /\ \/ Waits(r, "body") /\ UNCHANGED gone
       \/ Waits(r, "timer") /\ request'[r].id \in Products /\ UNCHANGED gone
       \/ Waits(r, "connect") /\ request'[r].id \in Products
             /\ variant \in Database /\ UNCHANGED gone
       \/ Waits(r, "query") /\ step[r] = "connect" /\ UNCHANGED gone
             /\ request' = request
       \/ Waits(r, "done") /\ gone' = gone \cup {r}
    /\ UNCHANGED <<store, posted>>

Effect(r) ==
    /\ step[r] # "done"
    /\ UNCHANGED process
    /\ \A q \in Requests \ {r} : request'[q] = request[q]
    /\ Refused(r) \/ Shown(r) \/ Replaced(r) \/ Waiting(r)

LEMMA GetEffect ==
    ASSUME TypeOK, NEW r \in Requests, Get(r)
    PROVE  Effect(r)
<1>1. PICK i \in Products \cup {NaN} :
         /\ Arrives(r, [op |-> "get", id |-> i, body |-> "none"])
         /\ UNCHANGED store
         /\ IF i = NaN THEN Answers(r, Error(400)) ELSE GetNumber(r, i)
  BY DEF Get
<1>2. /\ step[r] # "done"
      /\ UNCHANGED process
      /\ \A q \in Requests \ {r} : request'[q] = request[q]
      /\ request'[r].id = i
      /\ UNCHANGED <<store, posted, gone>>
  BY <1>1 DEF Arrives, TypeOK, history
<1>3. Refused(r) \/ Shown(r) \/ Waiting(r)
  <2>1. CASE \E s \in Status : Answers(r, Error(s))
    <3>1. PICK s \in Status : Answers(r, Error(s))
      BY <2>1
    <3>2. Error(s) \in Response /\ Error(s).version = -1
      BY <3>1, Responses DEF Error
    <3> QED
      BY <1>2, <3>1, <3>2 DEF Refused
  <2>2. CASE i \in Products /\ Answers(r, Local(i))
    BY <1>2, <2>2 DEF Shown
  <2>3. CASE i \in Products /\ variant \in Database /\ Waits(r, "connect")
    BY <1>2, <2>3 DEF Waiting
  <2>4. CASE i \in Products /\ Waits(r, "timer")
    BY <1>2, <2>4 DEF Waiting
  <2> QED
    BY <1>1, <2>1, <2>2, <2>3, <2>4, GetCases
<1> QED
  BY <1>2, <1>3 DEF Effect

LEMMA PostEndEffect ==
    ASSUME TypeOK, NEW r \in Requests, PostEnd(r)
    PROVE  Effect(r)
<1>1. /\ step[r] # "done" /\ UNCHANGED process /\ request' = request
      /\ UNCHANGED gone /\ request[r] \in Ask
  BY DEF PostEnd, TypeOK
<1>2. CASE Answers(r, Refusal(request[r])) /\ UNCHANGED <<store, posted>>
  <2>1. Refusal(request[r]) \in Response
    BY <1>1, Responses
  <2>2. Refusal(request[r]).version = -1
    BY DEF Refusal, Error
  <2> QED
    BY <1>1, <1>2, <2>1, <2>2 DEF Effect, Refused
<1>3. CASE /\ variant \notin Database
           /\ request[r].id \in Products
           /\ request[r].body \in Kind
           /\ Put(request[r].id, request[r].body)
           /\ Answers(r, [status |-> 200, version |-> store'[request[r].id].version,
                          kind |-> store'[request[r].id].kind])
  BY <1>1, <1>3 DEF Effect, Replaced
<1> QED
  BY <1>2, <1>3, PostEndCases

(* Each step of a request comes to one of the four.                        *)
LEMMA Effects ==
    ASSUME TypeOK, Asked, NEW r \in Requests, RequestNext(r)
    PROVE  Effect(r)
<1>1. CASE Get(r)
  BY <1>1, GetEffect
<1>2. CASE Health(r)
  <2> DEFINE a == [status |-> IF healthy THEN 200 ELSE 500, version |-> -1, kind |-> "error"]
  <2>1. a \in Response /\ a.version = -1
    BY DEF Response, Status
  <2>2. Answers(r, a)
    BY <1>2 DEF Health
  <2> HIDE DEF a
  <2>3. /\ step[r] # "done" /\ UNCHANGED process
        /\ \A q \in Requests \ {r} : request'[q] = request[q]
        /\ UNCHANGED <<store, posted, gone>>
    BY <1>2 DEF Health, Arrives, TypeOK, history
  <2> QED
    BY <2>1, <2>2, <2>3 DEF Effect, Refused
<1>3. CASE PostArrives(r)
  BY <1>3 DEF PostArrives, Arrives, Effect, Waiting, TypeOK, history
<1>4. CASE PostEnd(r)
  BY <1>4, PostEndEffect
<1>5. CASE PostAborted(r)
  BY <1>5 DEF PostAborted, Effect, Waiting
<1>6. CASE Delayed(r)
  BY <1>6 DEF Delayed, Effect, Shown, Asked, history
<1>7. CASE Connected(r)
  BY <1>7 DEF Connected, Effect, Waiting, history
<1>8. CASE NotConnected(r)
  <2>1. NoDatabase \in Response /\ NoDatabase.version = -1
    BY Responses DEF NoDatabase, Error
  <2> QED
    BY <1>8, <2>1 DEF NotConnected, Effect, Refused, history
<1>9. CASE Queried(r)
  <2>1. Error(500) \in Response /\ Error(500).version = -1
    BY Responses DEF Error, Status
  <2>2. /\ step[r] = "query" /\ UNCHANGED <<process, store, request, posted, gone>>
        /\ Answers(r, FromDatabase) \/ Answers(r, Error(500))
    BY <1>9 DEF Queried, history
  <2>3. variant \in Database /\ request[r].id \in Products
    BY <2>2 DEF Asked
  <2>4. Refused(r) \/ Shown(r)
    BY <2>1, <2>2, <2>3 DEF Refused, Shown
  <2> QED
    BY <2>2, <2>4 DEF Effect
<1> QED
  BY <1>1, <1>2, <1>3, <1>4, <1>5, <1>6, <1>7, <1>8, <1>9 DEF RequestNext

LEMMA RequestType ==
    ASSUME TypeOK, Asked, NEW r \in Requests, RequestNext(r)
    PROVE  TypeOK'
<1>1. step[r] = "timer" => request[r].id \in Products
  BY DEF Asked
<1> QED
  BY <1>1, GetType, HealthType, PostArrivesType, PostEndType, CallbackType
     DEF RequestNext

LEMMA RequestAsked ==
    ASSUME TypeOK, Asked, NEW r \in Requests, RequestNext(r)
    PROVE  Asked'
<1>1. Effect(r)
  BY Effects
<1>2. variant' = variant
  BY <1>1 DEF Effect, process
<1>3. CASE \E a \in Response : Answers(r, a)
  BY <1>1, <1>2, <1>3 DEF Effect, Answers, Asked, TypeOK
<1>4. CASE Waiting(r)
  BY <1>1, <1>2, <1>4 DEF Effect, Waiting, Waits, Asked, TypeOK
<1>5. Waiting(r) \/ \E a \in Response : Answers(r, a)
  <2>1. CASE Shown(r)
    <3>1. FromDatabase \in Response
      BY Responses
    <3> QED
      BY <2>1, <3>1, LocalType DEF Shown, TypeOK
  <2>2. CASE Replaced(r)
    <3> DEFINE i == request'[r].id
               a == [status |-> 200, version |-> store'[i].version, kind |-> store'[i].kind]
    <3>1. store' \in [Products -> Rating] /\ i \in Products
      BY <2>2, PutType DEF Replaced
    <3>2. a \in Response
      BY <3>1 DEF Rating, Response, Status
    <3>3. Answers(r, a)
      BY <2>2 DEF Replaced
    <3> QED
      BY <3>2, <3>3
  <2> QED
    BY <1>1, <2>1, <2>2 DEF Effect, Refused
<1> QED
  BY <1>3, <1>4, <1>5

LEMMA SignalAsked ==
    ASSUME TypeOK, Asked, Toggle \/ Sigterm \/ Exit \/ Kill
    PROVE  Asked'
<1>1. CASE Toggle \/ Sigterm
  BY <1>1 DEF Toggle, Sigterm, Asked
<1>2. CASE Exit \/ Kill
  BY <1>2 DEF Exit, Kill, Down, InFlight, Asked, TypeOK
<1> QED
  BY <1>1, <1>2

(* Every variable has its type, of whatever variant the process is: in     *)
(* particular the delayed callback of ratings.js:193 is only ever given a  *)
(* number.                                                                 *)
THEOREM TypeCorrect == Spec => [](TypeOK /\ Asked)
<1>1. Init => TypeOK /\ Asked
  <2> SUFFICES ASSUME Init
               PROVE  TypeOK /\ Asked
    OBVIOUS
  <2>1. Error(500) \in Response /\ NoAsk \in Ask /\ MaxFaults \in Nat
    BY Responses, AskTypes, RatingsAssumption DEF Status
  <2>2. posted \in [Products -> Seq(Kind)]
    BY DEF Init
  <2>3. store \in [Products -> Rating]
    BY DEF Init, Default, Rating, Kind
  <2>4. TypeOK
    <3>1. unavailable \in BOOLEAN /\ healthy \in BOOLEAN
      BY DEF Init
    <3>2. /\ request \in [Requests -> Ask]
          /\ answer \in [Requests -> Response]
          /\ step \in [Requests -> {"new", "body", "timer", "connect", "query", "done"}]
          /\ sent \in [Requests -> Nat]
          /\ \A r \in Requests : step[r] # "body"
      BY <2>1 DEF Init
    <3>3. /\ variant \in Variants /\ phase \in {"up", "closing", "down"}
          /\ open \subseteq Requests /\ gone \subseteq Requests
          /\ faults \in 0..MaxFaults
      BY <2>1 DEF Init
    <3> QED
      BY <2>2, <2>3, <3>1, <3>2, <3>3 DEF TypeOK
  <2>5. Asked
    BY DEF Init, Asked, Error
  <2> QED
    BY <2>4, <2>5
<1>2. TypeOK /\ Asked /\ [Next]_vars => (TypeOK /\ Asked)'
  <2> SUFFICES ASSUME TypeOK, Asked, [Next]_vars
               PROVE  TypeOK' /\ Asked'
    OBVIOUS
  <2>1. CASE UNCHANGED vars
    BY <2>1 DEF vars, TypeOK, Asked
  <2>2. ASSUME NEW r \in Requests, RequestNext(r)
        PROVE  TypeOK' /\ Asked'
    BY <2>2, RequestType, RequestAsked
  <2>3. CASE Toggle \/ Sigterm \/ Exit \/ Kill
    BY <2>3, SignalType, SignalAsked
  <2> QED
    BY <2>1, <2>2, <2>3 DEF Next
<1> QED
  BY <1>1, <1>2, PTL DEF Spec

-----------------------------------------------------------------------------
(* A request that was cut off has ended.                                   *)
Ended == \A r \in gone : step[r] = "done"

Once == AnsweredOnce /\ Ended

LEMMA RequestOnce ==
    ASSUME TypeOK, Once, NEW r \in Requests, Effect(r)
    PROVE  Once'
<1>1. step[r] # "done" /\ r \notin gone /\ sent[r] = 0
  BY DEF Effect, Once, AnsweredOnce, Ended
<1>2. \A q \in Requests : sent[q] = IF step[q] = "done" /\ q \notin gone THEN 1 ELSE 0
  BY DEF Once, AnsweredOnce
<1>3. CASE (\E a : Answers(r, a)) /\ gone' = gone
  BY <1>1, <1>2, <1>3 DEF Answers, Once, AnsweredOnce, Ended, TypeOK
<1>4. CASE Waiting(r)
  <2>1. CASE Waits(r, "done") /\ gone' = gone \cup {r}
    BY <1>1, <1>2, <2>1 DEF Waits, Once, AnsweredOnce, Ended, TypeOK
  <2>2. CASE gone' = gone /\ (Waits(r, "body") \/ Waits(r, "timer") \/
                Waits(r, "connect") \/ Waits(r, "query"))
    BY <1>1, <1>2, <2>2 DEF Waits, Once, AnsweredOnce, Ended, TypeOK
  <2> QED
    BY <1>4, <2>1, <2>2 DEF Waiting
<1>5. Waiting(r) \/ ((\E a : Answers(r, a)) /\ gone' = gone)
  <2>1. Refused(r) => (\E a : Answers(r, a)) /\ gone' = gone
    BY DEF Refused
  <2>2. Shown(r) => (\E a : Answers(r, a)) /\ gone' = gone
    BY DEF Shown
  <2>3. Replaced(r) => (\E a : Answers(r, a)) /\ gone' = gone
    BY DEF Replaced
  <2> QED
    BY <2>1, <2>2, <2>3 DEF Effect
<1> QED
  BY <1>3, <1>4, <1>5

(* No path of any variant answers a request twice; and none that ended     *)
(* without an answer had a client that still waited: SIGTERM drops nobody. *)
THEOREM AnsweredOnceAlways == Spec => []AnsweredOnce
<1>1. Init => Once
  BY DEF Init, Once, AnsweredOnce, Ended
<1>2. TypeOK /\ Asked /\ Once /\ [Next]_vars => Once'
  <2> SUFFICES ASSUME TypeOK, Asked, Once, [Next]_vars
               PROVE  Once'
    OBVIOUS
  <2>1. CASE UNCHANGED vars \/ Toggle \/ Sigterm
    BY <2>1 DEF vars, Toggle, Sigterm, history, Once, AnsweredOnce, Ended
  <2>2. ASSUME NEW r \in Requests, RequestNext(r)
        PROVE  Once'
    BY <2>2, Effects, RequestOnce
  <2>3. CASE Exit
    <3>1. step' = step /\ sent' = sent /\ gone' = gone
      BY <2>3 DEF Exit, Down, TypeOK
    <3> QED
      BY <3>1 DEF Once, AnsweredOnce, Ended
  <2>4. CASE Kill
    BY <2>4 DEF Kill, Down, InFlight, Once, AnsweredOnce, Ended, TypeOK
  <2> QED
    BY <2>1, <2>2, <2>3, <2>4 DEF Next
<1>3. Once => AnsweredOnce
  BY DEF Once
<1> QED
  BY <1>1, <1>2, <1>3, TypeCorrect, PTL DEF Spec

-----------------------------------------------------------------------------
(* The store counts the POSTs of each product and keeps the last; with a   *)
(* database there are none.                                                *)
Kept ==
    /\ \A i \in Products :
          /\ store[i].version = Len(posted[i])
          /\ Len(posted[i]) > 0 => store[i].kind = posted[i][Len(posted[i])]
    /\ variant \in Database => \A i \in Products : Len(posted[i]) = 0

(* What was answered about a product was POSTed to it.                     *)
Told(r) ==
    HasRatings(r) =>
       /\ request[r].id \in Products
       /\ answer[r].version <= Len(posted[request[r].id])
       /\ answer[r].version > 0 =>
             answer[r].kind = posted[request[r].id][answer[r].version]

Books == Kept /\ \A r \in Requests : Told(r)

LEMMA PutKeeps ==
    ASSUME TypeOK, Kept, NEW i \in Products, NEW k \in Kind, Put(i, k),
           variant' = variant, variant \notin Database
    PROVE  /\ Kept'
           /\ Len(posted'[i]) = Len(posted[i]) + 1
           /\ store'[i] = [version |-> Len(posted[i]) + 1, kind |-> k]
           /\ posted'[i][Len(posted[i]) + 1] = k
           /\ \A j \in Products :
                 /\ Len(posted[j]) <= Len(posted'[j])
                 /\ \A n \in 1..Len(posted[j]) : posted'[j][n] = posted[j][n]
<1>1. /\ posted \in [Products -> Seq(Kind)] /\ store \in [Products -> Rating]
      /\ posted[i] \in Seq(Kind)
      /\ store[i].version = Len(posted[i])
  BY DEF TypeOK, Kept
<1>2. /\ posted' = [posted EXCEPT ![i] = Append(posted[i], k)]
      /\ store' = [store EXCEPT ![i] = [version |-> store[i].version + 1, kind |-> k]]
  BY DEF Put
<1>3. /\ Len(Append(posted[i], k)) = Len(posted[i]) + 1
      /\ Append(posted[i], k)[Len(posted[i]) + 1] = k
      /\ \A n \in 1..Len(posted[i]) : Append(posted[i], k)[n] = posted[i][n]
      /\ Len(posted[i]) \in Nat
  BY <1>1
<1>4. /\ posted'[i] = Append(posted[i], k)
      /\ store'[i] = [version |-> Len(posted[i]) + 1, kind |-> k]
      /\ \A j \in Products \ {i} : posted'[j] = posted[j] /\ store'[j] = store[j]
  BY <1>1, <1>2
<1>5. \A j \in Products : Len(posted[j]) \in Nat
  BY <1>1
<1>6. \A j \in Products :
         /\ Len(posted[j]) <= Len(posted'[j])
         /\ \A n \in 1..Len(posted[j]) : posted'[j][n] = posted[j][n]
  BY <1>3, <1>4, <1>5
<1>7. Kept'
  <2>1. \A j \in Products :
          /\ store'[j].version = Len(posted'[j])
          /\ Len(posted'[j]) > 0 => store'[j].kind = posted'[j][Len(posted'[j])]
    BY <1>3, <1>4 DEF Kept
  <2> QED
    BY <2>1 DEF Kept
<1> QED
  BY <1>3, <1>4, <1>6, <1>7

(* A request that is not the one of the step keeps what it was told.       *)
LEMMA ToldKept ==
    ASSUME TypeOK, NEW q \in Requests, Told(q),
           step'[q] = step[q], answer'[q] = answer[q], request'[q] = request[q],
           \A j \in Products :
              /\ Len(posted[j]) <= Len(posted'[j])
              /\ \A n \in 1..Len(posted[j]) : posted'[j][n] = posted[j][n]
    PROVE  Told(q)'
<1>1. answer[q].version \in Int
  BY DEF TypeOK, Response
<1>2. SUFFICES ASSUME HasRatings(q)
               PROVE  Told(q)'
  BY DEF Told, HasRatings
<1>3. /\ request[q].id \in Products
      /\ answer[q].version <= Len(posted[request[q].id])
      /\ answer[q].version > 0 =>
             answer[q].kind = posted[request[q].id][answer[q].version]
  BY <1>2 DEF Told
<1>4. Len(posted[request[q].id]) \in Nat /\ Len(posted'[request[q].id]) >= Len(posted[request[q].id])
  <2>1. posted[request[q].id] \in Seq(Kind)
    BY <1>3 DEF TypeOK
  <2> QED
    BY <1>3, <2>1
<1>5. answer'[q].version <= Len(posted'[request'[q].id])
  BY <1>1, <1>3, <1>4
<1> QED
  BY <1>1, <1>3, <1>4, <1>5 DEF Told

(* The request of a step that puts nothing in the store.                   *)
LEMMA BooksUnchanged ==
    ASSUME TypeOK, Asked, Books, NEW r \in Requests, Effect(r),
           Refused(r) \/ Shown(r) \/ Waiting(r)
    PROVE  Books'
<1>1. /\ store' = store /\ posted' = posted /\ variant' = variant
      /\ \A q \in Requests \ {r} : request'[q] = request[q]
  BY DEF Effect, Refused, Shown, Waiting, process
<1>2. /\ \A i \in Products : Len(posted[i]) \in Nat
      /\ answer \in [Requests -> Response]
      /\ step \in [Requests -> {"new", "body", "timer", "connect", "query", "done"}]
  BY DEF TypeOK
<1>3. Kept'
  BY <1>1 DEF Books, Kept
<1>4. ASSUME NEW q \in Requests, q # r
      PROVE  Told(q)'
  <2>1. step'[q] = step[q] /\ answer'[q] = answer[q] /\ request'[q] = request[q]
    BY <1>1, <1>2, <1>4 DEF Refused, Shown, Waiting, Answers, Waits
  <2> QED
    BY <1>1, <1>2, <2>1, ToldKept DEF Books
<1>5. Told(r)'
  <2>1. CASE Refused(r)
    BY <1>2, <2>1 DEF Refused, Answers, Told, HasRatings
  <2>2. CASE Shown(r)
    <3>1. request'[r].id \in Products
      BY <2>2 DEF Shown
    <3>2. CASE Answers(r, Local(request'[r].id))
      <4>1. /\ answer'[r].version = store[request'[r].id].version
            /\ answer'[r].kind = store[request'[r].id].kind
        BY <1>2, <3>2 DEF Answers, Local
      <4> QED
        BY <1>1, <1>2, <3>1, <4>1 DEF Books, Kept, Told
    <3>3. CASE Answers(r, FromDatabase)
      <4>1. answer'[r].version = 0
        BY <1>2, <3>3 DEF Answers, FromDatabase
      <4> QED
        BY <1>1, <1>2, <3>1, <4>1 DEF Told
    <3> QED
      BY <2>2, <3>2, <3>3 DEF Shown
  <2>3. CASE Waiting(r)
    <3>1. answer'[r].version = -1
      BY <2>3 DEF Waiting, Waits, Asked, Effect
    <3> QED
      BY <3>1 DEF Told, HasRatings
  <2> QED
    BY <2>1, <2>2, <2>3
<1> QED
  BY <1>3, <1>4, <1>5 DEF Books

LEMMA BooksReplaced ==
    ASSUME TypeOK, Books, NEW r \in Requests, Effect(r), Replaced(r)
    PROVE  Books'
<1> DEFINE i == request'[r].id
           k == request'[r].body
<1>1. /\ i \in Products /\ k \in Kind /\ Put(i, k) /\ Kept
      /\ variant' = variant /\ variant \notin Database
      /\ \A q \in Requests \ {r} : request'[q] = request[q]
  BY DEF Effect, Replaced, Books, process
<1>2. /\ Kept'
      /\ Len(posted'[i]) = Len(posted[i]) + 1
      /\ store'[i] = [version |-> Len(posted[i]) + 1, kind |-> k]
      /\ posted'[i][Len(posted[i]) + 1] = k
      /\ \A j \in Products :
            /\ Len(posted[j]) <= Len(posted'[j])
            /\ \A n \in 1..Len(posted[j]) : posted'[j][n] = posted[j][n]
  BY <1>1, PutKeeps
<1>3. Answers(r, [status |-> 200, version |-> store'[i].version, kind |-> store'[i].kind])
  BY DEF Replaced
<1>4. /\ Len(posted[i]) \in Nat /\ answer \in [Requests -> Response]
      /\ step \in [Requests -> {"new", "body", "timer", "connect", "query", "done"}]
  BY <1>1 DEF TypeOK
<1>5. Told(r)'
  <2>1. answer'[r].version = Len(posted'[i]) /\ answer'[r].kind = posted'[i][Len(posted'[i])]
    BY <1>2, <1>3, <1>4 DEF Answers
  <2> QED
    BY <1>1, <1>2, <1>4, <2>1 DEF Told
<1>6. ASSUME NEW q \in Requests, q # r
      PROVE  Told(q)'
  <2>1. step'[q] = step[q] /\ answer'[q] = answer[q] /\ request'[q] = request[q]
    BY <1>1, <1>3, <1>4, <1>6 DEF Answers
  <2> QED
    BY <1>2, <2>1, ToldKept DEF Books
<1> QED
  BY <1>2, <1>5, <1>6 DEF Books

LEMMA BooksDown ==
    ASSUME TypeOK, Asked, Books, Down
    PROVE  Books' /\ \A r \in Requests : HasRatings(r)' => HasRatings(r)
<1>1. \A r \in Requests : HasRatings(r)' => HasRatings(r)
  BY DEF Down, HasRatings, InFlight, Asked, TypeOK
<1>2. UNCHANGED <<variant, store, request, answer, posted>>
  BY DEF Down
<1> QED
  BY <1>1, <1>2 DEF Books, Kept, Told

LEMMA BooksStep ==
    ASSUME TypeOK, Asked, Books, [Next]_vars
    PROVE  Books'
<1>1. CASE UNCHANGED vars \/ Toggle \/ Sigterm
  BY <1>1 DEF vars, Toggle, Sigterm, history, Books, Kept, Told, HasRatings
<1>2. ASSUME NEW r \in Requests, RequestNext(r)
      PROVE  Books'
  <2>1. Effect(r)
    BY <1>2, Effects
  <2> QED
    BY <2>1, BooksUnchanged, BooksReplaced DEF Effect
<1>3. CASE Exit \/ Kill
  BY <1>3, BooksDown DEF Exit, Kill
<1> QED
  BY <1>1, <1>2, <1>3 DEF Next

(* At any time the store is what the POSTs made it, and every answer that  *)
(* was given agrees with the POSTs of its product.                         *)
THEOREM BooksAlways == Spec => []Books
<1>1. Init => Books
  <2> SUFFICES ASSUME Init
               PROVE  Books
    OBVIOUS
  <2>1. Kept
    BY DEF Init, Kept, Default
  <2>2. \A r \in Requests : Told(r)
    BY DEF Init, Told, HasRatings
  <2> QED
    BY <2>1, <2>2 DEF Books
<1>2. TypeOK /\ Asked /\ Books /\ [Next]_vars => Books'
  BY BooksStep
<1> QED
  BY <1>1, <1>2, TypeCorrect, PTL DEF Spec

(* Whatever was answered about a product, now or seven seconds after it    *)
(* was asked for, is its default or one of the ratings POSTed to it.       *)
THEOREM AnswersAreTraced == Spec => []AnswerTraced
<1>1. TypeOK /\ Books => AnswerTraced
  <2> SUFFICES ASSUME TypeOK, Books, NEW r \in Requests, HasRatings(r),
                      answer[r].version > 0
               PROVE  /\ answer[r].version \in DOMAIN posted[request[r].id]
                      /\ answer[r].kind = posted[request[r].id][answer[r].version]
    BY DEF AnswerTraced
  <2>1. /\ request[r].id \in Products
        /\ answer[r].version <= Len(posted[request[r].id])
        /\ answer[r].kind = posted[request[r].id][answer[r].version]
    BY DEF Books, Told
  <2>2. posted[request[r].id] \in Seq(Kind) /\ answer[r].version \in Int
    BY <2>1 DEF TypeOK, Response
  <2> QED
    BY <2>1, <2>2
<1> QED
  BY <1>1, TypeCorrect, BooksAlways, PTL

(* The ratings of a product never step back: who has seen an answer gets   *)
(* none that is older, whatever order they were asked for in.              *)
THEOREM NeverStepsBack == Spec => NoStepBack
<1> DEFINE Back == \A q, r \in Requests :
          HasRatings(q) /\ ~HasRatings(r) /\ HasRatings(r)'
             /\ request[q].id = request'[r].id
          => answer[q].version <= answer'[r].version
<1>1. TypeOK /\ Asked /\ Books /\ [Next]_vars => Back
  <2> SUFFICES ASSUME TypeOK, Asked, Books, [Next]_vars,
                      NEW q \in Requests, NEW r \in Requests,
                      HasRatings(q), ~HasRatings(r), HasRatings(r)',
                      request[q].id = request'[r].id
               PROVE  answer[q].version <= answer'[r].version
    OBVIOUS
  <2>1. PICK p \in Requests : RequestNext(p)
    <3>1. CASE UNCHANGED vars \/ Toggle \/ Sigterm
      BY <3>1 DEF vars, Toggle, Sigterm, HasRatings
    <3>2. CASE Exit \/ Kill
      BY <3>2, BooksDown DEF Exit, Kill
    <3> QED
      BY <3>1, <3>2 DEF Next
  <2>2. Effect(p)
    BY <2>1, Effects
  <2>3. p = r
    <3>1. \A s \in Requests \ {p} : step'[s] = step[s] /\ answer'[s] = answer[s]
      BY <2>2 DEF Effect, Refused, Shown, Replaced, Waiting, Answers, Waits, TypeOK
    <3> QED
      BY <3>1 DEF HasRatings
  <2>4. /\ answer \in [Requests -> Response] /\ step[r] # "done"
        /\ answer[r].version = -1 /\ answer[q].version \in Int
    BY <2>2, <2>3 DEF TypeOK, Effect, Asked, Response
  <2>5. /\ request[q].id \in Products
        /\ answer[q].version <= Len(posted[request[q].id])
        /\ posted[request[q].id] \in Seq(Kind)
    BY DEF Books, Told, TypeOK
  <2>6. CASE Refused(r) \/ Waiting(r)
    <3>1. answer'[r].version = -1
      BY <2>4, <2>6 DEF Refused, Waiting, Answers, Waits
    <3> QED
      BY <3>1 DEF HasRatings
  <2>7. CASE Shown(r)
    <3>1. CASE Answers(r, Local(request'[r].id))
      BY <2>4, <2>5, <3>1 DEF Answers, Local, Books, Kept
    <3>2. CASE variant \in Database /\ Answers(r, FromDatabase)
      BY <2>4, <2>5, <3>2 DEF Answers, FromDatabase, Books, Kept
    <3> QED
      BY <2>7, <3>1, <3>2 DEF Shown
  <2>8. CASE Replaced(r)
    <3> DEFINE i == request'[r].id
               k == request'[r].body
    <3>1. /\ i \in Products /\ k \in Kind /\ Put(i, k)
          /\ variant' = variant /\ variant \notin Database /\ Kept
      BY <2>2, <2>3, <2>8 DEF Effect, Replaced, Books, process
    <3>2. store'[i] = [version |-> Len(posted[i]) + 1, kind |-> k]
      BY <3>1, PutKeeps
    <3>3. answer'[r].version = Len(posted[i]) + 1
      BY <2>4, <2>8, <3>2 DEF Replaced, Answers
    <3>4. i = request[q].id /\ Len(posted[i]) \in Nat
      BY <2>5
    <3> QED
      BY <2>4, <2>5, <3>3, <3>4
  <2> QED
    BY <2>2, <2>3, <2>6, <2>7, <2>8 DEF Effect
<1> QED
  BY <1>1, TypeCorrect, BooksAlways, PTL DEF Spec, NoStepBack

-----------------------------------------------------------------------------
(* A database connection that was opened is closed when its result or an   *)
(* error came, on every path.                                              *)
THEOREM ConnectionsClosed == Spec => []NoConnectionLeak
<1>1. Init => NoConnectionLeak
  BY DEF Init, NoConnectionLeak
<1>2. TypeOK /\ NoConnectionLeak /\ [Next]_vars => NoConnectionLeak'
  <2> SUFFICES ASSUME TypeOK, NoConnectionLeak, [Next]_vars
               PROVE  NoConnectionLeak'
    OBVIOUS
  <2>1. CASE UNCHANGED vars \/ Toggle \/ Sigterm \/ Exit \/ Kill
    BY <2>1 DEF vars, Toggle, Sigterm, Exit, Kill, Down, NoConnectionLeak
  <2>2. ASSUME NEW r \in Requests, RequestNext(r)
        PROVE  NoConnectionLeak'
    <3>1. \A q \in Requests \ {r} : step'[q] = step[q]
      BY <2>2 DEF RequestNext, Get, GetNumber, Health, PostArrives, PostEnd,
                  PostAborted, Delayed, Connected, NotConnected, Queried,
                  Answers, Waits, TypeOK
    <3>2. CASE Connected(r)
      BY <3>1, <3>2 DEF Connected, Waits, NoConnectionLeak, TypeOK
    <3>3. CASE Queried(r)
      BY <3>1, <3>3 DEF Queried, NoConnectionLeak
    <3>4. CASE ~Connected(r) /\ ~Queried(r)
      <4>1. open' = open
        BY <2>2, <3>4 DEF RequestNext, Get, Health, PostArrives, Arrives, PostEnd,
                  PostAborted, Delayed, NotConnected
      <4>2. step[r] # "query"
        BY <2>2, <3>4 DEF RequestNext, Get, Health, PostArrives, Arrives, PostEnd,
                  PostAborted, Delayed, NotConnected
      <4> QED
        BY <3>1, <4>1, <4>2 DEF NoConnectionLeak
    <3> QED
      BY <3>2, <3>3, <3>4
  <2> QED
    BY <2>1, <2>2 DEF Next
<1> QED
  BY <1>1, <1>2, TypeCorrect, PTL DEF Spec

(* The health check fails exactly while v-unhealthy refuses ratings.       *)
THEOREM HealthIsTruthful == Spec => []HealthTruthful
<1>1. Init => HealthTruthful
  BY DEF Init, HealthTruthful
<1>2. TypeOK /\ Asked /\ HealthTruthful /\ [Next]_vars => HealthTruthful'
  <2> SUFFICES ASSUME TypeOK, Asked, HealthTruthful, [Next]_vars
               PROVE  HealthTruthful'
    OBVIOUS
  <2>1. unavailable \in BOOLEAN /\ healthy \in BOOLEAN
    BY DEF TypeOK
  <2>2. CASE Toggle
    BY <2>1, <2>2, Zenon DEF Toggle, HealthTruthful
  <2>3. CASE UNCHANGED vars \/ Sigterm \/ Exit \/ Kill
    BY <2>3 DEF vars, Sigterm, Exit, Kill, Down, HealthTruthful
  <2>4. ASSUME NEW r \in Requests, RequestNext(r)
        PROVE  HealthTruthful'
    BY <2>4, Effects DEF Effect, process, HealthTruthful
  <2> QED
    BY <2>2, <2>3, <2>4 DEF Next
<1> QED
  BY <1>1, <1>2, TypeCorrect, PTL DEF Spec
=============================================================================
