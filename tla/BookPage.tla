------------------------------ MODULE BookPage ------------------------------
(***************************************************************************)
(* The request path of Bookinfo (Istio/samples/bookinfo/src): the threads  *)
(* of productpage.py that render /productpage, the reviews service         *)
(* (LibertyRestEndpoint.java) and its calls to ratings, with the timeouts  *)
(* of each hop.                                                            *)
(*                                                                         *)
(* Both clients limit how long they connect and, once connected, how long  *)
(* they wait for the answer: two limits, each as long as the timeout, so   *)
(* that a request may take twice that.  getProductReviews asks reviews     *)
(* twice at most; reviews goes on with a call nobody waits for any more,   *)
(* until ratings answers or its own limits end.  Time is in ticks of half  *)
(* a second.  A connection takes up to mesh.lag, details and ratings any   *)
(* time, and reviews none of its own.  Every answer is built before it is  *)
(* sent, a few hundred bytes that one read takes.                          *)
(***************************************************************************)
EXTENDS Integers, FiniteSets

CONSTANTS
    Pages,          \* the requests for /productpage
    FloodFactor,    \* flood_factor: extra rounds of reviews calls per page
    PageTimeout,    \* timeout=3.0 of requests.get: to connect, and to read
    Versions,       \* the deployed versions of reviews
    Routes,         \* the sets of them a VirtualService may send calls to
    Rated,          \* those with ENABLE_RATINGS
    RatingsTimeout, \* their connection timeout, which is their receive
                    \* timeout too: 10000 ms if stars are black, else 2500
    Delays,         \* what a VirtualService may delay ratings by (fault delay)
    Lags,           \* how long a connection may take
    RatingsKinds,   \* what ratings answers: subset of AnswerKinds
    ReviewsMayFail, \* may a call of reviews be refused or cut off?
    MaxRatings      \* bound: POSTs to ratings in a behaviour

(* "stars": status 200 with numbers for both reviewers.  "error": another  *)
(* status, no connection, or status 200 without "ratings" (the MySQL       *)
(* variant that cannot connect).  "malformed": ratings somebody POSTed     *)
(* that are no numbers.                                                    *)
AnswerKinds == {"stars", "error", "malformed"}

ASSUME PageAssumption ==
    /\ FloodFactor \in Nat
    /\ PageTimeout \in Nat \ {0}
    /\ Versions # {}
    /\ Routes \subseteq SUBSET Versions \ {{}} /\ Routes # {}
    /\ Rated \subseteq Versions
    /\ RatingsTimeout \in [Rated -> Nat \ {0}]
    /\ \A route \in Routes : route \cap Rated # {} =>
          \E v \in route \cap Rated : \A w \in route \cap Rated :
             RatingsTimeout[w] <= RatingsTimeout[v]
    /\ Delays \subseteq Nat /\ Delays # {}
    /\ Lags \subseteq Nat /\ Lags # {}
    /\ RatingsKinds \subseteq AnswerKinds
    /\ ReviewsMayFail \in BOOLEAN
    /\ MaxRatings \in Nat

VARIABLES
    mesh,     \* the VirtualServices that apply: the versions of reviews calls
              \* are routed to, and the delay of ratings; and the longest
              \* time a connection takes
    pc,       \* pc[p]: what the thread of page p waits for
    round,    \* the getProductReviews it is in: the last one is shown
    attempt,  \* the attempt of that round
    linked,   \* is the connection of the request it waits for made?
    waited,   \* ticks since it began to connect or, if linked, since then
    calls,    \* calls[p][<<r, a>>]: the reviews call of round r, attempt a
    ratings,  \* how often POST /ratings replaced the ratings
    since,    \* ratings when the current attempt began
    shown,    \* the reviews the page got
    elapsed   \* ticks since the page was asked for

vars == <<mesh, pc, round, attempt, linked, waited, calls, ratings, since, shown,
          elapsed>>

Rounds == 1..(FloodFactor + 1)
Attempts == {1, 2}
CallIds == Rounds \X Attempts

(* A response of reviews: its status and, if it shows stars, the ratings   *)
(* they are from (-1: no stars, or "currently unavailable").               *)
Response == [status : {200, 500}, stars : Int]
Failed == [status |-> 500, stars |-> -1]

(* A reviews call: not made, connecting to ratings, connected to ratings   *)
(* since age was asked, or with its answer.  Age: ticks since reviews got  *)
(* it.                                                                     *)
NoCall == [state |-> "none", version |-> CHOOSE v \in Versions : TRUE,
           age |-> 0, asked |-> 0, answer |-> Failed]
Closed == [NoCall EXCEPT !.state = "closed"]
Call == [state : {"none", "dialing", "asking", "ready", "closed"},
         version : Versions, age : Nat, asked : Nat, answer : Response]

IsOpen(call) == call.state \in {"dialing", "asking"}

TypeOK ==
    /\ mesh \in [routes : Routes, delay : Delays, lag : Lags]
    /\ pc \in [Pages -> {"idle", "details", "reviews", "done"}]
    /\ round \in [Pages -> Rounds]
    /\ attempt \in [Pages -> Attempts]
    /\ linked \in [Pages -> BOOLEAN]
    /\ waited \in [Pages -> 0..PageTimeout]
    /\ calls \in [Pages -> [CallIds -> Call]]
    /\ ratings \in Nat
    /\ since \in [Pages -> Nat]
    /\ shown \in [Pages -> Response]
    /\ elapsed \in [Pages -> Nat]

Init ==
    /\ mesh \in [routes : Routes, delay : Delays, lag : Lags]
    /\ pc = [p \in Pages |-> "idle"]
    /\ round = [p \in Pages |-> 1]
    /\ attempt = [p \in Pages |-> 1]
    /\ linked = [p \in Pages |-> FALSE]
    /\ waited = [p \in Pages |-> 0]
    /\ calls = [p \in Pages |-> [c \in CallIds |-> NoCall]]
    /\ ratings = 0
    /\ since = [p \in Pages |-> 0]
    /\ shown = [p \in Pages |-> Failed]
    /\ elapsed = [p \in Pages |-> 0]

Current(p) == <<round[p], attempt[p]>>

-----------------------------------------------------------------------------
(* productpage *)

(* The thread begins attempt a of round r: requests.get connects.          *)
Ask(p, r, a, others) ==
    /\ calls' = [calls EXCEPT ![p] = others]
    /\ pc' = [pc EXCEPT ![p] = "reviews"]
    /\ round' = [round EXCEPT ![p] = r]
    /\ attempt' = [attempt EXCEPT ![p] = a]
    /\ linked' = [linked EXCEPT ![p] = FALSE]
    /\ waited' = [waited EXCEPT ![p] = 0]
    /\ since' = [since EXCEPT ![p] = ratings]
    /\ UNCHANGED shown

(* The round is over: another flood round, or the page can be rendered.    *)
EndRound(p, response, others) ==
    IF round[p] <= FloodFactor
    THEN Ask(p, round[p] + 1, 1, others)
    ELSE /\ pc' = [pc EXCEPT ![p] = "done"]
         /\ shown' = [shown EXCEPT ![p] = response]
         /\ calls' = [calls EXCEPT ![p] = others]
         /\ linked' = [linked EXCEPT ![p] = FALSE]
         /\ waited' = [waited EXCEPT ![p] = 0]
         /\ UNCHANGED <<round, attempt, since>>

(* Bug: the thread keeps listening to the attempt it gave up on.           *)
RetryOnSame(p, others) ==
    IF attempt[p] = 1
    THEN /\ attempt' = [attempt EXCEPT ![p] = 2]
         /\ waited' = [waited EXCEPT ![p] = 0]
         /\ since' = [since EXCEPT ![p] = ratings]
         /\ calls' = [calls EXCEPT ![p] =
                       [others EXCEPT ![<<round[p], 2>>] = others[<<round[p], 1>>]]]
         /\ UNCHANGED <<pc, round, linked, shown>>
    ELSE EndRound(p, Failed, others)

(* Bug: the loop has no end.                                               *)
RetryForever(p, others) == Ask(p, round[p], 2, others)

(* The attempt failed: try again once, then report the failure.            *)
Retry(p, others) ==
    IF attempt[p] = 1
    THEN Ask(p, round[p], 2, others)
    ELSE EndRound(p, Failed, others)

(* GET /productpage: details first.                                        *)
Front(p) ==
    /\ pc[p] = "idle"
    /\ pc' = [pc EXCEPT ![p] = "details"]
    /\ UNCHANGED <<mesh, round, attempt, linked, waited, calls, ratings, since,
                   shown, elapsed>>

(* The connection of a request is made, and the request sent on it: one    *)
(* for reviews reaches a version that the proxy picks.                     *)
Connect(p) ==
    /\ pc[p] \in {"details", "reviews"}
    /\ ~linked[p]
    /\ linked' = [linked EXCEPT ![p] = TRUE]
    /\ waited' = [waited EXCEPT ![p] = 0]
    /\ IF pc[p] = "reviews"
       THEN \E v \in mesh.routes :
               calls' = [calls EXCEPT ![p][Current(p)] =
                           [NoCall EXCEPT !.state = "dialing", !.version = v]]
       ELSE UNCHANGED calls
    /\ UNCHANGED <<mesh, pc, round, attempt, ratings, since, shown, elapsed>>

(* getProductDetails returns: an answer, an error or the timeout.  In any  *)
(* case the flood, if there is one, and then the reviews come next.        *)
Details(p) ==
    /\ pc[p] = "details"
    /\ Ask(p, 1, 1, calls[p])
    /\ UNCHANGED <<mesh, ratings, elapsed>>

(* Bug: only the first attempt is guarded.                                 *)
ReviewsTimeoutOnce(p) ==
    /\ pc[p] = "reviews"
    /\ waited[p] = PageTimeout
    /\ attempt[p] = 1
    /\ Retry(p, calls[p])
    /\ UNCHANGED <<mesh, ratings, elapsed>>

(* Bug: milliseconds for seconds.                                          *)
ReviewsTimeoutEarly(p) ==
    /\ pc[p] = "reviews"
    /\ waited[p] > 0
    /\ Retry(p, calls[p])
    /\ UNCHANGED <<mesh, ratings, elapsed>>

(* requests.get raises after PageTimeout: ConnectTimeout if it has no      *)
(* connection yet, ReadTimeout if it waits for the answer.                 *)
ReviewsTimeout(p) ==
    /\ pc[p] = "reviews"
    /\ waited[p] = PageTimeout
    /\ Retry(p, calls[p])
    /\ UNCHANGED <<mesh, ratings, elapsed>>

(* The connection is refused, or the pod of reviews ends: requests.get     *)
(* raises before the timeout.                                              *)
ReviewsFail(p) ==
    /\ ReviewsMayFail
    /\ pc[p] = "reviews"
    /\ \/ /\ ~linked[p]
          /\ Retry(p, calls[p])
       \/ /\ linked[p]
          /\ IsOpen(calls[p][Current(p)])
          /\ Retry(p, [calls[p] EXCEPT ![Current(p)] = Closed])
    /\ UNCHANGED <<mesh, ratings, elapsed>>

-----------------------------------------------------------------------------
(* reviews *)

(* The answer of call c is known; it will be sent before time goes on.     *)
Answer(p, c, answer) ==
    /\ calls' = [calls EXCEPT ![p][c].state = "ready", ![p][c].answer = answer]
    /\ UNCHANGED <<mesh, pc, round, attempt, linked, waited, ratings, since,
                   shown, elapsed>>

(* bookReviewsById without ratings.                                        *)
AnswerUnrated(p, c) ==
    /\ IsOpen(calls[p][c])
    /\ calls[p][c].version \notin Rated
    /\ Answer(p, c, [status |-> 200, stars |-> -1])

(* getRatings connects to ratings.                                         *)
RatingsConnect(p, c) ==
    /\ calls[p][c].state = "dialing"
    /\ calls[p][c].version \in Rated
    /\ calls' = [calls EXCEPT ![p][c].state = "asking",
                              ![p][c].asked = calls[p][c].age]
    /\ UNCHANGED <<mesh, pc, round, attempt, linked, waited, ratings, since,
                   shown, elapsed>>

(* The connection is refused.  A proxy that delays ratings accepts it.     *)
RatingsRefuse(p, c) ==
    /\ calls[p][c].state = "dialing"
    /\ calls[p][c].version \in Rated
    /\ "error" \in RatingsKinds /\ mesh.delay = 0
    /\ Answer(p, c, [status |-> 200, stars |-> -1])

(* ratings answers; the container answers 500 for ratings getInt refuses.  *)
RatingsAnswer(p, c) ==
    /\ calls[p][c].state = "asking"
    /\ calls[p][c].version \in Rated
    /\ calls[p][c].age - calls[p][c].asked >= mesh.delay
    /\ \E kind \in RatingsKinds :
          Answer(p, c, CASE kind = "stars" -> [status |-> 200, stars |-> ratings]
                         [] kind = "error" -> [status |-> 200, stars |-> -1]
                         [] kind = "malformed" -> Failed)

(* How long the call has been connecting or, once connected, waiting.      *)
Spent(call) == IF call.state = "asking" THEN call.age - call.asked ELSE call.age

(* Bug: a failure to read ratings is an error of reviews.                  *)
RatingsGiveUpFails(p, c) ==
    /\ IsOpen(calls[p][c])
    /\ calls[p][c].version \in Rated
    /\ Spent(calls[p][c]) = RatingsTimeout[calls[p][c].version]
    /\ Answer(p, c, Failed)

(* getRatings gives up connecting, or waiting for the answer: the reviews  *)
(* are shown without stars.                                                *)
RatingsGiveUp(p, c) ==
    /\ IsOpen(calls[p][c])
    /\ calls[p][c].version \in Rated
    /\ Spent(calls[p][c]) = RatingsTimeout[calls[p][c].version]
    /\ Answer(p, c, [status |-> 200, stars |-> -1])

(* Page p waits for the answer to call c.                                  *)
Listening(p, c) == pc[p] = "reviews" /\ linked[p] /\ c = Current(p)

(* reviews sends its answer: to the attempt that waits for it, or to a     *)
(* connection productpage has closed.                                      *)
ReviewsAnswer(p, c) ==
    /\ calls[p][c].state = "ready"
    /\ LET others == [calls[p] EXCEPT ![c] = Closed]
       IN IF Listening(p, c)
          THEN IF calls[p][c].answer.status = 200
               THEN EndRound(p, calls[p][c].answer, others)
               ELSE Retry(p, others)
          ELSE /\ calls' = [calls EXCEPT ![p] = others]
               /\ UNCHANGED <<pc, round, attempt, linked, waited, since, shown>>
    /\ UNCHANGED <<mesh, ratings, elapsed>>

(* POST /ratings/0 replaces the ratings.                                   *)
PostRatings ==
    /\ ratings < MaxRatings
    /\ ratings' = ratings + 1
    /\ UNCHANGED <<mesh, pc, round, attempt, linked, waited, calls, since, shown,
                   elapsed>>

-----------------------------------------------------------------------------
(* Half a second passes: no connection takes longer than mesh.lag, no wait *)
(* longer than its timeout, and an answer that is ready is sent before.    *)
Waiting(p) == pc[p] \in {"details", "reviews"}

Open(p) == {c \in CallIds : IsOpen(calls[p][c])}

Shorter(a, b) == IF a <= b THEN a ELSE b

MayTick(p) ==
    /\ Waiting(p) =>
          waited[p] < IF linked[p] THEN PageTimeout ELSE Shorter(mesh.lag, PageTimeout)
    /\ \A c \in CallIds : calls[p][c].state # "ready"
    /\ \A c \in Open(p) :
          LET call == calls[p][c]
              limit == RatingsTimeout[call.version]
          IN  /\ call.version \in Rated
              /\ Spent(call) < IF call.state = "asking" THEN limit
                               ELSE Shorter(mesh.lag, limit)

Tick ==
    /\ \E p \in Pages : Waiting(p) \/ Open(p) # {}
    /\ \A p \in Pages : MayTick(p)
    /\ waited' = [p \in Pages |-> IF Waiting(p) THEN waited[p] + 1 ELSE waited[p]]
    /\ elapsed' = [p \in Pages |-> IF Waiting(p) THEN elapsed[p] + 1 ELSE elapsed[p]]
    /\ calls' = [p \in Pages |-> [c \in CallIds |->
                   IF c \in Open(p)
                   THEN [calls[p][c] EXCEPT !.age = @ + 1]
                   ELSE calls[p][c]]]
    /\ UNCHANGED <<mesh, pc, round, attempt, linked, ratings, since, shown>>

PageNext(p) ==
    \/ Front(p)
    \/ Connect(p)
    \/ Details(p)
    \/ ReviewsTimeout(p)
    \/ ReviewsFail(p)
    \/ \E c \in CallIds :
          \/ AnswerUnrated(p, c) \/ RatingsConnect(p, c) \/ RatingsRefuse(p, c)
          \/ RatingsAnswer(p, c) \/ RatingsGiveUp(p, c) \/ ReviewsAnswer(p, c)

Next == (\E p \in Pages : PageNext(p)) \/ PostRatings \/ Tick

Spec == Init /\ [][Next]_vars

(* Timeouts fire, connections are made within mesh.lag if that is before   *)
(* the timeout, answers are sent and time passes.  Details and ratings     *)
(* need never answer.                                                      *)
Fairness ==
    /\ WF_vars(Tick)
    /\ \A p \in Pages :
          /\ WF_vars(waited[p] = mesh.lag /\ Connect(p))
          /\ WF_vars(waited[p] = PageTimeout /\ Details(p))
          /\ WF_vars(ReviewsTimeout(p))
          /\ \A c \in CallIds :
                /\ WF_vars(AnswerUnrated(p, c))
                /\ WF_vars(calls[p][c].age = mesh.lag /\ RatingsConnect(p, c))
                /\ WF_vars(RatingsGiveUp(p, c))
                /\ WF_vars(ReviewsAnswer(p, c))

FairSpec == Spec /\ Fairness

-----------------------------------------------------------------------------
(* Properties *)

(* A page is rendered, or still waiting, within the limits of its own      *)
(* requests, one for details and two for each round of reviews calls,      *)
(* however slow details, reviews and ratings are: each request costs up to *)
(* PageTimeout for its answer after the time its connection takes, which   *)
(* is up to PageTimeout again.                                             *)
LongestRequest == PageTimeout + Shorter(mesh.lag, PageTimeout)
PageInTime ==
    \A p \in Pages : elapsed[p] <= LongestRequest * (1 + 2 * (FloodFactor + 1))

(* When reviews is done with ratings, connecting and waiting, sooner than  *)
(* productpage is tired of reviews (the red stars' 2.5 s and a connection  *)
(* of less than 0.5 s, or no ratings at all), the page shows reviews       *)
(* whatever ratings does.  With slower connections the two limits of 2.5 s *)
(* add up to more than 3 s, and the 2.5 s alone promise nothing.           *)
LongestCall(v) == RatingsTimeout[v] + Shorter(mesh.lag, RatingsTimeout[v])
ReviewsAlwaysShown ==
    (/\ mesh.lag < PageTimeout
     /\ \A v \in mesh.routes \cap Rated : LongestCall(v) < PageTimeout
     /\ "malformed" \notin RatingsKinds
     /\ ~ReviewsMayFail)
       => \A p \in Pages : pc[p] = "done" => shown[p].status = 200

(* The fault the fault-injection task is about ("Bug introduced explicitly *)
(* for illustration", productpage.py line 353): when ratings needs longer  *)
(* than PageTimeout, a version that waits for it longer than that never    *)
(* gets its reviews shown, although it answers 200 to every call: each     *)
(* answer comes after its attempt was given up.                            *)
DelayHidesReviews ==
    (mesh.delay > PageTimeout /\ \A v \in mesh.routes :
        v \in Rated /\ RatingsTimeout[v] > PageTimeout)
       => \A p \in Pages :
             /\ pc[p] = "done" => shown[p].status = 500
             /\ "malformed" \notin RatingsKinds =>
                   \A c \in CallIds : calls[p][c].state = "ready" =>
                      /\ calls[p][c].answer.status = 200
                      /\ ~Listening(p, c)

(* The stars a page shows are no older than the attempt they were asked    *)
(* for with: a late answer to an earlier attempt is never taken for them.  *)
ShownFresh ==
    \A p \in Pages : pc[p] = "done" /\ shown[p].stars # -1
                        => shown[p].stars >= since[p]

(* A page leaves no more calls running in reviews than fit in the longest  *)
(* life of a call, connecting to ratings and waiting for them, one per     *)
(* timeout of the page: four with black stars and quick connections, and   *)
(* up to seven if connecting takes its 10 s as well.                       *)
LongestRatings ==
    LET times == {RatingsTimeout[v] : v \in mesh.routes \cap Rated}
    IN  IF times = {} THEN 0
        ELSE CHOOSE t \in times : \A u \in times : u <= t
LongestLife == LongestRatings + Shorter(mesh.lag, LongestRatings)
OpenBounded ==
    \A p \in Pages : Cardinality(Open(p)) <= LongestLife \div PageTimeout + 1

(* Every page that is asked for is rendered.                               *)
PageRendered == \A p \in Pages : pc[p] = "details" ~> pc[p] = "done"

(* "flood reviews with unnecessary requests ..., asynchoronously": no      *)
(* flood request waits for another one, so where connections take no time  *)
(* all of them have been sent by the time any of them has waited.          *)
FloodAsynchronous ==
    \A p \in Pages :
       mesh.lag = 0 /\ pc[p] = "reviews" /\ round[p] <= FloodFactor /\ waited[p] > 0
          => \A r \in 1..FloodFactor : calls[p][<<r, 1>>].state # "none"
=============================================================================
