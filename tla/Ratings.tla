------------------------------- MODULE Ratings -------------------------------
(***************************************************************************)
(* The ratings service of Bookinfo (src/ratings/ratings.js): one process,  *)
(* its requests, its timers and the callbacks of its databases.            *)
(*                                                                         *)
(* A GET is handled when it arrives; the database variants answer from a   *)
(* callback, and v-delayed answers every other GET from a timer.  A POST   *)
(* is handled when its body has come.  The variants v-unavailable and      *)
(* v-unhealthy flip their flags on an interval.  SIGTERM closes the        *)
(* server, and the process ends when no connection is left.                *)
(***************************************************************************)
EXTENDS Integers, Sequences

CONSTANTS
    Requests,   \* the requests of a behaviour
    Products,   \* the products they are about
    NaN,        \* ... or a URL parseInt finds no number in
    Variants,   \* the values of SERVICE_VERSION and DB_TYPE
    MaxFaults   \* bound: signals and kills

Toggling == {"v-unavailable", "v-unhealthy"}
Database == {"mysql", "mongodb"}
AllVariants == {"v1", "v-faulty", "v-delayed"} \cup Toggling \cup Database

ASSUME RatingsAssumption ==
    /\ NaN \notin Products
    /\ Variants \subseteq AllVariants
    /\ MaxFaults \in Nat

VARIABLES
    variant,     \* the environment of the process
    phase,       \* "up", "closing" after SIGTERM, or "down"
    unavailable, \* the flag of the same name
    healthy,     \* the flag of the same name
    store,       \* userAddedRatings: how often replaced, and with what
    request,     \* request[r]: what r asks, once it has arrived
    step,        \* step[r]: where its handler is
    sent,        \* sent[r]: how often res.end was called for it
    answer,      \* answer[r]: with what
    open,        \* the requests that hold a database connection
    posted,      \* history: posted[i]: the ratings POSTed since the start
    gone,        \* history: requests cut off by their client or a kill
    faults       \* bound

vars == <<variant, phase, unavailable, healthy, store, request, step, sent,
          answer, open, posted, gone, faults>>

process == <<variant, phase, unavailable, healthy>>
history == <<posted, gone>>

(* Ratings as reviews reads them: numbers, or anything else that is JSON.  *)
Kind == {"numbers", "other"}
Body == Kind \cup {"no JSON", "none"}
Ask == [op : {"get", "post", "health"}, id : Products \cup {NaN}, body : Body]
Rating == [version : Nat, kind : Kind]
Status == {200, 400, 500, 501, 503}

(* Version -1: no ratings in the answer.                                   *)
Response == [status : Status, version : Int, kind : Kind \cup {"error"}]
Error(s) == [status |-> s, version |-> -1, kind |-> "error"]

Default == [version |-> 0, kind |-> "numbers"]
FromDatabase == [status |-> 200, version |-> 0, kind |-> "numbers"]

NoAsk == [op |-> "health", id |-> NaN, body |-> "none"]

TypeOK ==
    /\ variant \in Variants
    /\ phase \in {"up", "closing", "down"}
    /\ unavailable \in BOOLEAN /\ healthy \in BOOLEAN
    /\ store \in [Products -> Rating]
    /\ request \in [Requests -> Ask]
    /\ step \in [Requests -> {"new", "body", "timer", "connect", "query", "done"}]
    /\ \A r \in Requests : step[r] = "body" => request[r].body # "none"
    /\ sent \in [Requests -> Nat]
    /\ answer \in [Requests -> Response]
    /\ open \subseteq Requests
    /\ posted \in [Products -> Seq(Kind)]
    /\ gone \subseteq Requests
    /\ faults \in 0..MaxFaults

Init ==
    /\ variant \in Variants
    /\ phase = "up"
    /\ unavailable = FALSE /\ healthy = TRUE
    /\ store = [i \in Products |-> Default]
    /\ request = [r \in Requests |-> NoAsk]
    /\ step = [r \in Requests |-> "new"]
    /\ sent = [r \in Requests |-> 0]
    /\ answer = [r \in Requests |-> Error(500)]
    /\ open = {}
    /\ posted = [i \in Products |-> <<>>]
    /\ gone = {}
    /\ faults = 0

InFlight == {r \in Requests : step[r] \notin {"new", "done"}}

-----------------------------------------------------------------------------
(* The handler calls res.end, and there is no more to do for r.            *)
Answers(r, a) ==
    /\ step' = [step EXCEPT ![r] = "done"]
    /\ sent' = [sent EXCEPT ![r] = @ + 1]
    /\ answer' = [answer EXCEPT ![r] = a]

Waits(r, s) ==
    /\ step' = [step EXCEPT ![r] = s]
    /\ UNCHANGED <<sent, answer>>

(* Request r arrives.                                                      *)
Arrives(r, ask) ==
    /\ phase = "up"
    /\ step[r] = "new"
    /\ request' = [request EXCEPT ![r] = ask]
    /\ UNCHANGED <<process, open, history, faults>>

(* getLocalReviews.                                                        *)
Local(i) == [status |-> 200, version |-> store[i].version, kind |-> store[i].kind]

(* GET /ratings/i                                                          *)
GetNumber(r, i) ==
    \/ variant \in Database /\ Waits(r, "connect")
    \/ variant = "v-delayed" /\ Waits(r, "timer")
    \/ /\ variant = "v-faulty" \/ (variant \in Toggling /\ unavailable)
       /\ Answers(r, Error(503))
    \/ /\ variant \in {"v1", "v-faulty", "v-delayed"}
             \/ (variant \in Toggling /\ ~unavailable)
       /\ Answers(r, Local(i))

Get(r) ==
    \E i \in Products \cup {NaN} :
       /\ Arrives(r, [op |-> "get", id |-> i, body |-> "none"])
       /\ UNCHANGED store
       /\ IF i = NaN THEN Answers(r, Error(400)) ELSE GetNumber(r, i)

(* Bug: the delayed answer forgets what users added.                       *)
DelayedDefault(r) ==
    /\ step[r] = "timer"
    /\ Answers(r, [status |-> 200, version |-> 0, kind |-> "numbers"])
    /\ UNCHANGED <<process, store, request, open, history, faults>>

(* Bug: SIGTERM clears the timers.                                         *)
DelayedCleared(r) ==
    /\ step[r] = "timer"
    /\ phase = "up"
    /\ Answers(r, Local(request[r].id))
    /\ UNCHANGED <<process, store, request, open, history, faults>>

(* The 7 s are over: what is answered is what the store holds now.         *)
Delayed(r) ==
    /\ step[r] = "timer"
    /\ Answers(r, Local(request[r].id))
    /\ UNCHANGED <<process, store, request, open, history, faults>>

(* GET /health                                                             *)
Health(r) ==
    /\ Arrives(r, [op |-> "health", id |-> NaN, body |-> "none"])
    /\ Answers(r, [status |-> IF healthy THEN 200 ELSE 500,
                   version |-> -1, kind |-> "error"])
    /\ UNCHANGED store

-----------------------------------------------------------------------------
(* POST /ratings/i: httpdispatcher waits for the body ...                  *)
PostArrives(r) ==
    \E i \in Products \cup {NaN}, b \in Body \ {"none"} :
       /\ Arrives(r, [op |-> "post", id |-> i, body |-> b])
       /\ Waits(r, "body")
       /\ UNCHANGED store

(* Bug: whatever the product, all have the new ratings.                    *)
PutEverywhere(i, kind) ==
    /\ store' = [j \in Products |-> [version |-> store[i].version + 1, kind |-> kind]]
    /\ posted' = [posted EXCEPT ![i] = Append(@, kind)]

(* putLocalReviews.                                                        *)
Put(i, kind) ==
    /\ store' = [store EXCEPT ![i] = [version |-> @.version + 1, kind |-> kind]]
    /\ posted' = [posted EXCEPT ![i] = Append(@, kind)]

Refusal(ask) ==
    Error(IF ask.id = NaN \/ ask.body = "no JSON" THEN 400 ELSE 501)

(* ... and then the handler runs.                                          *)
PostEnd(r) ==
    LET ask == request[r]
    IN /\ step[r] = "body"
       /\ UNCHANGED <<process, request, open, gone, faults>>
       /\ IF ask.id = NaN \/ ask.body = "no JSON" \/ variant \in Database
          THEN Answers(r, Refusal(ask)) /\ UNCHANGED <<store, posted>>
          ELSE /\ Put(ask.id, ask.body)
               /\ Answers(r, Local(ask.id)')

(* The client goes away before its body is complete.                       *)
PostAborted(r) ==
    /\ step[r] = "body"
    /\ Waits(r, "done")
    /\ gone' = gone \cup {r}
    /\ UNCHANGED <<process, store, request, open, posted, faults>>

-----------------------------------------------------------------------------
(* The databases *)

Connected(r) ==
    /\ step[r] = "connect"
    /\ Waits(r, "query")
    /\ open' = open \cup {r}
    /\ UNCHANGED <<process, store, request, history, faults>>

(* MySQL: writeHead is not called, so the status is 200.                   *)
NoDatabase == Error(IF variant = "mysql" THEN 200 ELSE 500)

(* Bug: the return after the first res.end is missing.                     *)
NotConnectedGoesOn(r) ==
    /\ step[r] = "connect"
    /\ step' = [step EXCEPT ![r] = "query"]
    /\ sent' = [sent EXCEPT ![r] = @ + 1]
    /\ answer' = [answer EXCEPT ![r] = NoDatabase]
    /\ UNCHANGED <<process, store, request, open, history, faults>>

NotConnected(r) ==
    /\ step[r] = "connect"
    /\ Answers(r, NoDatabase)
    /\ UNCHANGED <<process, store, request, open, history, faults>>

(* The result of the query, or an error; the connection is closed.         *)
Queried(r) ==
    /\ step[r] = "query"
    /\ Answers(r, FromDatabase) \/ Answers(r, Error(500))
    /\ open' = open \ {r}
    /\ UNCHANGED <<process, store, request, history, faults>>

-----------------------------------------------------------------------------
(* Timers and signals *)

(* The interval of v-unavailable (1 min) or v-unhealthy (15 min).          *)
Toggle ==
    /\ phase # "down"
    /\ variant \in Toggling
    /\ unavailable' = ~unavailable
    /\ healthy' = IF variant = "v-unhealthy" THEN ~healthy ELSE healthy
    /\ UNCHANGED <<variant, phase, store, request, step, sent, answer, open,
                   history, faults>>

Fault ==
    /\ faults < MaxFaults
    /\ faults' = faults + 1

(* What the end of the process does to the requests it holds.              *)
Down ==
    /\ phase' = "down"
    /\ step' = [r \in Requests |-> IF r \in InFlight THEN "done" ELSE step[r]]
    /\ open' = {}
    /\ UNCHANGED <<variant, unavailable, healthy, store, request, sent, answer,
                   posted>>

(* Bug: the handler exits instead of closing the server.                   *)
SigtermExits ==
    /\ phase = "up"
    /\ Fault
    /\ Down
    /\ UNCHANGED gone

(* server.close: nothing new is accepted.                                  *)
Sigterm ==
    /\ phase = "up"
    /\ Fault
    /\ phase' = "closing"
    /\ UNCHANGED <<variant, unavailable, healthy, store, request, step, sent,
                   answer, open, history>>

(* Bug: without process.exit an interval keeps the process alive.          *)
ExitWithoutTimers ==
    /\ phase = "closing"
    /\ InFlight = {}
    /\ variant \notin Toggling
    /\ Down
    /\ UNCHANGED <<gone, faults>>

(* Its callback: the last connection is gone.                              *)
Exit ==
    /\ phase = "closing"
    /\ InFlight = {}
    /\ Down
    /\ UNCHANGED <<gone, faults>>

(* SIGKILL, or the end of the grace period.                                *)
Kill ==
    /\ phase # "down"
    /\ Fault
    /\ Down
    /\ gone' = gone \cup InFlight

-----------------------------------------------------------------------------
RequestNext(r) ==
    \/ Get(r)
    \/ Health(r)
    \/ PostArrives(r)
    \/ PostEnd(r)
    \/ PostAborted(r)
    \/ Delayed(r)
    \/ Connected(r)
    \/ NotConnected(r)
    \/ Queried(r)

Next ==
    \/ \E r \in Requests : RequestNext(r)
    \/ Toggle
    \/ Sigterm
    \/ Exit
    \/ Kill

Spec == Init /\ [][Next]_vars

(* Bodies come or are cut off, timers fire, the databases' drivers call    *)
(* back, and a closed server reports that its connections are gone.        *)
Fairness ==
    /\ WF_vars(Exit)
    /\ \A r \in Requests :
          /\ WF_vars(PostEnd(r) \/ PostAborted(r))
          /\ WF_vars(Delayed(r))
          /\ WF_vars(Connected(r) \/ NotConnected(r))
          /\ WF_vars(Queried(r))

FairSpec == Spec /\ Fairness

-----------------------------------------------------------------------------
(* Properties *)

(* No path through a handler and its callbacks ends a response twice (the  *)
(* returns of ratings.js 69, 77 and 113), and none finishes without one    *)
(* unless its client has gone or the process was killed: SIGTERM, that     *)
(* closes the server, drops nobody.                                        *)
AnsweredOnce ==
    \A r \in Requests :
       sent[r] = IF step[r] = "done" /\ r \notin gone THEN 1 ELSE 0

(* Two answers with ratings of one product, in the order they are given:   *)
(* the later one is not older, although the delayed one was asked for      *)
(* first.  A client that has seen its POST answered sees it from then on.  *)
HasRatings(r) == step[r] = "done" /\ answer[r].version >= 0
NoStepBack ==
    [][\A q, r \in Requests :
          HasRatings(q) /\ ~HasRatings(r) /\ HasRatings(r)'
             /\ request[q].id = request'[r].id
          => answer[q].version <= answer'[r].version]_vars

(* What a GET shows was POSTed to its own product, or is the default: in   *)
(* particular ratings that are no numbers come from a POST of such.        *)
AnswerTraced ==
    \A r \in Requests : HasRatings(r) /\ answer[r].version > 0 =>
       LET p == posted[request[r].id]
       IN answer[r].version \in DOMAIN p /\ answer[r].kind = p[answer[r].version]

(* A database connection is held only by a request that waits for its      *)
(* result, whatever the database answers.                                  *)
NoConnectionLeak == open \subseteq {r \in Requests : step[r] = "query"}

(* "make the service unavailable": v-unhealthy fails its health check      *)
(* exactly while it refuses ratings; no other variant ever fails it.       *)
HealthTruthful ==
    healthy = (variant = "v-unhealthy" => ~unavailable)

(* Every request that arrives ends, also after SIGTERM.                    *)
EveryRequestEnds ==
    \A r \in Requests : step[r] # "new" ~> step[r] = "done"

(* A process that was told to stop stops.                                  *)
StopEnds == phase = "closing" ~> phase = "down"
=============================================================================
