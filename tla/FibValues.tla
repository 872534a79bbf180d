----------------------------- MODULE FibValues -----------------------------
(***************************************************************************)
(* The Fibonacci application (Project/simple-nodejs): replicas of the      *)
(* Express server, the worker, Redis and PostgreSQL.                       *)
(*                                                                         *)
(* A POST makes three calls that nobody awaits, on three connections: an   *)
(* HSET of the placeholder (redisClient), a PUBLISH (redisPublisher) and   *)
(* an INSERT (the pg pool).  Each connection is a queue of its own; Redis  *)
(* and PostgreSQL take from each at their own pace.  A message published   *)
(* while nobody is subscribed is gone.  The redis client (2.8) drops the   *)
(* commands it has written and has no reply to when the connection is      *)
(* lost, and keeps those it queued while disconnected.                     *)
(*                                                                         *)
(* Process restarts are atomic: what a dead process had already sent is    *)
(* what the other side takes before the restart.  The rejected POST        *)
(* (status 422) and the GET handlers change no state.                      *)
(***************************************************************************)
EXTENDS FibText, Sequences, Functions, FiniteSets

CONSTANTS
    Servers,    \* the replicas of server-deployment
    PgInt,      \* the texts PostgreSQL accepts for an INT column
    MaxPosts,   \* bound: accepted POSTs in a behaviour
    MaxFaults   \* bound: restarts from outside in a behaviour

ASSUME BoundAssumption ==
    /\ PgInt \subseteq Keys
    /\ MaxPosts \in Nat
    /\ MaxFaults \in Nat

VARIABLES
    hash,       \* Redis: the "values" hash
    rows,       \* PostgreSQL: rows[k] rows hold the number of text k
    hashOut,    \* hashOut[s]: HSETs of redisClient Redis has not executed
    pubOut,     \* pubOut[s]: PUBLISHes of redisPublisher not executed
    inserts,    \* inserts[s][k]: INSERTs of the pool in flight
    inbox,      \* messages on their way to the worker's 'message' handler
    results,    \* the worker's HSETs Redis has not executed
    hashUp,     \* the servers whose redisClient is connected
    pubUp,      \* the servers whose redisPublisher is connected
    resultUp,   \* is the worker's redisClient connected?
    subscribed, \* is the worker's sub connected and subscribed?
    faults,     \* restarts so far
    \* History variables: read by the properties only.
    posts,      \* accepted POSTs of every text
    late,       \* fields whose placeholder came after its own PUBLISH
    lost,       \* fields a PUBLISH, message or result of which was dropped
    wiped,      \* fields an entry or a placeholder of which was dropped
    unrecorded  \* texts an INSERT of which failed

redisVars == <<hash, hashOut, pubOut, inbox, results>>
linkVars == <<hashUp, pubUp, resultUp, subscribed>>
pgVars == <<rows, inserts, unrecorded>>
causes == <<late, lost, wiped>>
vars == <<redisVars, linkVars, pgVars, causes, faults, posts>>

Result == [key : Numeric \cap Acceptable, value : Int]
NoInserts == [k \in Keys |-> 0]

TypeOK ==
    /\ hash \in [Keys -> Entry]
    /\ rows \in [Keys -> Nat]
    /\ hashOut \in [Servers -> Seq(Acceptable)]
    /\ pubOut \in [Servers -> Seq(Acceptable)]
    /\ inserts \in [Servers -> [Keys -> Nat]]
    /\ inbox \in Seq(Acceptable)
    /\ results \in Seq(Result)
    /\ hashUp \subseteq Servers /\ pubUp \subseteq Servers
    /\ resultUp \in BOOLEAN /\ subscribed \in BOOLEAN
    /\ faults \in Nat
    /\ posts \in [Keys -> Nat]
    /\ late \subseteq Keys /\ lost \subseteq Keys
    /\ wiped \subseteq Keys /\ unrecorded \subseteq Keys

Init ==
    /\ hash = [k \in Keys |-> Absent]
    /\ rows = [k \in Keys |-> 0]
    /\ hashOut = [s \in Servers |-> <<>>]
    /\ pubOut = [s \in Servers |-> <<>>]
    /\ inserts = [s \in Servers |-> NoInserts]
    /\ inbox = <<>>
    /\ results = <<>>
    /\ hashUp = {} /\ pubUp = {}
    /\ resultUp = FALSE /\ subscribed = FALSE
    /\ faults = 0
    /\ posts = [k \in Keys |-> 0]
    /\ late = {} /\ lost = {} /\ wiped = {} /\ unrecorded = {}

-----------------------------------------------------------------------------
(* The server *)

Accepted == {k \in Keys : posts[k] > 0}
PostCount == FoldFunction(LAMBDA x, y : x + y, 0, posts)

(* Bug: no offline queue for the HSET.                                     *)
PostOnline(s, k) ==
    /\ ~TooHigh(k)
    /\ PostCount < MaxPosts
    /\ posts' = [posts EXCEPT ![k] = @ + 1]
    /\ hashOut' = [hashOut EXCEPT ![s] = IF s \in hashUp THEN Append(@, k) ELSE @]
    /\ pubOut' = [pubOut EXCEPT ![s] = Append(@, k)]
    /\ inserts' = [inserts EXCEPT ![s][k] = @ + 1]
    /\ UNCHANGED <<hash, inbox, results, linkVars, rows, unrecorded, causes,
                   faults>>

(* POST /values: hset, publish and query, then the answer. *)
Post(s, k) ==
    /\ ~TooHigh(k)
    /\ PostCount < MaxPosts
    /\ posts' = [posts EXCEPT ![k] = @ + 1]
    /\ hashOut' = [hashOut EXCEPT ![s] = Append(@, k)]
    /\ pubOut' = [pubOut EXCEPT ![s] = Append(@, k)]
    /\ inserts' = [inserts EXCEPT ![s][k] = @ + 1]
    /\ UNCHANGED <<hash, inbox, results, linkVars, rows, unrecorded, causes,
                   faults>>

(* What a server of the set S leaves behind when its process ends. *)
ServersDown(S) ==
    /\ hashOut' = [s \in Servers |-> IF s \in S THEN <<>> ELSE hashOut[s]]
    /\ pubOut' = [s \in Servers |-> IF s \in S THEN <<>> ELSE pubOut[s]]
    /\ inserts' = [s \in Servers |-> IF s \in S THEN NoInserts ELSE inserts[s]]
    /\ hashUp' = hashUp \ S
    /\ pubUp' = pubUp \ S
    /\ lost' = lost \cup UNION {Range(pubOut[s]) : s \in S}
    /\ wiped' = wiped \cup UNION {Range(hashOut[s]) : s \in S}
    /\ unrecorded' = unrecorded \cup
                        {k \in Keys : \E s \in S : inserts[s][k] > 0}
    /\ UNCHANGED <<hash, inbox, results, resultUp, subscribed, rows, late,
                   posts>>

(* Bug: the INSERT is sent again after it was done.                        *)
InsertRowAgain(s, k) ==
    /\ inserts[s][k] > 0
    /\ k \in PgInt
    /\ rows[k] < MaxPosts + 1
    /\ rows' = [rows EXCEPT ![k] = @ + 1]
    /\ UNCHANGED <<inserts, redisVars, linkVars, unrecorded, causes, faults,
                   posts>>

(* The INSERT succeeds, in the order the pool's connections happen to. *)
InsertRow(s, k) ==
    /\ inserts[s][k] > 0
    /\ k \in PgInt
    /\ rows' = [rows EXCEPT ![k] = @ + 1]
    /\ inserts' = [inserts EXCEPT ![s][k] = @ - 1]
    /\ UNCHANGED <<redisVars, linkVars, unrecorded, causes, faults, posts>>

(* The text is no INT: nobody handles the rejection, the process ends. *)
InsertRejected(s, k) ==
    /\ inserts[s][k] > 0
    /\ k \notin PgInt
    /\ ServersDown({s})
    /\ UNCHANGED faults

-----------------------------------------------------------------------------
(* Redis executes the next command of a connection *)

(* Bug: the HSET is sent again after it was done.                          *)
ExecPlaceholderAgain(s) ==
    /\ s \in hashUp
    /\ hashOut[s] # <<>>
    /\ hash' = [hash EXCEPT ![Head(hashOut[s])] = Pending]
    /\ hashOut' \in {hashOut, [hashOut EXCEPT ![s] = Tail(@)]}
    /\ UNCHANGED <<pubOut, inbox, results, linkVars, pgVars, causes, faults,
                   posts>>

ExecPlaceholder(s) ==
    /\ s \in hashUp
    /\ hashOut[s] # <<>>
    /\ LET k == Head(hashOut[s])
           \* both queues end with the latest POSTs: is its PUBLISH gone?
           publishGone == Len(pubOut[s]) < Len(hashOut[s])
       IN  /\ hash' = [hash EXCEPT ![k] = Pending]
           /\ late' = IF publishGone THEN late \cup {k} ELSE late \ {k}
           /\ lost' = lost \ {k}
           /\ wiped' = wiped \ {k}
    /\ hashOut' = [hashOut EXCEPT ![s] = Tail(@)]
    /\ UNCHANGED <<pubOut, inbox, results, linkVars, pgVars, faults, posts>>

ExecPublish(s) ==
    /\ s \in pubUp
    /\ pubOut[s] # <<>>
    /\ LET k == Head(pubOut[s])
       IN  IF subscribed
           THEN inbox' = Append(inbox, k) /\ UNCHANGED lost
           ELSE lost' = lost \cup {k} /\ UNCHANGED inbox
    /\ pubOut' = [pubOut EXCEPT ![s] = Tail(@)]
    /\ UNCHANGED <<hash, hashOut, results, linkVars, pgVars, late, wiped,
                   faults, posts>>

ExecResult ==
    /\ resultUp
    /\ results # <<>>
    /\ LET r == Head(results)
       IN  /\ hash' = [hash EXCEPT ![r.key] = r.value]
           /\ late' = late \ {r.key}
           /\ lost' = lost \ {r.key}
           /\ wiped' = wiped \ {r.key}
    /\ results' = Tail(results)
    /\ UNCHANGED <<hashOut, pubOut, inbox, linkVars, pgVars, faults, posts>>

-----------------------------------------------------------------------------
(* The worker *)

ResultKeys == {results[i].key : i \in DOMAIN results}

WorkerDown ==
    /\ inbox' = <<>>
    /\ results' = <<>>
    /\ resultUp' = FALSE
    /\ subscribed' = FALSE
    /\ lost' = lost \cup Range(inbox) \cup ResultKeys
    /\ UNCHANGED <<hash, hashOut, pubOut, hashUp, pubUp, pgVars, late, wiped,
                   posts>>

(* Bug: one term too far.                                                  *)
ResultNext(k) == [key |-> k, value |-> fib(Value[k] + 1)]

ResultOf(k) == [key |-> k, value |-> Answer(k)]

(* Bug: a result that cannot be sent at once is dropped.                   *)
WorkerMessageOnline ==
    /\ inbox # <<>>
    /\ Head(inbox) \in Numeric
    /\ results' = IF resultUp THEN Append(results, ResultOf(Head(inbox)))
                  ELSE results
    /\ inbox' = Tail(inbox)
    /\ UNCHANGED <<hash, hashOut, pubOut, linkVars, pgVars, causes, faults,
                   posts>>

(* sub.on('message') *)
WorkerMessage ==
    /\ inbox # <<>>
    /\ Head(inbox) \in Numeric
    /\ results' = Append(results, ResultOf(Head(inbox)))
    /\ inbox' = Tail(inbox)
    /\ UNCHANGED <<hash, hashOut, pubOut, linkVars, pgVars, causes, faults,
                   posts>>

(* fib(NaN) recurses until the stack overflows, which ends the process. *)
WorkerOverflow ==
    /\ inbox # <<>>
    /\ Head(inbox) \notin Numeric
    /\ WorkerDown
    /\ UNCHANGED faults

-----------------------------------------------------------------------------
(* Connections and restarts *)

ConnectHash(s) ==
    /\ s \notin hashUp
    /\ hashUp' = hashUp \cup {s}
    /\ UNCHANGED <<redisVars, pubUp, resultUp, subscribed, pgVars, causes,
                   faults, posts>>

ConnectPub(s) ==
    /\ s \notin pubUp
    /\ pubUp' = pubUp \cup {s}
    /\ UNCHANGED <<redisVars, hashUp, resultUp, subscribed, pgVars, causes,
                   faults, posts>>

(* Bug: no retry_strategy.                                                 *)
ConnectResultOnce ==
    /\ ~resultUp
    /\ faults = 0
    /\ resultUp' = TRUE
    /\ UNCHANGED <<redisVars, hashUp, pubUp, subscribed, pgVars, causes,
                   faults, posts>>

ConnectResult ==
    /\ ~resultUp
    /\ resultUp' = TRUE
    /\ UNCHANGED <<redisVars, hashUp, pubUp, subscribed, pgVars, causes,
                   faults, posts>>

Subscribe ==
    /\ ~subscribed
    /\ subscribed' = TRUE
    /\ UNCHANGED <<redisVars, hashUp, pubUp, resultUp, pgVars, causes,
                   faults, posts>>

Fault == faults < MaxFaults /\ faults' = faults + 1

ServerRestart(s) == Fault /\ ServersDown({s})

WorkerRestart == Fault /\ WorkerDown

(* Redis has no volume: the hash is gone, and every connection is lost.    *)
(* The worker may still receive some of what Redis had sent it.            *)
RedisRestart ==
    /\ Fault
    /\ hash' = [k \in Keys |-> Absent]
    /\ hashOut' = [s \in Servers |-> IF s \in hashUp THEN <<>> ELSE hashOut[s]]
    /\ pubOut' = [s \in Servers |-> IF s \in pubUp THEN <<>> ELSE pubOut[s]]
    /\ results' = IF resultUp THEN <<>> ELSE results
    /\ \E n \in 0..Len(inbox) : inbox' = SubSeq(inbox, 1, n)
    /\ hashUp' = {} /\ pubUp' = {}
    /\ resultUp' = FALSE /\ subscribed' = FALSE
    /\ late' = {} /\ lost' = {}
    /\ wiped' = wiped \cup {k \in Keys : hash[k] # Absent}
                      \cup UNION {Range(hashOut[s]) : s \in hashUp}
    /\ UNCHANGED <<pgVars, posts>>

(* PostgreSQL keeps its rows on a volume.  An INSERT in flight fails, and  *)
(* the pool has no 'error' listener for its idle connections: both end the *)
(* server's process.                                                       *)
PostgresRestart ==
    /\ Fault
    /\ \E S \in SUBSET Servers :
          /\ {s \in Servers : inserts[s] # NoInserts} \subseteq S
          /\ ServersDown(S)

-----------------------------------------------------------------------------
ServerNext(s) ==
    \/ \E k \in Keys : Post(s, k) \/ InsertRow(s, k) \/ InsertRejected(s, k)
    \/ ExecPlaceholder(s)
    \/ ExecPublish(s)
    \/ ConnectHash(s)
    \/ ConnectPub(s)
    \/ ServerRestart(s)

WorkerNext ==
    \/ WorkerMessage
    \/ WorkerOverflow
    \/ ExecResult
    \/ ConnectResult
    \/ Subscribe
    \/ WorkerRestart

Next ==
    \/ \E s \in Servers : ServerNext(s)
    \/ WorkerNext
    \/ RedisRestart
    \/ PostgresRestart

Spec == Init /\ [][Next]_vars

(* The event loops, Redis, PostgreSQL and the reconnection timers          *)
(* (retry_strategy: () => 1000) run on; nobody has to POST, nothing has to *)
(* fail.                                                                   *)
Fairness ==
    /\ \A s \in Servers :
          /\ WF_vars(ExecPlaceholder(s))
          /\ WF_vars(ExecPublish(s))
          /\ WF_vars(ConnectHash(s))
          /\ WF_vars(ConnectPub(s))
          /\ \A k \in Keys : WF_vars(InsertRow(s, k) \/ InsertRejected(s, k))
    /\ WF_vars(WorkerMessage \/ WorkerOverflow)
    /\ WF_vars(ExecResult)
    /\ WF_vars(ConnectResult)
    /\ WF_vars(Subscribe)

FairSpec == Spec /\ Fairness

-----------------------------------------------------------------------------
(* Properties *)

InWork(k) ==
    \/ \E s \in Servers : k \in Range(pubOut[s])
    \/ k \in Range(inbox)
    \/ k \in ResultKeys

PlaceholderQueued(k) == \E s \in Servers : k \in Range(hashOut[s])

InsertQueued(k) == \E s \in Servers : inserts[s][k] > 0

(* The page never shows a wrong number: a field of the hash that is        *)
(* neither missing nor the placeholder holds fib(parseInt(text)), for a    *)
(* text that is a number, and so does every result on its way to Redis     *)
(* (worker/index.js hset of the result).                                   *)
RightAnswers ==
    /\ \A k \in Keys :
          hash[k] \notin {Absent, Pending} => k \in Numeric /\ hash[k] = Answer(k)
    /\ \A i \in DOMAIN results :
          results[i].key \in Numeric /\ results[i].value = Answer(results[i].key)

(* A field that says "Nothing yet!" is being worked on, or one of two      *)
(* things happened to it: its placeholder reached Redis after its own      *)
(* PUBLISH had, over the other connection (server/index.js 62-63), or a    *)
(* PUBLISH, a message or a result was dropped.  There is no third way to   *)
(* be stuck.                                                               *)
PendingExplained ==
    \A k \in Keys : hash[k] = Pending => InWork(k) \/ k \in late \cup lost

(* A number PostgreSQL lists ("Indexes I have seen") has an entry in the   *)
(* hash ("Calculated Values") or its placeholder is on its way, unless     *)
(* Redis or a server lost the entry: the two lists of the page agree but   *)
(* for restarts.                                                           *)
SeenHasEntry ==
    \A k \in Keys :
       rows[k] > 0 => hash[k] # Absent \/ PlaceholderQueued(k) \/ k \in wiped

(* Every accepted POST becomes exactly one row: never more rows than       *)
(* POSTs, and fewer only while an INSERT is in flight or after one failed. *)
RowsMatchPosts ==
    \A k \in Keys :
       /\ rows[k] <= posts[k]
       /\ rows[k] < posts[k] => InsertQueued(k) \/ k \in unrecorded

(* An answer on display goes back to "Nothing yet!" only when the text is  *)
(* POSTed again, or when the placeholder comes late.                       *)
RegressOnlyByRepost ==
    [][\A k \in Keys :
          hash[k] \notin {Absent, Pending} /\ hash'[k] = Pending
             => posts[k] > 1 \/ k \in late']_vars

(* Pending work comes to an end: a placeholder is replaced by the answer,  *)
(* or the field is one of those PendingExplained names, or Redis lost it.  *)
PendingEnds ==
    \A k \in Keys :
       hash[k] = Pending ~> hash[k] # Pending \/ k \in late \cup lost

(* No text is ever worked on, shown or recorded that POST /values did not  *)
(* accept: every text in a queue, in flight or in a row was POSTed.        *)
Traced ==
    /\ \A s \in Servers : Range(hashOut[s]) \cup Range(pubOut[s]) \subseteq Accepted
    /\ Range(inbox) \cup ResultKeys \subseteq Accepted
    /\ \A k \in Keys : rows[k] > 0 \/ InsertQueued(k) => k \in Accepted

(* The two Redis connections of a server end with the same POSTs: counted  *)
(* from the end, the two queues agree as far as both reach.  This is what  *)
(* makes a late placeholder the only surprise the two connections hold.    *)
Aligned ==
    \A s \in Servers :
       \A i \in 0..(Len(hashOut[s]) - 1) :
          i < Len(pubOut[s]) =>
             hashOut[s][Len(hashOut[s]) - i] = pubOut[s][Len(pubOut[s]) - i]

QueueInv == Traced /\ Aligned

(* The application implements the abstract service, with the texts POSTed  *)
(* so far for its accepted ones.                                           *)
Service == INSTANCE FibService WITH accepted <- Accepted
ImplementsService == Service!Spec
=============================================================================
