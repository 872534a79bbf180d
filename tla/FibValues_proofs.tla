-------------------------- MODULE FibValues_proofs --------------------------
(***************************************************************************)
(* Theorems about FibValues, for every set of servers and texts and every  *)
(* bound: types and what its stores may hold; then why a field of the hash *)
(* may say "Nothing yet!" or be missing, when it says so again after its   *)
(* number, and how many rows the table has.                                *)
(***************************************************************************)
EXTENDS FibValues, FiniteSetTheorems, TLAPS

(* POST /values takes acceptable texts only.                               *)
LEMMA PostedAcceptable ==
    ASSUME NEW s \in Servers, NEW k \in Keys, Post(s, k)
    PROVE  k \in Acceptable
BY TextAssumption DEF Post, TooHigh, Acceptable

(* A queue of acceptable texts holds texts, and nothing else.              *)
LEMMA QueuedTexts ==
    ASSUME NEW q \in Seq(Acceptable)
    PROVE  Range(q) \subseteq Keys
<1>1. \A i \in DOMAIN q : q[i] \in Acceptable
  OBVIOUS
<1> QED
  BY <1>1 DEF Range, Acceptable

(* The answers the worker sends for texts of its inbox are typed results.  *)
LEMMA ResultTexts ==
    ASSUME results \in Seq(Result)
    PROVE  ResultKeys \subseteq Keys
<1>1. \A i \in DOMAIN results : results[i] \in Result
  OBVIOUS
<1> QED
  BY <1>1 DEF ResultKeys, Result, Acceptable

(* What the process ends of any set of servers do to the typed state.      *)
LEMMA ServersDownType ==
    ASSUME TypeOK, NEW S \in SUBSET Servers, ServersDown(S), faults' \in Nat
    PROVE  TypeOK'
<1>1. hashOut' \in [Servers -> Seq(Acceptable)]
  BY DEF TypeOK, ServersDown
<1>2. pubOut' \in [Servers -> Seq(Acceptable)]
  BY DEF TypeOK, ServersDown
<1>3. inserts' \in [Servers -> [Keys -> Nat]]
  BY DEF TypeOK, ServersDown, NoInserts
<1>4. \A s \in S : Range(pubOut[s]) \subseteq Keys /\ Range(hashOut[s]) \subseteq Keys
  BY QueuedTexts DEF TypeOK
<1>5. lost' \subseteq Keys /\ wiped' \subseteq Keys
  BY <1>4 DEF TypeOK, ServersDown
<1>6. unrecorded' \subseteq Keys /\ hashUp' \subseteq Servers /\ pubUp' \subseteq Servers
  BY DEF TypeOK, ServersDown
<1> QED
  BY <1>1, <1>2, <1>3, <1>5, <1>6 DEF TypeOK, ServersDown

(* Every variable of the application keeps its type, whatever connections  *)
(* and processes are lost.                                                 *)
THEOREM TypeCorrect == Spec => []TypeOK
<1>1. Init => TypeOK
  <2> SUFFICES ASSUME Init
               PROVE  TypeOK
    OBVIOUS
  <2> USE DEF Init
  <2>1. hash \in [Keys -> Entry] /\ rows \in [Keys -> Nat]
    BY DEF Entry
  <2>2. hashOut \in [Servers -> Seq(Acceptable)] /\ pubOut \in [Servers -> Seq(Acceptable)]
    OBVIOUS
  <2>3. inserts \in [Servers -> [Keys -> Nat]] /\ posts \in [Keys -> Nat]
    BY DEF NoInserts
  <2>4. results \in Seq(Result) /\ inbox \in Seq(Acceptable)
    OBVIOUS
  <2> QED
    BY <2>1, <2>2, <2>3, <2>4 DEF TypeOK
<1>2. TypeOK /\ [Next]_vars => TypeOK'
  <2> SUFFICES ASSUME TypeOK, [Next]_vars
               PROVE  TypeOK'
    OBVIOUS
  <2>1. ASSUME NEW s \in Servers, NEW k \in Keys, Post(s, k)
        PROVE  TypeOK'
    <3>0. k \in Acceptable
      BY <2>1, PostedAcceptable
    <3>1. hashOut' \in [Servers -> Seq(Acceptable)]
      BY <2>1, <3>0 DEF TypeOK, Post
    <3>2. pubOut' \in [Servers -> Seq(Acceptable)]
      BY <2>1, <3>0 DEF TypeOK, Post
    <3>3. inserts' \in [Servers -> [Keys -> Nat]] /\ posts' \in [Keys -> Nat]
      BY <2>1 DEF TypeOK, Post
    <3> QED
      BY <2>1, <3>1, <3>2, <3>3 DEF TypeOK, Post, linkVars, causes
  <2>2. ASSUME NEW s \in Servers, NEW k \in Keys, InsertRow(s, k)
        PROVE  TypeOK'
    <3>1. inserts' \in [Servers -> [Keys -> Nat]] /\ rows' \in [Keys -> Nat]
      BY <2>2 DEF TypeOK, InsertRow
    <3> QED
      BY <2>2, <3>1 DEF TypeOK, InsertRow, redisVars, linkVars, causes
  <2>3. ASSUME NEW s \in Servers, NEW k \in Keys, InsertRejected(s, k)
        PROVE  TypeOK'
    BY <2>3, ServersDownType DEF TypeOK, InsertRejected
  <2>4. ASSUME NEW s \in Servers, ExecPlaceholder(s)
        PROVE  TypeOK'
    <3>1. hashOut' \in [Servers -> Seq(Acceptable)]
      BY <2>4 DEF TypeOK, ExecPlaceholder
    <3>a. hashOut[s] \in Seq(Acceptable) /\ hashOut[s] # <<>>
      BY <2>4 DEF TypeOK, ExecPlaceholder
    <3>2. Head(hashOut[s]) \in Keys
      BY <3>a DEF Acceptable
    <3>3. hash' \in [Keys -> Entry] /\ late' \subseteq Keys
      BY <2>4, <3>2 DEF TypeOK, ExecPlaceholder, Entry
    <3> QED
      BY <2>4, <3>1, <3>3 DEF TypeOK, ExecPlaceholder, linkVars, pgVars
  <2>5. ASSUME NEW s \in Servers, ExecPublish(s)
        PROVE  TypeOK'
    <3>a. pubOut[s] \in Seq(Acceptable) /\ pubOut[s] # <<>>
      BY <2>5 DEF TypeOK, ExecPublish
    <3>1. Head(pubOut[s]) \in Acceptable /\ Head(pubOut[s]) \in Keys
      BY <3>a DEF Acceptable
    <3>2. pubOut' \in [Servers -> Seq(Acceptable)]
      BY <2>5 DEF TypeOK, ExecPublish
    <3>b. inbox \in Seq(Acceptable) /\ inbox' \in {inbox, Append(inbox, Head(pubOut[s]))}
      BY <2>5 DEF TypeOK, ExecPublish
    <3>3. inbox' \in Seq(Acceptable)
      BY <3>1, <3>b
    <3>4. lost' \subseteq Keys
      BY <2>5, <3>1 DEF TypeOK, ExecPublish
    <3> QED
      BY <2>5, <3>2, <3>3, <3>4 DEF TypeOK, ExecPublish, linkVars, pgVars
  <2>6. ASSUME NEW s \in Servers, ConnectHash(s) \/ ConnectPub(s)
        PROVE  TypeOK'
    BY <2>6 DEF TypeOK, ConnectHash, ConnectPub, redisVars, pgVars, causes
  <2>7. ASSUME NEW s \in Servers, ServerRestart(s)
        PROVE  TypeOK'
    BY <2>7, ServersDownType DEF TypeOK, ServerRestart, Fault
  <2>8. CASE WorkerMessage
    <3>1. Head(inbox) \in Numeric \cap Acceptable /\ inbox' \in Seq(Acceptable)
      BY <2>8 DEF TypeOK, WorkerMessage
    <3>2. ResultOf(Head(inbox)) \in Result
      BY <3>1, FibAssumption DEF Result, ResultOf
    <3>3. results' \in Seq(Result)
      BY <2>8, <3>2 DEF TypeOK, WorkerMessage
    <3> QED
      BY <2>8, <3>1, <3>3 DEF TypeOK, WorkerMessage, linkVars, pgVars, causes
  <2>9. CASE WorkerOverflow \/ WorkerRestart
    <3>1. WorkerDown /\ faults' \in Nat
      BY <2>9 DEF TypeOK, WorkerOverflow, WorkerRestart, Fault
    <3>2. lost' \subseteq Keys
      BY <3>1, QueuedTexts, ResultTexts DEF TypeOK, WorkerDown
    <3>3. inbox' \in Seq(Acceptable) /\ results' \in Seq(Result)
      BY <3>1 DEF WorkerDown
    <3> QED
      BY <3>1, <3>2, <3>3 DEF TypeOK, WorkerDown, pgVars
  <2>10. CASE ExecResult
    <3>1. Head(results) \in Result /\ results' \in Seq(Result)
      BY <2>10 DEF TypeOK, ExecResult
    <3>2. hash' \in [Keys -> Entry]
      BY <2>10, <3>1 DEF TypeOK, ExecResult, Result, Entry
    <3> QED
      BY <2>10, <3>1, <3>2 DEF TypeOK, ExecResult, linkVars, pgVars
  <2>11. CASE ConnectResult \/ Subscribe
    BY <2>11 DEF TypeOK, ConnectResult, Subscribe, redisVars, pgVars, causes
  <2>12. CASE RedisRestart
    <3>1. hash' \in [Keys -> Entry]
      BY <2>12 DEF TypeOK, RedisRestart, Entry
    <3>2. hashOut' \in [Servers -> Seq(Acceptable)] /\ pubOut' \in [Servers -> Seq(Acceptable)]
      BY <2>12 DEF TypeOK, RedisRestart
    <3>3. results' \in Seq(Result) /\ inbox' \in Seq(Acceptable)
      BY <2>12 DEF TypeOK, RedisRestart
    <3>4. \A s \in hashUp : Range(hashOut[s]) \subseteq Keys
      BY QueuedTexts DEF TypeOK
    <3>5. wiped' \subseteq Keys
      BY <2>12, <3>4 DEF TypeOK, RedisRestart
    <3>6. /\ late' \subseteq Keys /\ lost' \subseteq Keys
          /\ hashUp' \subseteq Servers /\ pubUp' \subseteq Servers
      BY <2>12 DEF RedisRestart
    <3>7. faults' \in Nat
      BY <2>12 DEF TypeOK, RedisRestart, Fault
    <3>9. resultUp' \in BOOLEAN /\ subscribed' \in BOOLEAN
      BY <2>12 DEF RedisRestart
    <3>8. UNCHANGED <<rows, inserts, unrecorded, posts>>
      BY <2>12 DEF RedisRestart, pgVars
    <3> QED
      BY <3>1, <3>2, <3>3, <3>5, <3>6, <3>7, <3>8, <3>9 DEF TypeOK
  <2>13. CASE PostgresRestart
    BY <2>13, ServersDownType DEF TypeOK, PostgresRestart, Fault
  <2>14. CASE UNCHANGED vars
    BY <2>14 DEF TypeOK, vars, redisVars, linkVars, pgVars, causes
  <2> QED
    BY <2>1, <2>2, <2>3, <2>4, <2>5, <2>6, <2>7, <2>8, <2>9, <2>10, <2>11,
       <2>12, <2>13, <2>14 DEF Next, ServerNext, WorkerNext
<1> QED
  BY <1>1, <1>2, PTL DEF Spec

-----------------------------------------------------------------------------
(* Queues, as the set of what they hold.                                   *)
LEMMA RangeAppend ==
    ASSUME NEW T, NEW q \in Seq(T), NEW e \in T
    PROVE  Range(Append(q, e)) = Range(q) \cup {e}
<1>1. DOMAIN Append(q, e) = 1..(Len(q) + 1) /\ DOMAIN q = 1..Len(q)
  OBVIOUS
<1>2. \A i \in 1..Len(q) : Append(q, e)[i] = q[i]
  OBVIOUS
<1>3. Append(q, e)[Len(q) + 1] = e
  OBVIOUS
<1>4. Len(q) \in Nat
  OBVIOUS
<1>5. \A i \in 1..(Len(q) + 1) : i \in 1..Len(q) \/ i = Len(q) + 1
  BY <1>4
<1>6. 1..Len(q) \subseteq 1..(Len(q) + 1) /\ Len(q) + 1 \in 1..(Len(q) + 1)
  BY <1>4
<1> QED
  BY <1>1, <1>2, <1>3, <1>5, <1>6 DEF Range

LEMMA RangeTail ==
    ASSUME NEW T, NEW q \in Seq(T), q # <<>>
    PROVE  /\ Head(q) \in T
           /\ Tail(q) \in Seq(T)
           /\ Range(q) = {Head(q)} \cup Range(Tail(q))
<1>1. Len(q) \in Nat /\ Len(q) > 0 /\ DOMAIN q = 1..Len(q)
  OBVIOUS
<1>2. Head(q) = q[1] /\ Tail(q) \in Seq(T) /\ DOMAIN Tail(q) = 1..(Len(q) - 1)
  OBVIOUS
<1>3. \A i \in 1..(Len(q) - 1) : Tail(q)[i] = q[i + 1]
  OBVIOUS
<1>4. Range(Tail(q)) \subseteq Range(q)
  BY <1>1, <1>2, <1>3 DEF Range
<1>5. \A i \in 1..Len(q) : i = 1 \/ (i - 1 \in 1..(Len(q) - 1) /\ q[i] = Tail(q)[i - 1])
  BY <1>1, <1>3
<1>6. Range(q) \subseteq {Head(q)} \cup Range(Tail(q))
  BY <1>1, <1>2, <1>5 DEF Range
<1>7. Head(q) \in Range(q) /\ Head(q) \in T
  BY <1>1, <1>2 DEF Range
<1> QED
  BY <1>2, <1>4, <1>6, <1>7

LEMMA RangeSome ==
    ASSUME NEW T, NEW q \in Seq(T), NEW n \in 0..Len(q)
    PROVE  SubSeq(q, 1, n) \in Seq(T) /\ Range(SubSeq(q, 1, n)) \subseteq Range(q)
<1>1. Len(q) \in Nat /\ DOMAIN q = 1..Len(q)
  OBVIOUS
<1>2. SubSeq(q, 1, n) \in Seq(T) /\ DOMAIN SubSeq(q, 1, n) = 1..n
  OBVIOUS
<1>3. \A i \in 1..n : SubSeq(q, 1, n)[i] = q[i] /\ i \in 1..Len(q)
  BY <1>1
<1> QED
  BY <1>1, <1>2, <1>3 DEF Range

LEMMA RangeEmpty == Range(<<>>) = {}
BY DEF Range

-----------------------------------------------------------------------------
(* The worker's result for text r.key is right, or not one of results.     *)
RightResult(r) == r.key \in Numeric /\ r.value = Answer(r.key)

RightEntry(k, v) == v \notin {Absent, Pending} => k \in Numeric /\ v = Answer(k)

LEMMA RightAnswersStep ==
    ASSUME TypeOK, RightAnswers, [Next]_vars
    PROVE  RightAnswers'
<1> DEFINE Entries == \A k \in Keys : RightEntry(k, hash[k])
           Results == \A i \in DOMAIN results : RightResult(results[i])
<1>0. Entries /\ Results
  BY DEF RightAnswers, RightEntry, RightResult
<1>1. SUFFICES Entries' /\ Results'
  BY DEF RightAnswers, RightEntry, RightResult
<1>2. CASE UNCHANGED <<hash, results>>
  BY <1>0, <1>2
<1>3. ASSUME NEW s \in Servers, ExecPlaceholder(s)
      PROVE  Entries' /\ Results'
  <2>1. hash' = [hash EXCEPT ![Head(hashOut[s])] = Pending]
    BY <1>3 DEF ExecPlaceholder
  <2>2. \A k \in Keys : hash'[k] = hash[k] \/ hash'[k] = Pending
    BY <2>1 DEF TypeOK
  <2>3. Entries'
    BY <1>0, <2>2 DEF RightEntry
  <2> QED
    BY <1>0, <1>3, <2>3 DEF ExecPlaceholder
<1>4. CASE WorkerMessage
  <2>1. /\ hash' = hash
        /\ results' = Append(results, ResultOf(Head(inbox)))
        /\ Head(inbox) \in Numeric
    BY <1>4 DEF WorkerMessage
  <2>2. results \in Seq(Result) /\ Head(inbox) \in Acceptable
    BY <1>4 DEF TypeOK, WorkerMessage
  <2>3. ResultOf(Head(inbox)) \in Result
    BY <2>1, <2>2, FibAssumption DEF Result, ResultOf
  <2>4. \A i \in DOMAIN results' :
           \/ i \in DOMAIN results /\ results'[i] = results[i]
           \/ results'[i] = ResultOf(Head(inbox))
    BY <2>1, <2>2, <2>3
  <2>5. Results'
    BY <1>0, <2>1, <2>4 DEF RightResult, ResultOf
  <2> QED
    BY <1>0, <2>1, <2>5
<1>5. CASE ExecResult
  <2>1. results \in Seq(Result) /\ results # <<>>
    BY <1>5 DEF TypeOK, ExecResult
  <2>2. /\ results' = Tail(results)
        /\ hash' = [hash EXCEPT ![Head(results).key] = Head(results).value]
    BY <1>5 DEF ExecResult
  <2>3. RightResult(Head(results))
    BY <1>0, <2>1
  <2>4. \A k \in Keys : \/ hash'[k] = hash[k]
                        \/ k = Head(results).key /\ hash'[k] = Head(results).value
    BY <2>2 DEF TypeOK
  <2>5. Entries'
    BY <1>0, <2>3, <2>4 DEF RightEntry, RightResult
  <2>6. \A i \in DOMAIN results' : i + 1 \in DOMAIN results /\ results'[i] = results[i + 1]
    BY <2>1, <2>2
  <2> QED
    BY <1>0, <2>5, <2>6
<1>6. CASE WorkerDown
  BY <1>0, <1>6 DEF WorkerDown
<1>7. CASE RedisRestart
  <2>1. hash' = [k \in Keys |-> Absent] /\ results' \in {results, <<>>}
    BY <1>7 DEF RedisRestart
  <2> QED
    BY <1>0, <2>1 DEF RightEntry
<1>8. ASSUME NEW S, ServersDown(S)
      PROVE  UNCHANGED <<hash, results>>
  BY <1>8 DEF ServersDown
<1> QED
  BY <1>2, <1>3, <1>4, <1>5, <1>6, <1>7, <1>8
  DEF Next, ServerNext, WorkerNext, Post, InsertRow, InsertRejected,
      ExecPublish, ConnectHash, ConnectPub, ServerRestart, WorkerOverflow,
      WorkerRestart, ConnectResult, Subscribe, PostgresRestart, redisVars, vars

(* Whatever is lost, late or restarted, the hash holds no wrong number.    *)
THEOREM AnswersAreRight == Spec => []RightAnswers
<1>1. Init => RightAnswers
  BY DEF Init, RightAnswers
<1> QED
  BY <1>1, TypeCorrect, RightAnswersStep, PTL DEF Spec

-----------------------------------------------------------------------------
(* What is queued was POSTed.                                              *)
LEMMA AcceptedGrows ==
    ASSUME TypeOK, NEW s \in Servers, NEW k \in Keys, Post(s, k)
    PROVE  Accepted' = Accepted \cup {k}
BY DEF TypeOK, Post, Accepted

LEMMA AcceptedStays ==
    ASSUME UNCHANGED posts
    PROVE  Accepted' = Accepted
BY DEF Accepted

LEMMA ResultsGrow ==
    ASSUME TypeOK, WorkerMessage
    PROVE  ResultKeys' = ResultKeys \cup {Head(inbox)}
<1> DEFINE r == ResultOf(Head(inbox))
<1>1. results \in Seq(Result) /\ Head(inbox) \in Numeric \cap Acceptable
  BY DEF TypeOK, WorkerMessage
<1>2. r \in Result
  BY <1>1, FibAssumption DEF Result, ResultOf
<1>3. results' = Append(results, r)
  BY DEF WorkerMessage
<1>4. Range(results') = Range(results) \cup {r}
  BY <1>1, <1>2, <1>3, RangeAppend
<1>5. ResultKeys = {x.key : x \in Range(results)} /\ ResultKeys' = {x.key : x \in Range(results')}
  BY DEF ResultKeys, Range
<1> HIDE DEF r
<1>6. r.key = Head(inbox)
  BY DEF r, ResultOf
<1> QED
  BY <1>4, <1>5, <1>6

LEMMA ResultsShrink ==
    ASSUME TypeOK, ExecResult
    PROVE  /\ Head(results) \in Result
           /\ ResultKeys' \subseteq ResultKeys
           /\ ResultKeys \subseteq ResultKeys' \cup {Head(results).key}
           /\ Head(results).key \in ResultKeys
<1>1. results \in Seq(Result) /\ results # <<>> /\ results' = Tail(results)
  BY DEF TypeOK, ExecResult
<1>2. Range(results) = Range(results') \cup {Head(results)} /\ Head(results) \in Result
  BY <1>1, RangeTail
<1>3. ResultKeys = {x.key : x \in Range(results)} /\ ResultKeys' = {x.key : x \in Range(results')}
  BY DEF ResultKeys, Range
<1> QED
  BY <1>2, <1>3

LEMMA TracedStep ==
    ASSUME TypeOK, Traced, [Next]_vars
    PROVE  Traced'
<1> DEFINE Queues == \A s \in Servers : Range(hashOut[s]) \subseteq Accepted
                                      /\ Range(pubOut[s]) \subseteq Accepted
           Work == Range(inbox) \subseteq Accepted /\ ResultKeys \subseteq Accepted
           Recorded == \A k \in Keys :
                          /\ rows[k] > 0 => k \in Accepted
                          /\ \A s \in Servers : inserts[s][k] > 0 => k \in Accepted
<1>0. Queues /\ Work /\ Recorded
  BY DEF Traced, InsertQueued
<1>1. SUFFICES Queues' /\ Work' /\ Recorded'
  BY DEF Traced, InsertQueued
<1>2. ASSUME NEW s \in Servers, NEW k \in Keys, Post(s, k)
      PROVE  Queues' /\ Work' /\ Recorded'
  <2>1. Accepted' = Accepted \cup {k}
    BY <1>2, AcceptedGrows
  <2>2. k \in Acceptable
    BY <1>2, PostedAcceptable
  <2>3. \A r \in Servers : Range(hashOut'[r]) \subseteq Range(hashOut[r]) \cup {k}
    BY <1>2, <2>2, RangeAppend DEF TypeOK, Post
  <2>4. \A r \in Servers : Range(pubOut'[r]) \subseteq Range(pubOut[r]) \cup {k}
    BY <1>2, <2>2, RangeAppend DEF TypeOK, Post
  <2>5. \A r \in Servers, j \in Keys : inserts'[r][j] = inserts[r][j] \/ j = k
    BY <1>2 DEF TypeOK, Post
  <2>6. Queues'
    BY <1>0, <2>1, <2>3, <2>4
  <2>7. Work'
    BY <1>0, <1>2, <2>1 DEF Post, ResultKeys
  <2>8. Recorded'
    BY <1>0, <1>2, <2>1, <2>5 DEF Post
  <2> QED
    BY <2>6, <2>7, <2>8
<1>3. ASSUME NEW s \in Servers, NEW k \in Keys, InsertRow(s, k)
      PROVE  Queues' /\ Work' /\ Recorded'
  <2>1. Accepted' = Accepted
    BY <1>3, AcceptedStays DEF InsertRow
  <2>2. k \in Accepted
    BY <1>0, <1>3 DEF InsertRow
  <2>3. \A j \in Keys : rows'[j] = rows[j] \/ j = k
    BY <1>3 DEF TypeOK, InsertRow
  <2>4. \A r \in Servers, j \in Keys : inserts'[r][j] = inserts[r][j] \/ j = k
    BY <1>3 DEF TypeOK, InsertRow
  <2>5. Recorded'
    BY <1>0, <2>1, <2>2, <2>3, <2>4
  <2> QED
    BY <1>0, <1>3, <2>1, <2>5 DEF InsertRow, redisVars, ResultKeys
<1>4. ASSUME NEW S \in SUBSET Servers, ServersDown(S)
      PROVE  Queues' /\ Work' /\ Recorded'
  <2>1. Accepted' = Accepted
    BY <1>4, AcceptedStays DEF ServersDown
  <2>2. \A r \in Servers : /\ Range(hashOut'[r]) \subseteq Range(hashOut[r])
                          /\ Range(pubOut'[r]) \subseteq Range(pubOut[r])
    BY <1>4, RangeEmpty DEF ServersDown
  <2>3. \A r \in Servers, j \in Keys : inserts'[r][j] > 0 => inserts[r][j] > 0
    BY <1>4 DEF ServersDown, NoInserts
  <2> QED
    BY <1>0, <1>4, <2>1, <2>2, <2>3 DEF ServersDown, ResultKeys
<1>5. ASSUME NEW s \in Servers, ExecPlaceholder(s)
      PROVE  Queues' /\ Work' /\ Recorded'
  <2>1. Accepted' = Accepted
    BY <1>5, AcceptedStays DEF ExecPlaceholder
  <2>2. \A r \in Servers : Range(hashOut'[r]) \subseteq Range(hashOut[r])
    BY <1>5, RangeTail DEF TypeOK, ExecPlaceholder
  <2> QED
    BY <1>0, <1>5, <2>1, <2>2 DEF ExecPlaceholder, pgVars, ResultKeys
<1>6. ASSUME NEW s \in Servers, ExecPublish(s)
      PROVE  Queues' /\ Work' /\ Recorded'
  <2>1. Accepted' = Accepted
    BY <1>6, AcceptedStays DEF ExecPublish
  <2>2. pubOut[s] \in Seq(Acceptable) /\ pubOut[s] # <<>>
    BY <1>6 DEF TypeOK, ExecPublish
  <2>3. Head(pubOut[s]) \in Range(pubOut[s]) /\ Head(pubOut[s]) \in Acceptable
    BY <2>2, RangeTail
  <2>4. \A r \in Servers : Range(pubOut'[r]) \subseteq Range(pubOut[r])
    BY <1>6, <2>2, RangeTail DEF TypeOK, ExecPublish
  <2>5. inbox \in Seq(Acceptable) /\ inbox' \in {inbox, Append(inbox, Head(pubOut[s]))}
    BY <1>6 DEF TypeOK, ExecPublish
  <2>a. Range(Append(inbox, Head(pubOut[s]))) = Range(inbox) \cup {Head(pubOut[s])}
    BY <2>3, <2>5, RangeAppend
  <2>6. Range(inbox') \subseteq Range(inbox) \cup {Head(pubOut[s])}
    BY <2>5, <2>a
  <2> QED
    BY <1>0, <1>6, <2>1, <2>3, <2>4, <2>6 DEF ExecPublish, pgVars, ResultKeys
<1>7. CASE WorkerMessage
  <2>1. Accepted' = Accepted
    BY <1>7, AcceptedStays DEF WorkerMessage
  <2>2. inbox \in Seq(Acceptable) /\ inbox # <<>> /\ inbox' = Tail(inbox)
    BY <1>7 DEF TypeOK, WorkerMessage
  <2>3. Range(inbox') \subseteq Range(inbox) /\ Head(inbox) \in Range(inbox)
    BY <2>2, RangeTail
  <2>4. ResultKeys' = ResultKeys \cup {Head(inbox)}
    BY <1>7, ResultsGrow
  <2> QED
    BY <1>0, <1>7, <2>1, <2>3, <2>4 DEF WorkerMessage, pgVars
<1>8. CASE ExecResult
  <2>1. Accepted' = Accepted
    BY <1>8, AcceptedStays DEF ExecResult
  <2>2. ResultKeys' \subseteq ResultKeys
    BY <1>8, ResultsShrink
  <2> QED
    BY <1>0, <1>8, <2>1, <2>2 DEF ExecResult, pgVars
<1>9. CASE WorkerDown
  <2>1. Accepted' = Accepted
    BY <1>9, AcceptedStays DEF WorkerDown
  <2> QED
    BY <1>0, <1>9, <2>1, RangeEmpty DEF WorkerDown, pgVars, ResultKeys
<1>10. CASE RedisRestart
  <2>1. Accepted' = Accepted
    BY <1>10, AcceptedStays DEF RedisRestart
  <2>2. \A r \in Servers : /\ Range(hashOut'[r]) \subseteq Range(hashOut[r])
                          /\ Range(pubOut'[r]) \subseteq Range(pubOut[r])
    BY <1>10, RangeEmpty DEF RedisRestart
  <2>3. PICK n \in 0..Len(inbox) : inbox' = SubSeq(inbox, 1, n)
    BY <1>10 DEF RedisRestart
  <2>4. Range(inbox') \subseteq Range(inbox)
    BY <2>3, RangeSome DEF TypeOK
  <2>5. ResultKeys' \subseteq ResultKeys
    BY <1>10 DEF RedisRestart, ResultKeys
  <2> QED
    BY <1>0, <1>10, <2>1, <2>2, <2>4, <2>5 DEF RedisRestart, pgVars
<1>11. CASE UNCHANGED <<redisVars, pgVars, posts>>
  BY <1>0, <1>11, AcceptedStays DEF redisVars, pgVars, ResultKeys
<1> QED
  BY <1>2, <1>3, <1>4, <1>5, <1>6, <1>7, <1>8, <1>9, <1>10, <1>11
  DEF Next, ServerNext, WorkerNext, InsertRejected, ConnectHash, ConnectPub,
      ServerRestart, WorkerOverflow, WorkerRestart, ConnectResult, Subscribe,
      PostgresRestart, vars

(* Whatever is queued at Redis or PostgreSQL, in the inbox, in a result or *)
(* in a row was POSTed and accepted by a server.                           *)
THEOREM TracedAlways == Spec => []Traced
<1>1. Init => Traced
  BY RangeEmpty DEF Init, Traced, InsertQueued, NoInserts, ResultKeys
<1> QED
  BY <1>1, TypeCorrect, TracedStep, PTL DEF Spec

-----------------------------------------------------------------------------
(* The refinement: every step of the application is a step of FibService   *)
(* or none.                                                                *)
LEMMA ServiceStep ==
    ASSUME TypeOK, RightAnswers, Traced, [Next]_vars
    PROVE  [Service!Next]_(Service!svars)
<1> USE DEF Service!svars
<1>1. ASSUME NEW s \in Servers, NEW k \in Keys, Post(s, k)
      PROVE  Service!Accept(k)
  BY <1>1, AcceptedGrows, PostedAcceptable
  DEF Post, Service!Accept, Acceptable, Service!Acceptable
<1>2. ASSUME NEW s \in Servers, ExecPlaceholder(s)
      PROVE  \E k \in Keys : Service!ShowPending(k)
  <2>1. hashOut[s] \in Seq(Acceptable) /\ hashOut[s] # <<>>
    BY <1>2 DEF TypeOK, ExecPlaceholder
  <2>2. Head(hashOut[s]) \in Range(hashOut[s])
    BY <2>1, RangeTail
  <2>3. Head(hashOut[s]) \in Accepted /\ Head(hashOut[s]) \in Keys
    BY <2>2 DEF Traced, Accepted
  <2>4. Accepted' = Accepted
    BY <1>2, AcceptedStays DEF ExecPlaceholder
  <2> QED
    BY <1>2, <2>3, <2>4 DEF ExecPlaceholder, Service!ShowPending
<1>3. CASE ExecResult
  <2>1. Head(results).key \in Accepted /\ Head(results).key \in Keys
    BY <1>3, ResultsShrink DEF Traced, Accepted
  <2>2. results \in Seq(Result) /\ results # <<>>
    BY <1>3 DEF TypeOK, ExecResult
  <2>3. 1 \in DOMAIN results /\ Head(results) = results[1]
    BY <2>2
  <2>4. /\ Head(results).key \in Numeric
        /\ Head(results).value = Answer(Head(results).key)
    BY <2>3 DEF RightAnswers
  <2>5. Accepted' = Accepted
    BY <1>3, AcceptedStays DEF ExecResult
  <2>6. Service!ShowAnswer(Head(results).key)
    BY <1>3, <2>1, <2>4, <2>5
    DEF ExecResult, Service!ShowAnswer, Answer, Service!Answer, fib, Service!fib,
        fibNat, Service!fibNat
  <2> QED
    BY <2>1, <2>6 DEF Service!Next
<1>4. CASE RedisRestart
  <2>1. Accepted' = Accepted
    BY <1>4, AcceptedStays DEF RedisRestart
  <2> QED
    BY <1>4, <2>1 DEF RedisRestart, Service!Forget, Service!Next
<1>5. CASE UNCHANGED <<hash, posts>>
  BY <1>5, AcceptedStays
<1>6. ASSUME NEW S, ServersDown(S)
      PROVE  UNCHANGED <<hash, posts>>
  BY <1>6 DEF ServersDown
<1>7. CASE WorkerDown
  BY <1>5, <1>7 DEF WorkerDown
<1> QED
  BY <1>1, <1>2, <1>3, <1>4, <1>5, <1>6, <1>7
  DEF Next, ServerNext, WorkerNext, InsertRow, InsertRejected, ExecPublish,
      WorkerMessage, ConnectHash, ConnectPub, ServerRestart, WorkerOverflow,
      WorkerRestart, ConnectResult, Subscribe, PostgresRestart, redisVars,
      vars, Service!Next

(* The application implements FibService, for any servers, texts, numbers  *)
(* of POSTs and restarts of any of its parts.                              *)
THEOREM ServiceImplemented == Spec => ImplementsService
<1>1. Init => Service!Init
  BY DEF Init, Service!Init, Accepted
<1> QED
  BY <1>1, TypeCorrect, AnswersAreRight, TracedAlways, ServiceStep, PTL
  DEF Spec, ImplementsService, Service!Spec
-----------------------------------------------------------------------------

(* Two queues that agree, counted from the end, as far as both reach.      *)
Agree(p, q) == \A i \in 0..(Len(p) - 1) :
                  i < Len(q) => p[Len(p) - i] = q[Len(q) - i]

LEMMA AgreeAppend ==
    ASSUME NEW T, NEW p \in Seq(T), NEW q \in Seq(T), NEW k \in T, Agree(p, q)
    PROVE  Agree(Append(p, k), Append(q, k))
<1>1. /\ Len(p) \in Nat /\ Len(Append(p, k)) = Len(p) + 1
      /\ Len(q) \in Nat /\ Len(Append(q, k)) = Len(q) + 1
  OBVIOUS
<1>2. SUFFICES ASSUME NEW i \in 0..Len(p), i < Len(q) + 1
               PROVE  Append(p, k)[Len(p) + 1 - i] = Append(q, k)[Len(q) + 1 - i]
  BY <1>1 DEF Agree
<1>3. CASE i = 0
  BY <1>3
<1>4. CASE i # 0
  <2>1. i - 1 \in 0..(Len(p) - 1) /\ i - 1 < Len(q)
    BY <1>1, <1>2, <1>4
  <2>2. p[Len(p) - (i - 1)] = q[Len(q) - (i - 1)]
    BY <2>1 DEF Agree
  <2>3. Append(p, k)[Len(p) + 1 - i] = p[Len(p) - (i - 1)]
    BY <1>1, <2>1
  <2>4. Append(q, k)[Len(q) + 1 - i] = q[Len(q) - (i - 1)]
    BY <1>1, <2>1
  <2> QED
    BY <2>2, <2>3, <2>4
<1> QED
  BY <1>3, <1>4

LEMMA FromTheEnd ==
    ASSUME NEW T, NEW q \in Seq(T), q # <<>>
    PROVE  /\ Len(q) \in Nat /\ Len(Tail(q)) = Len(q) - 1
           /\ \A i \in 0..(Len(q) - 2) : Tail(q)[Len(Tail(q)) - i] = q[Len(q) - i]
OBVIOUS

LEMMA AgreeTail ==
    ASSUME NEW T, NEW p \in Seq(T), NEW q \in Seq(T), Agree(p, q)
    PROVE  /\ p # <<>> => Agree(Tail(p), q)
           /\ q # <<>> => Agree(p, Tail(q))
<1>1. Len(p) \in Nat /\ Len(q) \in Nat
  OBVIOUS
<1>2. ASSUME p # <<>>
      PROVE  Agree(Tail(p), q)
  <2>1. SUFFICES ASSUME NEW i \in 0..(Len(Tail(p)) - 1), i < Len(q)
                 PROVE  Tail(p)[Len(Tail(p)) - i] = q[Len(q) - i]
    BY DEF Agree
  <2>2. i \in 0..(Len(p) - 2) /\ i \in 0..(Len(p) - 1)
    BY <1>1, <1>2, FromTheEnd
  <2>3. Tail(p)[Len(Tail(p)) - i] = p[Len(p) - i]
    BY <1>2, <2>2, FromTheEnd
  <2> QED
    BY <2>1, <2>2, <2>3 DEF Agree
<1>3. ASSUME q # <<>>
      PROVE  Agree(p, Tail(q))
  <2>1. SUFFICES ASSUME NEW i \in 0..(Len(p) - 1), i < Len(Tail(q))
                 PROVE  p[Len(p) - i] = Tail(q)[Len(Tail(q)) - i]
    BY DEF Agree
  <2>2. i \in 0..(Len(q) - 2) /\ i < Len(q)
    BY <1>1, <1>3, <2>1, FromTheEnd
  <2>3. Tail(q)[Len(Tail(q)) - i] = q[Len(q) - i]
    BY <1>3, <2>2, FromTheEnd
  <2> QED
    BY <2>1, <2>2, <2>3 DEF Agree
<1> QED
  BY <1>2, <1>3

LEMMA AlignedStep ==
    ASSUME TypeOK, Aligned, [Next]_vars
    PROVE  Aligned'
<1>0. \A s \in Servers : Agree(hashOut[s], pubOut[s])
  BY DEF Aligned, Agree
<1>1. SUFFICES ASSUME NEW r \in Servers
               PROVE  Agree(hashOut'[r], pubOut'[r])
  BY DEF Aligned, Agree
<1>2. hashOut[r] \in Seq(Acceptable) /\ pubOut[r] \in Seq(Acceptable)
  BY DEF TypeOK
<1>3. CASE hashOut'[r] = hashOut[r] /\ pubOut'[r] = pubOut[r]
  BY <1>0, <1>3
<1>4. CASE hashOut'[r] = <<>>
  BY <1>4 DEF Agree
<1>5. CASE pubOut'[r] = <<>>
  BY <1>5 DEF Agree
<1>6. CASE hashOut[r] # <<>> /\ hashOut'[r] = Tail(hashOut[r]) /\ pubOut'[r] = pubOut[r]
  BY <1>0, <1>2, <1>6, AgreeTail
<1>7. CASE pubOut[r] # <<>> /\ pubOut'[r] = Tail(pubOut[r]) /\ hashOut'[r] = hashOut[r]
  BY <1>0, <1>2, <1>7, AgreeTail
<1>8. ASSUME NEW s \in Servers, NEW k \in Keys, Post(s, k)
      PROVE  Agree(hashOut'[r], pubOut'[r])
  <2>1. k \in Acceptable
    BY <1>8, PostedAcceptable
  <2>2. CASE s = r
    <3>1. hashOut'[r] = Append(hashOut[r], k) /\ pubOut'[r] = Append(pubOut[r], k)
      BY <1>8, <2>2 DEF TypeOK, Post
    <3> QED
      BY <1>0, <1>2, <2>1, <3>1, AgreeAppend
  <2>3. CASE s # r
    BY <1>3, <1>8, <2>3 DEF TypeOK, Post
  <2> QED
    BY <2>2, <2>3
<1>9. ASSUME NEW s \in Servers, ExecPlaceholder(s)
      PROVE  Agree(hashOut'[r], pubOut'[r])
  <2>1. CASE s = r
    BY <1>6, <1>9, <2>1 DEF TypeOK, ExecPlaceholder
  <2>2. CASE s # r
    BY <1>3, <1>9, <2>2 DEF TypeOK, ExecPlaceholder
  <2> QED
    BY <2>1, <2>2
<1>10. ASSUME NEW s \in Servers, ExecPublish(s)
       PROVE  Agree(hashOut'[r], pubOut'[r])
  <2>1. CASE s = r
    BY <1>7, <1>10, <2>1 DEF TypeOK, ExecPublish
  <2>2. CASE s # r
    BY <1>3, <1>10, <2>2 DEF TypeOK, ExecPublish
  <2> QED
    BY <2>1, <2>2
<1>11. ASSUME NEW S, ServersDown(S)
       PROVE  Agree(hashOut'[r], pubOut'[r])
  BY <1>3, <1>4, <1>11 DEF ServersDown
<1>12. CASE RedisRestart
  BY <1>3, <1>4, <1>5, <1>12 DEF RedisRestart
<1>13. CASE UNCHANGED <<hashOut, pubOut>>
  BY <1>3, <1>13
<1> QED
  BY <1>8, <1>9, <1>10, <1>11, <1>12, <1>13
  DEF Next, ServerNext, WorkerNext, InsertRow, InsertRejected, WorkerMessage,
      ExecResult, ConnectHash, ConnectPub, ServerRestart, WorkerDown,
      WorkerOverflow, WorkerRestart, ConnectResult, Subscribe,
      PostgresRestart, redisVars, vars

(* Redis never runs ahead of what the servers sent in a way the queues do  *)
(* not show: everything queued was POSTed, and the two connections of a    *)
(* server agree from the end.                                              *)
THEOREM QueuesKeepOrder == Spec => []QueueInv
<1>1. Init => Aligned
  BY DEF Init, Aligned
<1> QED
  BY <1>1, TypeCorrect, TracedAlways, AlignedStep, PTL DEF Spec, QueueInv

-----------------------------------------------------------------------------
(* A placeholder whose PUBLISH is not gone has it in the other queue.      *)
LEMMA HeadStillQueued ==
    ASSUME TypeOK, Aligned, NEW s \in Servers, hashOut[s] # <<>>,
           Len(pubOut[s]) >= Len(hashOut[s])
    PROVE  Head(hashOut[s]) \in Range(pubOut[s])
<1> DEFINE i == Len(hashOut[s]) - 1
<1>1. hashOut[s] \in Seq(Acceptable) /\ pubOut[s] \in Seq(Acceptable)
  BY DEF TypeOK
<1>2. /\ Len(hashOut[s]) \in Nat \ {0} /\ Len(pubOut[s]) \in Nat
      /\ Head(hashOut[s]) = hashOut[s][1]
  BY <1>1
<1>3. i \in 0..(Len(hashOut[s]) - 1) /\ i < Len(pubOut[s]) /\ Len(hashOut[s]) - i = 1
  BY <1>2
<1>4. hashOut[s][Len(hashOut[s]) - i] = pubOut[s][Len(pubOut[s]) - i]
  BY <1>3 DEF Aligned
<1>a. DOMAIN pubOut[s] = 1..Len(pubOut[s])
  BY <1>1
<1>b. \A m, n \in Nat : n > 0 /\ m >= n => m - (n - 1) \in 1..m
  OBVIOUS
<1>c. Len(hashOut[s]) \in Nat /\ Len(hashOut[s]) > 0 /\ Len(pubOut[s]) >= Len(hashOut[s])
  BY <1>2
<1>d. Len(pubOut[s]) - (Len(hashOut[s]) - 1) \in 1..Len(pubOut[s])
  BY <1>2, <1>b, <1>c
<1>5. Len(pubOut[s]) - i \in DOMAIN pubOut[s]
  BY <1>a, <1>d
<1> QED
  BY <1>2, <1>3, <1>4, <1>5 DEF Range

(* Executing the placeholder of a text explains it, one way or the other.  *)
LEMMA PlaceholderExplained ==
    ASSUME TypeOK, Aligned, NEW s \in Servers, ExecPlaceholder(s),
           NEW k \in Keys, Head(hashOut[s]) = k
    PROVE  (InWork(k) \/ k \in late \cup lost)'
<1>1. hashOut[s] \in Seq(Acceptable) /\ hashOut[s] # <<>> /\ pubOut[s] \in Seq(Acceptable)
  BY DEF TypeOK, ExecPlaceholder
<1>2. Len(hashOut[s]) \in Nat /\ Len(pubOut[s]) \in Nat
  BY <1>1
<1>3. CASE Len(pubOut[s]) < Len(hashOut[s])
  BY <1>3 DEF ExecPlaceholder
<1>4. CASE Len(pubOut[s]) >= Len(hashOut[s])
  BY <1>1, <1>4, HeadStillQueued DEF ExecPlaceholder, InWork
<1> QED
  BY <1>2, <1>3, <1>4

(* Only a placeholder that is executed makes a field say "Nothing yet!".   *)
LEMMA BecomesPending ==
    ASSUME TypeOK, [Next]_vars, NEW k \in Keys, hash[k] # Pending,
           hash'[k] = Pending
    PROVE  \E s \in Servers : ExecPlaceholder(s) /\ Head(hashOut[s]) = k
<1>1. ASSUME ExecResult
      PROVE  FALSE
  <2>1. Head(results).value \in Int
    BY <1>1, ResultsShrink DEF Result
  <2> QED
    BY <1>1, <2>1, TextAssumption DEF TypeOK, ExecResult
<1>2. ASSUME RedisRestart
      PROVE  FALSE
  BY <1>2, TextAssumption DEF RedisRestart
<1>3. ~UNCHANGED hash
  OBVIOUS
<1>4. ASSUME NEW S, ServersDown(S)
      PROVE  FALSE
  BY <1>3, <1>4 DEF ServersDown
<1>5. PICK s \in Servers : ExecPlaceholder(s)
  BY <1>1, <1>2, <1>3, <1>4
  DEF Next, ServerNext, WorkerNext, Post, InsertRow, InsertRejected,
      ExecPublish, WorkerMessage, WorkerDown, ConnectHash, ConnectPub,
      ServerRestart, WorkerOverflow, WorkerRestart, ConnectResult,
      Subscribe, PostgresRestart, redisVars, vars
<1>6. Head(hashOut[s]) = k
  BY <1>5 DEF TypeOK, ExecPlaceholder
<1> QED
  BY <1>5, <1>6

(* Work on a text stays work, or is recorded as lost, or ends in a result. *)
LEMMA PendingStep ==
    ASSUME TypeOK, Aligned, PendingExplained, [Next]_vars
    PROVE  PendingExplained'
<1> DEFINE Explained(k) == InWork(k) \/ k \in late \cup lost
<1>1. SUFFICES ASSUME NEW k \in Keys, hash'[k] = Pending
               PROVE  Explained(k)'
  BY DEF PendingExplained
<1>2. CASE hash[k] # Pending
  <2>1. PICK s \in Servers : ExecPlaceholder(s) /\ Head(hashOut[s]) = k
    BY <1>1, <1>2, BecomesPending
  <2> QED
    BY <2>1, PlaceholderExplained
<1>3. CASE hash[k] = Pending
  <2>0. Explained(k)
    BY <1>3 DEF PendingExplained
  <2>1. ASSUME NEW s \in Servers, NEW j \in Keys, Post(s, j)
        PROVE  Explained(k)'
    <3>1. j \in Acceptable
      BY <2>1, PostedAcceptable
    <3>2. \A r \in Servers : Range(pubOut[r]) \subseteq Range(pubOut'[r])
      BY <2>1, <3>1, RangeAppend DEF TypeOK, Post
    <3> QED
      BY <2>0, <2>1, <3>2 DEF Post, causes, InWork, ResultKeys
  <2>2. ASSUME NEW S \in SUBSET Servers, ServersDown(S)
        PROVE  Explained(k)'
    <3>1. \A r \in Servers : r \in S \/ pubOut'[r] = pubOut[r]
      BY <2>2 DEF ServersDown
    <3> QED
      BY <2>0, <2>2, <3>1 DEF ServersDown, InWork, ResultKeys
  <2>3. ASSUME NEW s \in Servers, ExecPlaceholder(s), Head(hashOut[s]) # k
        PROVE  Explained(k)'
    BY <2>0, <2>3 DEF ExecPlaceholder, InWork, ResultKeys
  <2>4. ASSUME NEW s \in Servers, ExecPublish(s)
        PROVE  Explained(k)'
    <3>1. pubOut[s] \in Seq(Acceptable) /\ pubOut[s] # <<>> /\ inbox \in Seq(Acceptable)
      BY <2>4 DEF TypeOK, ExecPublish
    <3>2. Head(pubOut[s]) \in Acceptable
          /\ Range(pubOut[s]) = {Head(pubOut[s])} \cup Range(Tail(pubOut[s]))
      BY <3>1, RangeTail
    <3>3. Range(Append(inbox, Head(pubOut[s]))) = Range(inbox) \cup {Head(pubOut[s])}
      BY <3>1, <3>2, RangeAppend
    <3>4. \A r \in Servers : pubOut'[r] = IF r = s THEN Tail(pubOut[s]) ELSE pubOut[r]
      BY <2>4 DEF TypeOK, ExecPublish
    <3>5. late' = late /\ ResultKeys' = ResultKeys
      BY <2>4 DEF ExecPublish, ResultKeys
    <3>6. Range(inbox) \subseteq Range(inbox') /\ lost \subseteq lost'
          /\ Head(pubOut[s]) \in Range(inbox') \cup lost'
      BY <2>4, <3>3 DEF ExecPublish
    <3>7. CASE k \in Range(inbox) \/ k \in ResultKeys \/ k \in late \cup lost
      BY <3>5, <3>6, <3>7 DEF InWork
    <3>8. CASE \E r \in Servers : k \in Range(pubOut[r])
      BY <3>2, <3>4, <3>6, <3>8 DEF InWork
    <3> QED
      BY <2>0, <3>7, <3>8 DEF InWork
  <2>5. CASE WorkerMessage
    <3>1. inbox \in Seq(Acceptable) /\ inbox # <<>> /\ inbox' = Tail(inbox)
      BY <2>5 DEF TypeOK, WorkerMessage
    <3>2. Range(inbox) = {Head(inbox)} \cup Range(inbox')
      BY <3>1, RangeTail
    <3>3. ResultKeys' = ResultKeys \cup {Head(inbox)}
      BY <2>5, ResultsGrow
    <3> QED
      BY <2>0, <2>5, <3>2, <3>3 DEF WorkerMessage, causes, InWork
  <2>6. CASE ExecResult
    <3>1. Head(results) \in Result /\ ResultKeys \subseteq ResultKeys' \cup {Head(results).key}
      BY <2>6, ResultsShrink
    <3>2. k # Head(results).key
      BY <1>1, <2>6, <3>1, TextAssumption DEF TypeOK, ExecResult, Result
    <3> QED
      BY <2>0, <2>6, <3>1, <3>2 DEF ExecResult, InWork
  <2>7. CASE WorkerDown
    BY <2>0, <2>7 DEF WorkerDown, InWork
  <2>8. ASSUME RedisRestart
        PROVE  FALSE
    BY <1>1, <2>8, TextAssumption DEF RedisRestart
  <2>9. CASE UNCHANGED <<pubOut, inbox, results, late, lost>>
    BY <2>0, <2>9 DEF InWork, ResultKeys
  <2>10. ASSUME NEW s \in Servers, ExecPlaceholder(s), Head(hashOut[s]) = k
         PROVE  Explained(k)'
    BY <2>10, PlaceholderExplained
  <2> QED
    BY <2>1, <2>2, <2>3, <2>4, <2>5, <2>6, <2>7, <2>8, <2>9, <2>10
    DEF Next, ServerNext, WorkerNext, InsertRow, InsertRejected, ConnectHash,
        ConnectPub, ServerRestart, WorkerOverflow, WorkerRestart,
        ConnectResult, Subscribe, PostgresRestart, redisVars, causes, vars
<1> QED
  BY <1>2, <1>3

(* A field stuck at "Nothing yet!" has a late placeholder or lost work.    *)
THEOREM PendingIsExplained == Spec => []PendingExplained
<1>1. Init => PendingExplained
  BY TextAssumption DEF Init, PendingExplained
<1> QED
  BY <1>1, TypeCorrect, QueuesKeepOrder, PendingStep, PTL DEF Spec, QueueInv

-----------------------------------------------------------------------------
(* An accepted text has an entry, or a placeholder under way, or lost it.  *)
(* SeenHasEntry is about the texts with a row; this is inductive.          *)
AcceptedHasEntry ==
    \A k \in Accepted : hash[k] # Absent \/ PlaceholderQueued(k) \/ k \in wiped

LEMMA EntryStep ==
    ASSUME TypeOK, AcceptedHasEntry, [Next]_vars
    PROVE  AcceptedHasEntry'
<1> DEFINE Kept(k) == hash[k] # Absent \/ PlaceholderQueued(k) \/ k \in wiped
<1>0. Accepted \subseteq Keys
  BY DEF Accepted
<1>1. SUFFICES ASSUME NEW k \in Accepted'
               PROVE  Kept(k)'
  BY DEF AcceptedHasEntry
<1>2. ASSUME NEW s \in Servers, NEW j \in Keys, Post(s, j)
      PROVE  Kept(k)'
  <2>1. j \in Acceptable
    BY <1>2, PostedAcceptable
  <2>2. \A r \in Servers : Range(hashOut[r]) \subseteq Range(hashOut'[r])
    BY <1>2, <2>1, RangeAppend DEF TypeOK, Post
  <2>3. j \in Range(hashOut'[s])
    BY <1>2, <2>1, RangeAppend DEF TypeOK, Post
  <2>4. k = j \/ k \in Accepted
    BY <1>1, <1>2, AcceptedGrows
  <2> QED
    BY <1>2, <2>2, <2>3, <2>4
    DEF AcceptedHasEntry, PlaceholderQueued, Post, causes
<1>3. ASSUME UNCHANGED posts
      PROVE  Kept(k) /\ k \in Keys
  BY <1>0, <1>1, <1>3, AcceptedStays DEF AcceptedHasEntry
<1>4. ASSUME NEW S \in SUBSET Servers, ServersDown(S)
      PROVE  Kept(k)'
  <2>1. \A r \in Servers : r \in S \/ hashOut'[r] = hashOut[r]
    BY <1>4 DEF ServersDown
  <2>2. Kept(k)
    BY <1>3, <1>4 DEF ServersDown
  <2> QED
    BY <1>4, <2>1, <2>2 DEF ServersDown, PlaceholderQueued
<1>5. ASSUME NEW s \in Servers, ExecPlaceholder(s)
      PROVE  Kept(k)'
  <2>1. hashOut[s] \in Seq(Acceptable) /\ hashOut[s] # <<>>
    BY <1>5 DEF TypeOK, ExecPlaceholder
  <2>2. Kept(k) /\ k \in Keys
    BY <1>3, <1>5 DEF ExecPlaceholder
  <2>3. CASE k = Head(hashOut[s])
    BY <1>5, <2>2, <2>3, TextAssumption DEF TypeOK, ExecPlaceholder
  <2>4. CASE k # Head(hashOut[s])
    <3>1. hash'[k] = hash[k] /\ (k \in wiped => k \in wiped')
      BY <1>5, <2>2, <2>4 DEF TypeOK, ExecPlaceholder
    <3>2. \A r \in Servers : hashOut'[r] = IF r = s THEN Tail(hashOut[s]) ELSE hashOut[r]
      BY <1>5 DEF TypeOK, ExecPlaceholder
    <3>3. Range(hashOut[s]) = {Head(hashOut[s])} \cup Range(Tail(hashOut[s]))
      BY <2>1, RangeTail
    <3> QED
      BY <2>2, <2>4, <3>1, <3>2, <3>3 DEF PlaceholderQueued
  <2> QED
    BY <2>3, <2>4
<1>6. CASE ExecResult
  <2>1. Head(results).value \in Int /\ Head(results).value # Absent
    BY <1>6, ResultsShrink, TextAssumption DEF Result
  <2>2. Kept(k) /\ k \in Keys
    BY <1>3, <1>6 DEF ExecResult
  <2>3. CASE k = Head(results).key
    BY <1>6, <2>1, <2>2, <2>3 DEF TypeOK, ExecResult
  <2>4. CASE k # Head(results).key
    BY <1>6, <2>2, <2>4 DEF TypeOK, ExecResult, PlaceholderQueued
  <2> QED
    BY <2>3, <2>4
<1>7. CASE RedisRestart
  <2>1. Kept(k) /\ k \in Keys
    BY <1>3, <1>7 DEF RedisRestart
  <2>2. \A r \in Servers : r \in hashUp \/ hashOut'[r] = hashOut[r]
    BY <1>7 DEF RedisRestart
  <2> QED
    BY <1>7, <2>1, <2>2 DEF RedisRestart, PlaceholderQueued
<1>8. CASE UNCHANGED <<posts, hash, hashOut, wiped>>
  BY <1>3, <1>8 DEF PlaceholderQueued
<1> QED
  BY <1>2, <1>4, <1>5, <1>6, <1>7, <1>8
  DEF Next, ServerNext, WorkerNext, InsertRow, InsertRejected, ExecPublish,
      WorkerMessage, WorkerDown, ConnectHash, ConnectPub, ServerRestart,
      WorkerOverflow, WorkerRestart, ConnectResult, Subscribe,
      PostgresRestart, redisVars, causes, vars

(* A number PostgreSQL lists has an entry in the hash, or one is on its    *)
(* way, unless a restart lost it.                                          *)
THEOREM SeenAlwaysHasEntry == Spec => []SeenHasEntry
<1>1. Init => AcceptedHasEntry
  <2>1. Init => Accepted = {}
    BY DEF Init, Accepted
  <2> QED
    BY <2>1 DEF AcceptedHasEntry
<1>2. Spec => []AcceptedHasEntry
  BY <1>1, TypeCorrect, EntryStep, PTL DEF Spec
<1>3. Traced /\ AcceptedHasEntry => SeenHasEntry
  BY DEF Traced, AcceptedHasEntry, SeenHasEntry
<1> QED
  BY <1>2, <1>3, TracedAlways, PTL

-----------------------------------------------------------------------------
(* The INSERTs of a text in flight, as a set: those of each server are     *)
(* numbered.  With the rows there are they make up the POSTs of the text.  *)
Sent(k) == {t \in Servers \X (Nat \ {0}) : t[2] <= inserts[t[1]][k]}

Booked(k) ==
    /\ IsFiniteSet(Sent(k))
    /\ rows[k] + Cardinality(Sent(k)) <= posts[k]
    /\ rows[k] + Cardinality(Sent(k)) = posts[k] \/ k \in unrecorded

(* One INSERT more, or one less.                                           *)
LEMMA SentChanges ==
    ASSUME TypeOK, NEW s \in Servers, NEW k \in Keys
    PROVE  /\ inserts[s][k] + 1 = inserts'[s][k]
                 /\ (\A r \in Servers \ {s} : inserts'[r][k] = inserts[r][k])
              => /\ Sent(k)' = Sent(k) \cup {<<s, inserts[s][k] + 1>>}
                 /\ <<s, inserts[s][k] + 1>> \notin Sent(k)
           /\ inserts[s][k] > 0 /\ inserts'[s][k] = inserts[s][k] - 1
                 /\ (\A r \in Servers \ {s} : inserts'[r][k] = inserts[r][k])
              => /\ Sent(k)' = Sent(k) \ {<<s, inserts[s][k]>>}
                 /\ <<s, inserts[s][k]>> \in Sent(k)
<1>0. \A r \in Servers : inserts[r][k] \in Nat
  BY DEF TypeOK
<1> DEFINE n == inserts[s][k]
<1>1. ASSUME n + 1 = inserts'[s][k],
             \A r \in Servers \ {s} : inserts'[r][k] = inserts[r][k]
      PROVE  /\ Sent(k)' = Sent(k) \cup {<<s, n + 1>>}
             /\ <<s, n + 1>> \notin Sent(k)
  <2>1. \A r \in Servers, i \in Nat \ {0} :
           i <= inserts'[r][k] <=> i <= inserts[r][k] \/ <<r, i>> = <<s, n + 1>>
    BY <1>0, <1>1
  <2>2. <<s, n + 1>> \in Servers \X (Nat \ {0}) /\ ~(n + 1 <= n)
    BY <1>0
  <2>3. \A t \in Servers \X (Nat \ {0}) :
           t[2] <= inserts'[t[1]][k] <=> t[2] <= inserts[t[1]][k] \/ t = <<s, n + 1>>
    BY <2>1
  <2> QED
    BY <2>2, <2>3 DEF Sent
<1>2. ASSUME n > 0, inserts'[s][k] = n - 1,
             \A r \in Servers \ {s} : inserts'[r][k] = inserts[r][k]
      PROVE  /\ Sent(k)' = Sent(k) \ {<<s, n>>}
             /\ <<s, n>> \in Sent(k)
  <2>1. \A r \in Servers, i \in Nat \ {0} :
           i <= inserts'[r][k] <=> i <= inserts[r][k] /\ <<r, i>> # <<s, n>>
    BY <1>0, <1>2
  <2>2. <<s, n>> \in Servers \X (Nat \ {0})
    BY <1>0, <1>2
  <2>3. \A t \in Servers \X (Nat \ {0}) :
           t[2] <= inserts'[t[1]][k] <=> t[2] <= inserts[t[1]][k] /\ t # <<s, n>>
    BY <2>1
  <2> QED
    BY <1>0, <2>2, <2>3 DEF Sent
<1> QED
  BY <1>1, <1>2

LEMMA SentSame ==
    ASSUME NEW k \in Keys, \A r \in Servers : inserts'[r][k] = inserts[r][k]
    PROVE  Sent(k)' = Sent(k)
BY DEF Sent

(* Every INSERT is done once, or its text is among the unrecorded.         *)
LEMMA BookedStep ==
    ASSUME TypeOK, NEW k \in Keys, Booked(k), [Next]_vars
    PROVE  Booked(k)'
<1>0. /\ rows[k] \in Nat /\ posts[k] \in Nat /\ Cardinality(Sent(k)) \in Nat
      /\ \A r \in Servers : inserts[r][k] \in Nat
  BY FS_CardinalityType DEF TypeOK, Booked
<1>1. ASSUME NEW s \in Servers, NEW j \in Keys, Post(s, j)
      PROVE  Booked(k)'
  <2>1. CASE j = k
    <3> DEFINE t == <<s, inserts[s][k] + 1>>
    <3>1. Sent(k)' = Sent(k) \cup {t} /\ t \notin Sent(k)
      <4>1. /\ inserts[s][k] + 1 = inserts'[s][k]
            /\ \A r \in Servers \ {s} : inserts'[r][k] = inserts[r][k]
        BY <1>1, <2>1 DEF TypeOK, Post
      <4> QED
        BY <4>1, SentChanges
    <3>2. IsFiniteSet(Sent(k)') /\ Cardinality(Sent(k)') = Cardinality(Sent(k)) + 1
      BY <3>1, FS_AddElement DEF Booked
    <3>3. posts'[k] = posts[k] + 1 /\ UNCHANGED <<rows, unrecorded>>
      BY <1>1, <2>1 DEF TypeOK, Post
    <3> QED
      BY <1>0, <3>2, <3>3 DEF Booked
  <2>2. CASE j # k
    <3>1. Sent(k)' = Sent(k)
      <4>1. \A r \in Servers : inserts'[r][k] = inserts[r][k]
        BY <1>1, <2>2 DEF TypeOK, Post
      <4> QED
        BY <4>1, SentSame
    <3>2. posts'[k] = posts[k] /\ UNCHANGED <<rows, unrecorded>>
      BY <1>1, <2>2 DEF TypeOK, Post
    <3> QED
      BY <3>1, <3>2 DEF Booked
  <2> QED
    BY <2>1, <2>2
<1>2. ASSUME NEW s \in Servers, NEW j \in Keys, InsertRow(s, j)
      PROVE  Booked(k)'
  <2>1. CASE j = k
    <3> DEFINE t == <<s, inserts[s][k]>>
    <3>1. Sent(k)' = Sent(k) \ {t} /\ t \in Sent(k)
      <4>1. /\ inserts[s][k] > 0 /\ inserts'[s][k] = inserts[s][k] - 1
            /\ \A r \in Servers \ {s} : inserts'[r][k] = inserts[r][k]
        BY <1>2, <2>1 DEF TypeOK, InsertRow
      <4> QED
        BY <4>1, SentChanges
    <3>2. IsFiniteSet(Sent(k)') /\ Cardinality(Sent(k)') = Cardinality(Sent(k)) - 1
      <4>1. IsFiniteSet(Sent(k))
        BY DEF Booked
      <4> HIDE DEF t
      <4>2. /\ IsFiniteSet(Sent(k) \ {t})
            /\ Cardinality(Sent(k) \ {t}) = Cardinality(Sent(k)) - 1
        BY <3>1, <4>1, FS_RemoveElement
      <4> QED
        BY <3>1, <4>2
    <3>3. rows'[k] = rows[k] + 1 /\ UNCHANGED <<posts, unrecorded>>
      BY <1>2, <2>1 DEF TypeOK, InsertRow
    <3> QED
      BY <1>0, <3>2, <3>3 DEF Booked
  <2>2. CASE j # k
    <3>1. Sent(k)' = Sent(k)
      <4>1. \A r \in Servers : inserts'[r][k] = inserts[r][k]
        BY <1>2, <2>2 DEF TypeOK, InsertRow
      <4> QED
        BY <4>1, SentSame
    <3>2. rows'[k] = rows[k] /\ UNCHANGED <<posts, unrecorded>>
      BY <1>2, <2>2 DEF TypeOK, InsertRow
    <3> QED
      BY <3>1, <3>2 DEF Booked
  <2> QED
    BY <2>1, <2>2
<1>3. ASSUME NEW S \in SUBSET Servers, ServersDown(S)
      PROVE  Booked(k)'
  <2>1. /\ UNCHANGED <<rows, posts>> /\ unrecorded \subseteq unrecorded'
        /\ \A r \in Servers : inserts'[r][k] = IF r \in S THEN 0 ELSE inserts[r][k]
        /\ \A r \in S : inserts[r][k] > 0 => k \in unrecorded'
    BY <1>3 DEF ServersDown, NoInserts
  <2>2. CASE \E r \in S : inserts[r][k] > 0
    <3>1. Sent(k)' \in SUBSET Sent(k)
      BY <1>0, <2>1 DEF Sent
    <3>2. IsFiniteSet(Sent(k)') /\ Cardinality(Sent(k)') <= Cardinality(Sent(k))
      BY <3>1, FS_Subset DEF Booked
    <3>3. Cardinality(Sent(k)') \in Nat
      BY <3>2, FS_CardinalityType
    <3> QED
      BY <1>0, <2>1, <2>2, <3>2, <3>3 DEF Booked
  <2>3. CASE \A r \in S : ~(inserts[r][k] > 0)
    <3>1. \A r \in Servers : inserts'[r][k] = inserts[r][k]
      BY <1>0, <2>1, <2>3
    <3> QED
      BY <2>1, <3>1, SentSame DEF Booked
  <2> QED
    BY <2>2, <2>3
<1>4. CASE UNCHANGED <<inserts, rows, posts, unrecorded>>
  BY <1>4, SentSame DEF Booked
<1> QED
  BY <1>1, <1>2, <1>3, <1>4
  DEF Next, ServerNext, WorkerNext, InsertRejected, ExecPlaceholder,
      ExecPublish, WorkerMessage, WorkerDown, WorkerOverflow, WorkerRestart,
      ExecResult, ConnectHash, ConnectPub, ConnectResult, Subscribe,
      ServerRestart, RedisRestart, PostgresRestart, pgVars, redisVars, vars

(* Every accepted POST becomes one row, unless its INSERT is in flight or  *)
(* failed, for any servers and any restarts.                               *)
THEOREM RowsAlwaysMatch == Spec => []RowsMatchPosts
<1> DEFINE Inv == \A k \in Keys : Booked(k)
<1>1. Init => Inv
  <2> SUFFICES ASSUME Init, NEW k \in Keys PROVE Booked(k)
    OBVIOUS
  <2>1. Sent(k) = {}
    BY DEF Init, NoInserts, Sent
  <2> QED
    BY <2>1, FS_EmptySet DEF Init, Booked
<1>2. TypeOK /\ Inv /\ [Next]_vars => Inv'
  BY BookedStep
<1>3. TypeOK /\ Inv => RowsMatchPosts
  <2> SUFFICES ASSUME TypeOK, Inv, NEW k \in Keys
               PROVE  /\ rows[k] <= posts[k]
                      /\ rows[k] < posts[k] => InsertQueued(k) \/ k \in unrecorded
    BY DEF RowsMatchPosts
  <2>1. Booked(k) /\ Cardinality(Sent(k)) \in Nat /\ rows[k] \in Nat /\ posts[k] \in Nat
    BY FS_CardinalityType DEF TypeOK, Booked
  <2>2. CASE Sent(k) = {}
    BY <2>1, <2>2, FS_EmptySet DEF Booked
  <2>3. CASE Sent(k) # {}
    <3>1. PICK r \in Servers, i \in Nat \ {0} : i <= inserts[r][k]
      BY <2>3 DEF Sent
    <3>2. inserts[r][k] > 0
      BY <3>1 DEF TypeOK
    <3> QED
      BY <2>1, <3>2 DEF Booked, InsertQueued
  <2> QED
    BY <2>2, <2>3
<1> HIDE DEF Inv
<1> QED
  BY <1>1, <1>2, <1>3, TypeCorrect, PTL DEF Spec

-----------------------------------------------------------------------------
(* A text that was POSTed once is in one place at a time: in the queue of  *)
(* a publisher, on its way to the worker, in a result, or on display.      *)
Has(q, T) == \E i \in DOMAIN q : q[i] \in T

Sole(q, T) == \A i, j \in DOMAIN q : q[i] \in T /\ q[j] \in T => i = j

LEMMA QueueAppend ==
    ASSUME NEW U, NEW q \in Seq(U), NEW e \in U, NEW T
    PROVE  /\ Has(Append(q, e), T) <=> (Has(q, T) \/ e \in T)
           /\ Sole(q, T) /\ (e \in T => ~Has(q, T)) => Sole(Append(q, e), T)
<1>1. DOMAIN q = 1..Len(q) /\ Len(q) \in Nat /\ DOMAIN Append(q, e) = 1..(Len(q) + 1)
  OBVIOUS
<1>2. \A i \in 1..(Len(q) + 1) : Append(q, e)[i] = IF i = Len(q) + 1 THEN e ELSE q[i]
  OBVIOUS
<1>3. ASSUME Has(Append(q, e), T)
      PROVE  Has(q, T) \/ e \in T
  <2>1. PICK i \in 1..(Len(q) + 1) : Append(q, e)[i] \in T
    BY <1>1, <1>3 DEF Has
  <2>2. i = Len(q) + 1 \/ i \in 1..Len(q)
    BY <1>1
  <2> QED
    BY <1>1, <1>2, <2>1, <2>2 DEF Has
<1>4. Has(q, T) => Has(Append(q, e), T)
  <2> SUFFICES ASSUME NEW i \in 1..Len(q), q[i] \in T
               PROVE  Has(Append(q, e), T)
    BY <1>1 DEF Has
  <2>1. i \in 1..(Len(q) + 1) /\ i # Len(q) + 1
    BY <1>1
  <2> QED
    BY <1>1, <1>2, <2>1 DEF Has
<1>5. e \in T => Has(Append(q, e), T)
  <2>1. Len(q) + 1 \in 1..(Len(q) + 1)
    BY <1>1
  <2> QED
    BY <1>1, <1>2, <2>1 DEF Has
<1>6. ASSUME Sole(q, T), e \in T => ~Has(q, T)
      PROVE  Sole(Append(q, e), T)
  <2> SUFFICES ASSUME NEW i \in 1..(Len(q) + 1), NEW j \in 1..(Len(q) + 1),
                      Append(q, e)[i] \in T, Append(q, e)[j] \in T
               PROVE  i = j
    BY <1>1 DEF Sole
  <2>1. i = Len(q) + 1 \/ i \in 1..Len(q)
    BY <1>1
  <2>2. j = Len(q) + 1 \/ j \in 1..Len(q)
    BY <1>1
  <2> QED
    BY <1>1, <1>2, <1>6, <2>1, <2>2 DEF Has, Sole
<1> QED
  BY <1>3, <1>4, <1>5, <1>6

LEMMA QueueTail ==
    ASSUME NEW U, NEW q \in Seq(U), q # <<>>, NEW T
    PROVE  /\ Head(q) \in U /\ Tail(q) \in Seq(U)
           /\ Has(Tail(q), T) => Has(q, T)
           /\ Head(q) \in T => Has(q, T)
           /\ Sole(q, T) => Sole(Tail(q), T)
           /\ Sole(q, T) /\ Head(q) \in T => ~Has(Tail(q), T)
<1>1. /\ DOMAIN q = 1..Len(q) /\ Len(q) \in Nat /\ Len(q) > 0
      /\ Head(q) = q[1] /\ Head(q) \in U /\ Tail(q) \in Seq(U)
      /\ DOMAIN Tail(q) = 1..(Len(q) - 1)
  OBVIOUS
<1>2. \A i \in 1..(Len(q) - 1) : /\ Tail(q)[i] = q[i + 1]
                                 /\ i + 1 \in 1..Len(q) /\ i + 1 # 1
  BY <1>1
<1>3. 1 \in 1..Len(q)
  BY <1>1
<1>4. Has(Tail(q), T) => Has(q, T)
  BY <1>1, <1>2 DEF Has
<1>5. Head(q) \in T => Has(q, T)
  BY <1>1, <1>3 DEF Has
<1>6. ASSUME Sole(q, T)
      PROVE  Sole(Tail(q), T)
  <2> SUFFICES ASSUME NEW i \in 1..(Len(q) - 1), NEW j \in 1..(Len(q) - 1),
                      Tail(q)[i] \in T, Tail(q)[j] \in T
               PROVE  i = j
    BY <1>1 DEF Sole
  <2>1. i + 1 = j + 1
    BY <1>1, <1>2, <1>6 DEF Sole
  <2> QED
    BY <2>1
<1>7. Sole(q, T) /\ Head(q) \in T => ~Has(Tail(q), T)
  BY <1>1, <1>2, <1>3 DEF Sole, Has
<1> QED
  BY <1>1, <1>4, <1>5, <1>6, <1>7

LEMMA QueueSome ==
    ASSUME NEW U, NEW q \in Seq(U), NEW n \in 0..Len(q), NEW T
    PROVE  /\ Has(SubSeq(q, 1, n), T) => Has(q, T)
           /\ Sole(q, T) => Sole(SubSeq(q, 1, n), T)
<1>1. /\ DOMAIN q = 1..Len(q) /\ Len(q) \in Nat /\ DOMAIN SubSeq(q, 1, n) = 1..n
      /\ \A i \in 1..n : SubSeq(q, 1, n)[i] = q[i] /\ i \in 1..Len(q)
  OBVIOUS
<1> QED
  BY <1>1 DEF Has, Sole

LEMMA QueueEmpty == \A T : ~Has(<<>>, T) /\ Sole(<<>>, T)
BY DEF Has, Sole

Of(k) == {r \in Result : r.key = k}

Published(k) == \E s \in Servers : Has(pubOut[s], {k})
Told(k) == Has(inbox, {k})
Computed(k) == Has(results, Of(k))
Displayed(k) == hash[k] \notin {Absent, Pending}

Nowhere(k) == ~Published(k) /\ ~Told(k) /\ ~Computed(k) /\ ~Displayed(k)

Once(k) ==
    /\ \A s \in Servers : Sole(pubOut[s], {k})
    /\ \A s, r \in Servers :
          Has(pubOut[s], {k}) /\ Has(pubOut[r], {k}) => s = r
    /\ Sole(inbox, {k})
    /\ Sole(results, Of(k))
    /\ Published(k) => ~Told(k) /\ ~Computed(k) /\ ~Displayed(k)
    /\ Told(k) => ~Computed(k) /\ ~Displayed(k)
    /\ Computed(k) => ~Displayed(k)

Single(k) ==
    /\ posts[k] = 0 => Nowhere(k)
    /\ posts[k] <= 1 => Once(k)

(* Whatever takes from the places and moves nothing keeps it so.           *)
Shrinks(q, r, T) == (Has(r, T) => Has(q, T)) /\ (Sole(q, T) => Sole(r, T))

LEMMA FewerPlaces ==
    ASSUME NEW k \in Keys, Single(k), posts'[k] = posts[k],
           \A s \in Servers : Shrinks(pubOut[s], pubOut'[s], {k}),
           Shrinks(inbox, inbox', {k}), Shrinks(results, results', Of(k)),
           Displayed(k)' => Displayed(k)
    PROVE  Single(k)'
<1>1. /\ Published(k)' => Published(k)
      /\ Told(k)' => Told(k)
      /\ Computed(k)' => Computed(k)
  BY DEF Shrinks, Published, Told, Computed, Has, Of
<1>2. posts'[k] = 0 => Nowhere(k)'
  BY <1>1 DEF Single, Nowhere
<1>3. ASSUME posts'[k] <= 1
      PROVE  Once(k)'
  <2>1. Once(k)
    BY <1>3 DEF Single
  <2>2. \A s \in Servers : Sole(pubOut'[s], {k})
    BY <2>1 DEF Once, Shrinks
  <2>3. \A s, r \in Servers :
           Has(pubOut'[s], {k}) /\ Has(pubOut'[r], {k}) => s = r
    BY <2>1 DEF Once, Shrinks
  <2>4. Sole(inbox', {k}) /\ Sole(results', Of(k))
    BY <2>1 DEF Once, Shrinks
  <2> QED
    BY <1>1, <2>1, <2>2, <2>3, <2>4 DEF Once, Has, Sole, Of
<1> QED
  BY <1>2, <1>3 DEF Single

LEMMA ShrinksSame == \A q, T : Shrinks(q, q, T)
BY DEF Shrinks

LEMMA ShrinksEmpty == \A q, T : Shrinks(q, <<>>, T)
BY QueueEmpty DEF Shrinks

LEMMA ShrinksTail ==
    ASSUME NEW U, NEW q \in Seq(U), q # <<>>, NEW T
    PROVE  Shrinks(q, Tail(q), T)
BY QueueTail DEF Shrinks

LEMMA ShrinksOther ==
    ASSUME NEW U, NEW q \in Seq(U), NEW e \in U, NEW T, e \notin T
    PROVE  Shrinks(q, Append(q, e), T)
BY QueueAppend DEF Shrinks

(* The steps that move a text on, or bring it in.                          *)
LEMMA PostSingle ==
    ASSUME TypeOK, NEW k \in Keys, Single(k), NEW s \in Servers, NEW j \in Keys,
           Post(s, j)
    PROVE  Single(k)'
<1>1. /\ \A r \in Servers : pubOut[r] \in Seq(Acceptable)
      /\ \A r \in Servers :
            pubOut'[r] = IF r = s THEN Append(pubOut[r], j) ELSE pubOut[r]
      /\ UNCHANGED <<hash, inbox, results>>
  BY DEF TypeOK, Post
<1>2. j \in Acceptable
  BY PostedAcceptable
<1>3. CASE j # k
  <2>1. \A r \in Servers : Shrinks(pubOut[r], pubOut'[r], {k})
    BY <1>1, <1>2, <1>3, ShrinksSame, ShrinksOther
  <2>2. posts'[k] = posts[k]
    BY <1>3 DEF TypeOK, Post
  <2>3. Shrinks(inbox, inbox', {k}) /\ Shrinks(results, results', Of(k))
    BY <1>1, ShrinksSame
  <2>4. Displayed(k)' => Displayed(k)
    BY <1>1 DEF Displayed
  <2> QED
    BY <2>1, <2>2, <2>3, <2>4, FewerPlaces
<1>4. CASE j = k
  <2>1. posts'[k] = posts[k] + 1 /\ posts[k] \in Nat
    BY <1>4 DEF TypeOK, Post
  <2>2. CASE posts[k] = 0
    <3>1. Nowhere(k) /\ Once(k)
      BY <2>2 DEF Single
    <3>2. \A r \in Servers : ~Has(pubOut[r], {k}) /\ Sole(pubOut[r], {k})
      BY <3>1 DEF Nowhere, Published, Once
    <3>3. ASSUME NEW r \in Servers
          PROVE  Sole(pubOut'[r], {k})
      <4>1. pubOut[r] \in Seq(Acceptable) /\ ~Has(pubOut[r], {k}) /\ Sole(pubOut[r], {k})
        BY <1>1, <3>2
      <4>2. Sole(Append(pubOut[r], j), {k})
        BY <1>2, <4>1, QueueAppend
      <4>3. pubOut'[r] = Append(pubOut[r], j) \/ pubOut'[r] = pubOut[r]
        BY <1>1
      <4> QED
        BY <4>1, <4>2, <4>3
    <3>4. \A r \in Servers : Has(pubOut'[r], {k}) => r = s
      BY <1>1, <3>2
    <3>5. /\ ~Told(k)' /\ ~Computed(k)' /\ ~Displayed(k)'
          /\ Sole(inbox', {k}) /\ Sole(results', Of(k))
      BY <1>1, <3>1 DEF Nowhere, Told, Computed, Displayed, Once
    <3>6. Once(k)'
      BY <3>3, <3>4, <3>5 DEF Once, Has, Sole, Of
    <3> QED
      BY <2>1, <3>6 DEF Single
  <2>3. CASE posts[k] # 0
    BY <2>1, <2>3 DEF Single
  <2> QED
    BY <2>2, <2>3
<1> QED
  BY <1>3, <1>4

LEMMA PublishSingle ==
    ASSUME TypeOK, NEW k \in Keys, Single(k), NEW s \in Servers, ExecPublish(s)
    PROVE  Single(k)'
<1> DEFINE j == Head(pubOut[s])
<1>1. /\ \A r \in Servers : pubOut[r] \in Seq(Acceptable)
      /\ inbox \in Seq(Acceptable) /\ pubOut[s] # <<>>
      /\ \A r \in Servers :
            pubOut'[r] = IF r = s THEN Tail(pubOut[r]) ELSE pubOut[r]
      /\ inbox' = Append(inbox, j) \/ inbox' = inbox
      /\ UNCHANGED <<hash, results, posts>>
  BY DEF TypeOK, ExecPublish
<1>2. j \in Acceptable
  BY <1>1, QueueTail
<1> HIDE DEF j
<1>3. \A r \in Servers : Shrinks(pubOut[r], pubOut'[r], {k})
  BY <1>1, ShrinksSame, ShrinksTail
<1>4. Shrinks(results, results', Of(k)) /\ (Displayed(k)' => Displayed(k))
  BY <1>1, ShrinksSame DEF Displayed
<1>5. CASE inbox' = inbox \/ j # k
  <2>1. Shrinks(inbox, inbox', {k})
    BY <1>1, <1>2, <1>5, ShrinksSame, ShrinksOther
  <2> QED
    BY <1>1, <1>3, <1>4, <2>1, FewerPlaces
<1>6. CASE inbox' = Append(inbox, j) /\ j = k
  <2>1. Has(pubOut[s], {k}) /\ Published(k)
    <3>1. Has(pubOut[s], {k})
      BY <1>1, <1>6, QueueTail DEF j
    <3> QED
      BY <3>1 DEF Published
  <2>2. posts[k] # 0
    BY <2>1 DEF Single, Nowhere
  <2>3. ASSUME posts[k] <= 1
        PROVE  Once(k)'
    <3>1. Once(k)
      BY <2>3 DEF Single
    <3>2. ~Told(k) /\ ~Computed(k) /\ ~Displayed(k)
      BY <2>1, <3>1 DEF Once
    <3>3. \A r \in Servers : Sole(pubOut'[r], {k})
      BY <1>3, <3>1 DEF Once, Shrinks
    <3>4. \A r \in Servers : ~Has(pubOut'[r], {k})
      <4>1. ~Has(pubOut'[s], {k})
        <5>1. Head(pubOut[s]) \in {k} /\ pubOut'[s] = Tail(pubOut[s])
          BY <1>1, <1>6 DEF j
        <5>2. Sole(pubOut[s], {k}) /\ pubOut[s] \in Seq(Acceptable) /\ pubOut[s] # <<>>
          BY <1>1, <3>1 DEF Once
        <5>3. ~Has(Tail(pubOut[s]), {k})
          BY <5>1, <5>2, QueueTail
        <5> QED
          BY <5>1, <5>3
      <4>2. \A r \in Servers : r # s => ~Has(pubOut'[r], {k})
        BY <1>1, <2>1, <3>1 DEF Once
      <4> QED
        BY <4>1, <4>2
    <3>5. Sole(inbox', {k})
      BY <1>1, <1>2, <1>6, <3>1, <3>2, QueueAppend DEF Once, Told
    <3>6. ~Computed(k)' /\ ~Displayed(k)' /\ Sole(results', Of(k))
      BY <1>1, <3>1, <3>2 DEF Computed, Displayed, Once
    <3>7. ~Published(k)'
      BY <3>4 DEF Published, Has
    <3> QED
      BY <3>3, <3>4, <3>5, <3>6, <3>7 DEF Once, Has, Sole, Of
  <2> QED
    BY <1>1, <2>2, <2>3 DEF Single
<1> QED
  BY <1>1, <1>5, <1>6

LEMMA MessageSingle ==
    ASSUME TypeOK, NEW k \in Keys, Single(k), WorkerMessage
    PROVE  Single(k)'
<1> DEFINE j == Head(inbox)
           new == ResultOf(j)
<1>1. /\ inbox \in Seq(Acceptable) /\ results \in Seq(Result) /\ inbox # <<>>
      /\ inbox' = Tail(inbox) /\ results' = Append(results, new)
      /\ UNCHANGED <<hash, pubOut, posts>> /\ j \in Numeric
  BY DEF TypeOK, WorkerMessage
<1>2. new \in Result /\ new.key = j
  <2>1. j \in Numeric \cap Acceptable
    BY <1>1, QueueTail
  <2> QED
    BY <2>1, FibAssumption DEF Result, ResultOf
<1> HIDE DEF j, new
<1>3. /\ \A s \in Servers : Shrinks(pubOut[s], pubOut'[s], {k})
      /\ Shrinks(inbox, inbox', {k})
      /\ Displayed(k)' => Displayed(k)
  BY <1>1, ShrinksSame, ShrinksTail DEF Displayed
<1>4. CASE j # k
  <2>1. new \notin Of(k)
    BY <1>2, <1>4 DEF Of
  <2>2. Shrinks(results, results', Of(k))
    BY <1>1, <1>2, <2>1, ShrinksOther
  <2> QED
    BY <1>1, <1>3, <2>2, FewerPlaces
<1>5. CASE j = k
  <2>1. Told(k)
    BY <1>1, <1>5, QueueTail DEF j, Told
  <2>2. posts[k] # 0
    BY <2>1 DEF Single, Nowhere
  <2>3. ASSUME posts[k] <= 1
        PROVE  Once(k)'
    <3>1. Once(k)
      BY <2>3 DEF Single
    <3>2. ~Published(k) /\ ~Computed(k) /\ ~Displayed(k)
      BY <2>1, <3>1 DEF Once
    <3>3. ~Published(k)' /\ ~Displayed(k)'
      BY <1>1, <3>2 DEF Published, Displayed
    <3>4. ~Told(k)' /\ Sole(inbox', {k})
      BY <1>1, <1>5, <3>1, QueueTail DEF j, Told, Once
    <3>5. Sole(results', Of(k))
      BY <1>1, <1>2, <3>1, <3>2, QueueAppend DEF Once, Computed
    <3>6. /\ \A s \in Servers : Sole(pubOut'[s], {k})
          /\ \A s, r \in Servers :
                Has(pubOut'[s], {k}) /\ Has(pubOut'[r], {k}) => s = r
      BY <1>1, <3>1 DEF Once
    <3> QED
      BY <3>3, <3>4, <3>5, <3>6 DEF Once, Has, Sole, Of
  <2> QED
    BY <1>1, <2>2, <2>3 DEF Single
<1> QED
  BY <1>4, <1>5

LEMMA ResultSingle ==
    ASSUME TypeOK, NEW k \in Keys, Single(k), ExecResult
    PROVE  Single(k)'
<1> DEFINE new == Head(results)
<1>1. /\ results \in Seq(Result) /\ results # <<>> /\ results' = Tail(results)
      /\ UNCHANGED <<pubOut, inbox, posts>>
      /\ hash' = [hash EXCEPT ![new.key] = new.value]
  BY DEF TypeOK, ExecResult
<1>2. new \in Result
  BY <1>1, QueueTail
<1> HIDE DEF new
<1>3. /\ \A s \in Servers : Shrinks(pubOut[s], pubOut'[s], {k})
      /\ Shrinks(inbox, inbox', {k})
      /\ Shrinks(results, results', Of(k))
  BY <1>1, ShrinksSame, ShrinksTail
<1>4. CASE new.key # k
  <2>1. Displayed(k)' => Displayed(k)
    BY <1>1, <1>4 DEF TypeOK, Displayed
  <2> QED
    BY <1>1, <1>3, <2>1, FewerPlaces
<1>5. CASE new.key = k
  <2>0. new \in Of(k)
    BY <1>2, <1>5 DEF Of
  <2>1. Computed(k)
    BY <1>1, <2>0, QueueTail DEF new, Computed
  <2>2. posts[k] # 0
    BY <2>1 DEF Single, Nowhere
  <2>3. ASSUME posts[k] <= 1
        PROVE  Once(k)'
    <3>1. Once(k)
      BY <2>3 DEF Single
    <3>2. ~Published(k) /\ ~Told(k)
      BY <2>1, <3>1 DEF Once
    <3>3. ~Published(k)' /\ ~Told(k)'
      BY <1>1, <3>2 DEF Published, Told
    <3>4. ~Has(results', Of(k)) /\ Sole(results', Of(k))
      BY <1>1, <2>0, <3>1, QueueTail DEF new, Once
    <3>5. /\ \A s \in Servers : Sole(pubOut'[s], {k})
          /\ \A s, r \in Servers :
                Has(pubOut'[s], {k}) /\ Has(pubOut'[r], {k}) => s = r
          /\ Sole(inbox', {k})
      BY <1>1, <3>1 DEF Once
    <3>6. ~Computed(k)'
      BY <3>4 DEF Computed, Has, Of
    <3> QED
      BY <3>3, <3>4, <3>5, <3>6 DEF Once, Has, Sole, Of
  <2> QED
    BY <1>1, <2>2, <2>3 DEF Single
<1> QED
  BY <1>4, <1>5

LEMMA SingleStep ==
    ASSUME TypeOK, NEW k \in Keys, Single(k), [Next]_vars
    PROVE  Single(k)'
<1>1. CASE UNCHANGED <<pubOut, inbox, results, posts, hash>>
  BY <1>1, ShrinksSame, FewerPlaces DEF Displayed
<1>2. ASSUME NEW S, ServersDown(S)
      PROVE  Single(k)'
  <2>1. \A s \in Servers : Shrinks(pubOut[s], pubOut'[s], {k})
    BY <1>2, ShrinksSame, ShrinksEmpty DEF ServersDown
  <2>2. UNCHANGED <<inbox, results, posts, hash>>
    BY <1>2 DEF ServersDown
  <2> QED
    BY <2>1, <2>2, ShrinksSame, FewerPlaces DEF Displayed
<1>3. CASE WorkerDown
  <2>1. /\ inbox' = <<>> /\ results' = <<>>
        /\ UNCHANGED <<pubOut, posts, hash>>
    BY <1>3 DEF WorkerDown
  <2> QED
    BY <2>1, ShrinksSame, ShrinksEmpty, FewerPlaces DEF Displayed
<1>4. CASE RedisRestart
  <2>1. /\ \A s \in Servers : Shrinks(pubOut[s], pubOut'[s], {k})
        /\ Shrinks(results, results', Of(k))
    BY <1>4, ShrinksSame, ShrinksEmpty DEF RedisRestart
  <2>2. Shrinks(inbox, inbox', {k})
    <3>1. PICK n \in 0..Len(inbox) : inbox' = SubSeq(inbox, 1, n)
      BY <1>4 DEF RedisRestart
    <3>2. inbox \in Seq(Acceptable)
      BY DEF TypeOK
    <3> QED
      BY <3>1, <3>2, QueueSome DEF Shrinks
  <2>3. posts' = posts /\ ~Displayed(k)'
    BY <1>4 DEF RedisRestart, Displayed
  <2> QED
    BY <2>1, <2>2, <2>3, FewerPlaces
<1>5. ASSUME NEW s \in Servers, ExecPlaceholder(s)
      PROVE  Single(k)'
  <2>1. UNCHANGED <<pubOut, inbox, results, posts>>
    BY <1>5 DEF ExecPlaceholder
  <2>2. Displayed(k)' => Displayed(k)
    BY <1>5 DEF ExecPlaceholder, TypeOK, Displayed
  <2> QED
    BY <2>1, <2>2, ShrinksSame, FewerPlaces
<1> QED
  BY <1>1, <1>2, <1>3, <1>4, <1>5, PostSingle, PublishSingle, MessageSingle,
     ResultSingle
  DEF Next, ServerNext, WorkerNext, InsertRow, InsertRejected, ConnectHash,
      ConnectPub, ServerRestart, WorkerOverflow, WorkerRestart, ConnectResult,
      Subscribe, PostgresRestart, redisVars, vars

(* An answer gives way to "Nothing yet!" only after a second POST of its   *)
(* text, or when the placeholder comes after its own PUBLISH.              *)
THEOREM RegressAlwaysExplained == Spec => RegressOnlyByRepost
<1> DEFINE Inv == \A k \in Keys : Single(k)
           Explained == \A k \in Keys :
                           hash[k] \notin {Absent, Pending} /\ hash'[k] = Pending
                              => posts[k] > 1 \/ k \in late'
<1>1. Init => Inv
  <2> SUFFICES ASSUME Init, NEW k \in Keys PROVE Single(k)
    OBVIOUS
  <2>1. Nowhere(k)
    BY QueueEmpty DEF Init, Nowhere, Published, Told, Computed, Displayed
  <2>2. Once(k)
    BY <2>1, QueueEmpty DEF Init, Nowhere, Once
  <2> QED
    BY <2>1, <2>2 DEF Single
<1>2. TypeOK /\ Inv /\ [Next]_vars => Inv'
  BY SingleStep
<1>3. ASSUME TypeOK, Aligned, Inv, [Next]_vars
      PROVE  Explained
  <2> SUFFICES ASSUME NEW k \in Keys, hash[k] \notin {Absent, Pending},
                      hash'[k] = Pending
               PROVE  posts[k] > 1 \/ k \in late'
    OBVIOUS
  <2>1. PICK s \in Servers : ExecPlaceholder(s) /\ Head(hashOut[s]) = k
    BY <1>3, BecomesPending
  <2>2. /\ Len(hashOut[s]) \in Nat /\ Len(pubOut[s]) \in Nat
        /\ hashOut[s] # <<>> /\ posts[k] \in Nat
    <3>1. hashOut[s] \in Seq(Acceptable) /\ pubOut[s] \in Seq(Acceptable)
      BY <1>3 DEF TypeOK
    <3> QED
      BY <1>3, <2>1, <3>1 DEF TypeOK, ExecPlaceholder
  <2>3. CASE Len(pubOut[s]) < Len(hashOut[s])
    BY <2>1, <2>3 DEF ExecPlaceholder
  <2>4. CASE Len(pubOut[s]) >= Len(hashOut[s])
    <3>1. k \in Range(pubOut[s])
      BY <1>3, <2>1, <2>2, <2>4, HeadStillQueued
    <3>2. Published(k) /\ Displayed(k)
      BY <3>1 DEF Range, Published, Has, Displayed
    <3>3. ~(posts[k] <= 1)
      BY <1>3, <3>2 DEF Single, Once
    <3> QED
      BY <2>2, <3>3
  <2> QED
    BY <2>2, <2>3, <2>4
<1>4. TypeOK /\ Aligned /\ Inv /\ [Next]_vars => [Explained]_vars
  BY <1>3
<1> HIDE DEF Inv
<1>5. Spec => [][Explained]_vars
  <2> HIDE DEF Explained
  <2> QED
    BY <1>1, <1>2, <1>4, TypeCorrect, QueuesKeepOrder, PTL DEF Spec, QueueInv
<1> QED
  BY <1>5 DEF RegressOnlyByRepost
=============================================================================
