-------------------------- MODULE TasksApi_proofs --------------------------
(***************************************************************************)
(* Proofs about TasksApi, for any tasks, fetches and faults: types, that   *)
(* no stored task is missing from a list, that nothing heals a file that   *)
(* cannot be read, and what it takes to spoil it.  All rest on appends:    *)
(* they only ever extend the file, so an entry stays an entry and a        *)
(* spoiled one stays spoiled.  That no failed task is listed rests on what *)
(* the entries of such a file can be: lines of stored tasks, or a torn one *)
(* with the line after it.                                                 *)
(***************************************************************************)
EXTENDS TasksApi, TLAPS

LEMMA LineType ==
    ASSUME NEW p \in Posts
    PROVE  Line(p) \in Seq(Mark)
<1>1. SPLIT \in Mark /\ HALF \in Mark /\ p \in Mark
  BY DEF Mark
<1>2. <<HALF, SPLIT, HALF>> \in Seq(Mark) /\ <<p>> \in Seq(Mark)
      /\ <<SPLIT>> \in Seq(Mark)
  BY <1>1
<1>3. Json(p) \in Seq(Mark)
  BY <1>2 DEF Json
<1> QED
  BY <1>2, <1>3 DEF Line

LEMMA TornType ==
    ASSUME NEW p \in Posts, NEW s \in Torn(p)
    PROVE  s \in Seq(Mark)
<1> DEFINE begun == {SubSeq(Line(p), 1, n) : n \in 0..(Len(Line(p)) - 1)}
<1>1. begun \subseteq Seq(Mark)
  <2> SUFFICES ASSUME NEW n \in 0..(Len(Line(p)) - 1)
               PROVE  SubSeq(Line(p), 1, n) \in Seq(Mark)
    OBVIOUS
  <2> DEFINE l == Line(p)
  <2>1. l \in Seq(Mark) /\ n \in 0..Len(l)
    BY LineType
  <2> HIDE DEF l
  <2>2. SubSeq(l, 1, n) \in Seq(Mark)
    BY <2>1
  <2> QED
    BY <2>2 DEF l
<1>2. <<HALF>> \in Seq(Mark)
  BY DEF Mark
<1>3. s \in begun \/ \E t \in begun : s = t \o <<HALF>>
  BY DEF Torn
<1>4. CASE s \in begun
  BY <1>1, <1>4
<1>5. CASE \E t \in begun : s = t \o <<HALF>>
  <2>1. PICK t \in begun : s = t \o <<HALF>>
    BY <1>5
  <2>2. t \in Seq(Mark)
    BY <1>1
  <2> HIDE DEF begun
  <2> QED
    BY <1>2, <2>1, <2>2
<1> QED
  BY <1>3, <1>4, <1>5

-----------------------------------------------------------------------------
(* Appending.                                                              *)
LEMMA Extends ==
    ASSUME NEW f \in Seq(Mark), NEW s \in Seq(Mark)
    PROVE  /\ f \o s \in Seq(Mark)
           /\ Len(f \o s) = Len(f) + Len(s)
           /\ \A i \in 1..Len(f) : (f \o s)[i] = f[i]
           /\ \A i \in 1..Len(s) : (f \o s)[Len(f) + i] = s[i]
  OBVIOUS

LEMMA ListedGrows ==
    ASSUME NEW f \in Seq(Mark), NEW s \in Seq(Mark)
    PROVE  Listed(f) \subseteq Listed(f \o s)
<1> SUFFICES ASSUME NEW p \in Listed(f) PROVE p \in Listed(f \o s)
  OBVIOUS
<1>1. PICK i \in 1..Len(f) : f[i] = SPLIT /\ i > 1 /\ f[i - 1] = p
  BY DEF Listed, Ends
<1>2. i \in 1..Len(f \o s) /\ i - 1 \in 1..Len(f)
  BY <1>1, Extends
<1>3. (f \o s)[i] = SPLIT /\ (f \o s)[i - 1] = p
  BY <1>1, <1>2, Extends
<1> QED
  BY <1>1, <1>2, <1>3 DEF Listed, Ends

LEMMA SpoiledStays ==
    ASSUME NEW f \in Seq(Mark), NEW s \in Seq(Mark), ~Readable(f)
    PROVE  ~Readable(f \o s)
<1>1. PICK i \in 1..Len(f) : f[i] = SPLIT /\ ~IsEntry(f, i)
  BY DEF Readable, Ends
<1>2. i \in 1..Len(f \o s) /\ (f \o s)[i] = SPLIT
  BY <1>1, Extends
<1>3. /\ i > 1 => (f \o s)[i - 1] = f[i - 1]
      /\ i > 2 => (f \o s)[i - 2] = f[i - 2]
  <2>1. i > 1 => i - 1 \in 1..Len(f)
    OBVIOUS
  <2>2. i > 2 => i - 2 \in 1..Len(f)
    OBVIOUS
  <2> QED
    BY <2>1, <2>2, Extends
<1>4. ~IsEntry(f \o s, i)
  BY <1>1, <1>3 DEF IsEntry
<1> QED
  BY <1>2, <1>4 DEF Readable, Ends

(* A file holds a task if every list made from it has the task.            *)
Holds(f, p) == p \in Listed(f) \/ ~Readable(f)

LEMMA HoldsStays ==
    ASSUME NEW f \in Seq(Mark), NEW s \in Seq(Mark), NEW p \in Posts,
           Holds(f, p)
    PROVE  Holds(f \o s, p)
  BY ListedGrows, SpoiledStays DEF Holds

LEMMA PoisonLine ==
    ASSUME NEW p \in Posts, p \in Poison
    PROVE  /\ Len(Line(p)) = 4 /\ Line(p)[1] = HALF /\ Line(p)[2] = SPLIT
           /\ Line(p)[3] = HALF /\ Line(p)[4] = SPLIT
<1> DEFINE json == <<HALF, SPLIT, HALF>>
           end == <<SPLIT>>
<1>1. json \in Seq(Mark) /\ end \in Seq(Mark)
  BY DEF Mark
<1>2. /\ Len(json) = 3 /\ json[1] = HALF /\ json[2] = SPLIT /\ json[3] = HALF
      /\ Len(end) = 1 /\ end[1] = SPLIT
  OBVIOUS
<1>3. Line(p) = json \o end
  BY DEF Line, Json
<1> HIDE DEF json, end
<1>4. 1 \in 1..Len(json) /\ 2 \in 1..Len(json) /\ 3 \in 1..Len(json)
      /\ 1 \in 1..Len(end)
  BY <1>2
<1>5. Line(p)[1] = json[1] /\ Line(p)[2] = json[2] /\ Line(p)[3] = json[3]
  BY <1>1, <1>3, <1>4, Extends
<1>6. Line(p)[Len(json) + 1] = end[1]
  BY <1>1, <1>3, <1>4, Extends
<1>7. Len(Line(p)) = Len(json) + Len(end)
  BY <1>1, <1>3, Extends
<1> QED
  BY <1>2, <1>5, <1>6, <1>7

LEMMA GoodLine ==
    ASSUME NEW p \in Posts, p \notin Poison
    PROVE  Len(Line(p)) = 2 /\ Line(p)[1] = p /\ Line(p)[2] = SPLIT
<1> DEFINE json == <<p>>
           end == <<SPLIT>>
<1>1. json \in Seq(Mark) /\ end \in Seq(Mark)
  BY DEF Mark
<1>2. Len(json) = 1 /\ Len(end) = 1 /\ json[1] = p /\ end[1] = SPLIT
  OBVIOUS
<1>3. Line(p) = json \o end
  BY DEF Line, Json
<1> HIDE DEF json, end
<1>4. 1 \in 1..Len(json) /\ 1 \in 1..Len(end)
  BY <1>2
<1>5. Line(p)[Len(json) + 1] = end[1]
  BY <1>1, <1>3, <1>4, Extends
<1> QED
  BY <1>1, <1>2, <1>3, <1>4, <1>5, Extends

LEMMA LineHolds ==
    ASSUME NEW f \in Seq(Mark), NEW p \in Posts
    PROVE  Holds(f \o Line(p), p)
<1> DEFINE n == Len(f)
           g == f \o Line(p)
<1>0. n \in Nat
  OBVIOUS
<1>1. CASE p \in Poison
  <2>1. Len(Line(p)) = 4 /\ Line(p)[1] = HALF /\ Line(p)[2] = SPLIT
    BY <1>1, PoisonLine
  <2>2. 1 \in 1..Len(Line(p)) /\ 2 \in 1..Len(Line(p))
    BY <2>1
  <2>3. Len(g) = n + 4 /\ g[n + 1] = HALF /\ g[n + 2] = SPLIT
    <3>1. \A i \in 1..Len(Line(p)) : g[n + i] = Line(p)[i]
      BY LineType, Extends
    <3>2. Len(g) = n + Len(Line(p))
      BY LineType, Extends
    <3> HIDE DEF g, n
    <3> QED
      BY <2>1, <2>2, <3>1, <3>2
  <2> HIDE DEF g, n
  <2>4. n + 2 \in Ends(g)
    BY <1>0, <2>3 DEF Ends
  <2>5. g[(n + 2) - 1] \notin Posts
    BY <1>0, <2>3, FileAssumption
  <2>6. ~Readable(g)
    BY <2>4, <2>5 DEF Readable, IsEntry
  <2> QED
    BY <2>6 DEF Holds, g
<1>2. CASE p \notin Poison
  <2>1. Len(Line(p)) = 2 /\ Line(p)[1] = p /\ Line(p)[2] = SPLIT
    BY <1>2, GoodLine
  <2>2. 1 \in 1..Len(Line(p)) /\ 2 \in 1..Len(Line(p))
    BY <2>1
  <2>3. Len(g) = n + 2 /\ g[n + 1] = p /\ g[n + 2] = SPLIT
    <3>1. \A i \in 1..Len(Line(p)) : g[n + i] = Line(p)[i]
      BY LineType, Extends
    <3>2. Len(g) = n + Len(Line(p))
      BY LineType, Extends
    <3> HIDE DEF g, n
    <3> QED
      BY <2>1, <2>2, <3>1, <3>2
  <2> HIDE DEF g, n
  <2>4. n + 2 \in Ends(g)
    BY <1>0, <2>3 DEF Ends
  <2>5. (n + 2) - 1 = n + 1 /\ n + 2 > 1
    BY <1>0
  <2>6. p \in Listed(g)
    BY <2>3, <2>4, <2>5 DEF Listed
  <2> QED
    BY <2>6 DEF Holds, g
<1> QED
  BY <1>1, <1>2

-----------------------------------------------------------------------------
(* Types.                                                                  *)
LEMMA InitType == Init => TypeOK
<1> SUFFICES ASSUME Init PROVE TypeOK
  OBVIOUS
<1>1. <<>> \in Seq(Mark) /\ 0 \in 0..MaxFaults
  BY TasksAssumption
<1>2. file \in Seq(Mark) /\ data \in [Gets -> Seq(Mark)]
  BY <1>1 DEF Init
<1>3. /\ \A p \in Posts : answer[p] # "200"
      /\ \A g \in Gets : answer[g] # "201"
  BY DEF Init, Requests
<1> QED
  BY <1>1, <1>2, <1>3 DEF Init, TypeOK, Steps

LEMMA DownType ==
    ASSUME TypeOK, Down,
           UNCHANGED <<file, exists, data, listing, page, history>>,
           faults' \in 0..MaxFaults
    PROVE  TypeOK'
<1>1. /\ up' \in BOOLEAN
      /\ step' \in [Requests -> Steps]
      /\ answer' \in [Requests -> {"none", "200", "201", "401", "500", "lost"}]
  BY DEF TypeOK, Down, Steps
<1>2. /\ \A p \in Posts : answer'[p] # "200"
      /\ \A g \in Gets : answer'[g] # "201"
  BY DEF TypeOK, Down, Requests
<1> QED
  BY <1>1, <1>2 DEF TypeOK, history

LEMMA PostType ==
    ASSUME TypeOK, NEW p \in Posts, PostNext(p)
    PROVE  TypeOK'
<1>0. p \in Requests /\ p \notin Gets
  BY TasksAssumption DEF Requests
<1>1. CASE SendPost(p)
  BY <1>0, <1>1 DEF SendPost, Goes, TypeOK, Steps, history
<1>2. CASE Verified(p)
  BY <1>0, <1>2 DEF Verified, Goes, TypeOK, Steps, history
<1>3. CASE Refused(p)
  BY <1>0, <1>3 DEF Refused, Answers, Goes, TypeOK, Steps, history
<1>4. CASE AppendLine(p)
  <2>1. file' \in Seq(Mark)
    BY <1>4, LineType, Extends DEF AppendLine, TypeOK
  <2> QED
    BY <1>0, <1>4, <2>1 DEF AppendLine, Goes, TypeOK, Steps, history
<1>5. CASE AppendFails(p)
  <2>1. PICK s \in Torn(p) :
           /\ file' = file \o s
           /\ torn' = (torn \/ s # <<>>)
           /\ exists' \in {exists, TRUE}
    BY <1>5 DEF AppendFails
  <2>2. file' \in Seq(Mark)
    BY <2>1, TornType, Extends DEF TypeOK
  <2>3. torn' \in BOOLEAN /\ exists' \in BOOLEAN
    BY <2>1 DEF TypeOK
  <2>4. faults' \in 0..MaxFaults
    BY <1>5, TasksAssumption DEF AppendFails, Fault, TypeOK
  <2>5. step' \in [Requests -> Steps]
    BY <1>0, <1>5 DEF AppendFails, Goes, TypeOK, Steps
  <2> QED
    BY <1>5, <2>2, <2>3, <2>4, <2>5 DEF AppendFails, TypeOK
<1>6. CASE Stored(p)
  BY <1>0, <1>6 DEF Stored, Answers, Goes, TypeOK, Steps
<1>7. CASE NotStored(p)
  BY <1>0, <1>7 DEF NotStored, Answers, Goes, TypeOK, Steps, history
<1> QED
  BY <1>1, <1>2, <1>3, <1>4, <1>5, <1>6, <1>7 DEF PostNext

LEMMA GetType ==
    ASSUME TypeOK, NEW g \in Gets, GetNext(g)
    PROVE  TypeOK'
<1>0. g \in Requests /\ g \notin Posts
  BY TasksAssumption DEF Requests
<1>1. CASE Fetch(g)
  BY <1>0, <1>1 DEF Fetch, Goes, TypeOK, Steps
<1>2. CASE Verified(g)
  BY <1>0, <1>2 DEF Verified, Goes, TypeOK, Steps, history
<1>3. CASE Refused(g)
  BY <1>0, <1>3 DEF Refused, Answers, Goes, TypeOK, Steps, history
<1>4. CASE Read(g)
  BY <1>0, <1>4 DEF Read, Goes, TypeOK, Steps, history
<1>5. CASE ReadFails(g)
  <2>1. unread' \in SUBSET Gets /\ faults' \in 0..MaxFaults
    BY <1>5, TasksAssumption DEF ReadFails, Fault, TypeOK
  <2>2. /\ step' \in [Requests -> Steps]
        /\ answer' \in [Requests -> {"none", "200", "201", "401", "500", "lost"}]
        /\ \A p \in Posts : answer'[p] # "200"
        /\ \A h \in Gets : answer'[h] # "201"
    BY <1>0, <1>5 DEF ReadFails, Answers, Goes, TypeOK, Steps
  <2> QED
    BY <1>5, <2>1, <2>2 DEF ReadFails, TypeOK
<1>6. CASE Loaded(g)
  <2>1. data' \in [Gets -> Seq(Mark)]
    <3>1. <<>> \in Seq(Mark)
      OBVIOUS
    <3> QED
      BY <1>6, <3>1 DEF Loaded, TypeOK
  <2>2. listing' \in [Gets -> SUBSET Posts]
    <3>1. Listed(data[g]) \in SUBSET Posts
      BY DEF Listed
    <3> QED
      BY <1>6, <3>1 DEF Loaded, TypeOK
  <2> QED
    BY <1>0, <1>6, <2>1, <2>2 DEF Loaded, Answers, Goes, TypeOK, Steps, history
<1>7. CASE ParseThrows(g)
  BY <1>7, DownType DEF ParseThrows, TypeOK
<1>8. CASE Show(g)
  <2>1. page' \in [tasks : SUBSET Posts, broken : BOOLEAN]
    <3>1. listing[g] \in SUBSET Posts /\ page \in [tasks : SUBSET Posts, broken : BOOLEAN]
      BY DEF TypeOK
    <3>2. \/ page' = page
          \/ page' = [page EXCEPT !.tasks = listing[g]]
          \/ page' = [page EXCEPT !.broken = TRUE]
      BY <1>8 DEF Show
    <3> QED
      BY <3>1, <3>2
  <2> QED
    BY <1>0, <1>8, <2>1 DEF Show, Goes, TypeOK, Steps, history
<1> QED
  BY <1>1, <1>2, <1>3, <1>4, <1>5, <1>6, <1>7, <1>8 DEF GetNext

LEMMA NextType ==
    ASSUME TypeOK, [Next]_vars
    PROVE  TypeOK'
<1>1. CASE \E p \in Posts : PostNext(p)
  BY <1>1, PostType
<1>2. CASE \E g \in Gets : GetNext(g)
  BY <1>2, GetType
<1>3. CASE Kill
  <2>1. faults' \in 0..MaxFaults
    BY <1>3, TasksAssumption DEF Kill, Fault, TypeOK
  <2> QED
    BY <1>3, <2>1, DownType DEF Kill
<1>4. CASE Restart
  <2>1. <<>> \in Seq(Mark)
    OBVIOUS
  <2> QED
    BY <1>4, <2>1 DEF Restart, TypeOK
<1>5. CASE UNCHANGED vars
  BY <1>5 DEF vars, TypeOK, history
<1> QED
  BY <1>1, <1>2, <1>3, <1>4, <1>5 DEF Next

(* Every variable keeps its type; in particular a POST never gets the      *)
(* status of a GET, nor a GET that of a POST, whatever the process does.   *)
THEOREM TypeCorrect == Spec => []TypeOK
<1>1. TypeOK /\ [Next]_vars => TypeOK'
  BY NextType
<1> QED
  BY <1>1, InitType, PTL DEF Spec

-----------------------------------------------------------------------------
(* What a step does to the file.                                           *)
NewContainer == ~up /\ up' /\ ~Durable /\ file' = <<>>

FileStep ==
    \/ file' = file
    \/ \E s \in Seq(Mark) : file' = file \o s
    \/ NewContainer

LEMMA FileSteps ==
    ASSUME TypeOK, [Next]_vars
    PROVE  FileStep
<1>1. ASSUME NEW p \in Posts, PostNext(p)
      PROVE  FileStep
  <2>1. CASE AppendLine(p)
    BY <2>1, LineType DEF AppendLine, FileStep
  <2>2. CASE AppendFails(p)
    <3>1. PICK s \in Torn(p) : file' = file \o s
      BY <2>2 DEF AppendFails
    <3> QED
      BY <3>1, TornType DEF FileStep
  <2>3. CASE SendPost(p) \/ Verified(p) \/ Refused(p) \/ Stored(p) \/ NotStored(p)
    BY <2>3 DEF SendPost, Verified, Refused, Stored, NotStored, FileStep
  <2> QED
    BY <1>1, <2>1, <2>2, <2>3 DEF PostNext
<1>2. ASSUME NEW g \in Gets, GetNext(g)
      PROVE  FileStep
  BY <1>2 DEF GetNext, Fetch, Verified, Refused, Read, ReadFails, Loaded,
              ParseThrows, Show, FileStep
<1>3. CASE Kill
  BY <1>3 DEF Kill, FileStep
<1>4. CASE Restart
  BY <1>4 DEF Restart, FileStep, NewContainer
<1>5. CASE UNCHANGED vars
  BY <1>5 DEF vars, FileStep
<1> QED
  BY <1>1, <1>2, <1>3, <1>4, <1>5 DEF Next

(* Nothing but a new container heals a file that cannot be read: until     *)
(* then every GET that reads it ends the process.                          *)
THEOREM NothingHeals == Spec => SpoiledForever
<1> DEFINE A == ~Readable(file) =>
                   ~Readable(file') \/ (~up /\ up' /\ ~Durable)
<1>1. TypeOK /\ [Next]_vars => [A]_vars
  <2> SUFFICES ASSUME TypeOK, [Next]_vars PROVE A
    OBVIOUS
  <2>1. file \in Seq(Mark)
    BY DEF TypeOK
  <2> QED
    BY <2>1, FileSteps, SpoiledStays DEF FileStep, NewContainer
<1> QED
  BY <1>1, TypeCorrect, PTL DEF Spec, SpoiledForever

-----------------------------------------------------------------------------
(* StoredIsListed is not inductive: it says nothing of the tasks on their  *)
(* way into the file and of the lists on their way out of it.              *)
Resting == {"new", "done", "shown"}

DownHoldsNone == ~up => \A r \in Requests : step[r] \in Resting
NoAnswerYet ==
    \A r \in Requests : step[r] \notin {"done", "shown"} => answer[r] = "none"
WrittenHeld == \A p \in Posts : step[p] = "written" => Holds(file, p)
KeptHeld == \A p \in kept : Holds(file, p)
KnownKept ==
    \A g \in Gets : step[g] \in {"verify", "io"} => known[g] \subseteq kept
ReadHeld ==
    \A g \in Gets : step[g] = "read" => \A p \in known[g] : Holds(data[g], p)

KeptInv ==
    /\ DownHoldsNone
    /\ NoAnswerYet
    /\ WrittenHeld
    /\ KeptHeld
    /\ KnownKept
    /\ ReadHeld
    /\ StoredIsListed

LEMMA HoldsSame ==
    ASSUME TypeOK, [Next]_vars, ~NewContainer, NEW p \in Posts, Holds(file, p)
    PROVE  Holds(file', p)
<1>1. file \in Seq(Mark)
  BY DEF TypeOK
<1> QED
  BY <1>1, FileSteps, HoldsStays DEF FileStep

(* A step of a running process changes only one request, and neither lets  *)
(* go of a stored task nor rewrites an answered list.                      *)
LEMMA PostKeeps ==
    ASSUME TypeOK, KeptInv, NEW p \in Posts, PostNext(p)
    PROVE  KeptInv'
<1>0. /\ p \in Requests /\ p \notin Gets
      /\ step \in [Requests -> Steps] /\ Posts \subseteq Requests
      /\ Gets \subseteq Requests /\ Gets \cap Posts = {}
      /\ answer \in [Requests -> {"none", "200", "201", "401", "500", "lost"}]
  BY TasksAssumption DEF Requests, TypeOK
<1>1. ASSUME NEW q \in Posts, Holds(file, q)
      PROVE  Holds(file', q)
  <2>1. [Next]_vars
    BY DEF Next
  <2>2. up' = up
    BY DEF PostNext, SendPost, Verified, Refused, AppendLine, AppendFails,
           Stored, NotStored
  <2> QED
    BY <1>1, <2>1, <2>2, HoldsSame DEF NewContainer
<1>2. /\ \A r \in Requests \ {p} : step'[r] = step[r] /\ answer'[r] = answer[r]
      /\ step[p] \notin Resting \/ up
      /\ step[p] \notin {"done", "shown"}
      /\ step'[p] \notin {"done", "shown"} => answer'[p] = answer[p]
      /\ UNCHANGED <<up, known, data, listing>>
  <2>1. \/ \E to : Goes(p, "new", to) /\ up /\ UNCHANGED answer /\ to = "verify"
        \/ \E from, to : /\ Goes(p, from, to) /\ UNCHANGED answer
                         /\ from \in {"verify", "io"}
                         /\ to \in {"io", "written", "failed"}
        \/ \E from, status : /\ Answers(p, from, status)
                             /\ from \in {"verify", "written", "failed"}
    BY DEF PostNext, SendPost, Verified, Refused, AppendLine, AppendFails,
           Stored, NotStored, Answers
  <2>2. UNCHANGED <<up, known, data, listing>>
    BY DEF PostNext, SendPost, Verified, Refused, AppendLine, AppendFails,
           Stored, NotStored, history
  <2> QED
    BY <1>0, <2>1, <2>2 DEF Goes, Answers, Resting
<1>3. DownHoldsNone' /\ NoAnswerYet'
  BY <1>0, <1>2 DEF KeptInv, DownHoldsNone, NoAnswerYet, Resting
<1>4. kept' = kept \/ (step[p] = "written" /\ kept' = kept \cup {p})
  BY DEF PostNext, SendPost, Verified, Refused, AppendLine, AppendFails,
         Stored, NotStored, Answers, Goes, history
<1>5. KeptHeld'
  <2>1. \A q \in kept' : Holds(file, q) /\ q \in Posts
    BY <1>4 DEF KeptInv, KeptHeld, WrittenHeld, TypeOK
  <2> QED
    BY <1>1, <2>1 DEF KeptHeld
<1>6. WrittenHeld'
  <2>1. step'[p] = "written" => Holds(file', p)
    <3>1. CASE AppendLine(p)
      BY <3>1, LineHolds DEF AppendLine, TypeOK
    <3>2. CASE ~AppendLine(p)
      BY <1>0, <3>2 DEF PostNext, SendPost, Verified, Refused, AppendFails,
                        Stored, NotStored, Answers, Goes
    <3> QED
      BY <3>1, <3>2
  <2>2. ASSUME NEW q \in Posts, q # p, step'[q] = "written"
        PROVE  Holds(file', q)
    <3>1. Holds(file, q)
      BY <1>0, <1>2, <2>2 DEF KeptInv, WrittenHeld
    <3> QED
      BY <1>1, <3>1
  <2> QED
    BY <2>1, <2>2 DEF WrittenHeld
<1>7. \A g \in Gets : step'[g] = step[g] /\ answer'[g] = answer[g]
  BY <1>0, <1>2
<1>8. KnownKept' /\ ReadHeld' /\ StoredIsListed'
  BY <1>2, <1>4, <1>7 DEF KeptInv, KnownKept, ReadHeld, StoredIsListed
<1> QED
  BY <1>3, <1>5, <1>6, <1>8 DEF KeptInv

LEMMA DownKeeps ==
    ASSUME TypeOK, KeptInv, Down,
           UNCHANGED <<file, data, listing, kept, known>>
    PROVE  KeptInv'
<1>0. /\ step \in [Requests -> Steps] /\ Posts \subseteq Requests
      /\ Gets \subseteq Requests
  BY DEF Requests, TypeOK
<1>1. \A r \in Requests :
         \/ step[r] \in Resting /\ step'[r] = step[r] /\ answer'[r] = answer[r]
         \/ step'[r] = "done" /\ answer'[r] = "lost"
  BY DEF Down, Resting
<1>2. DownHoldsNone' /\ NoAnswerYet'
  BY <1>1 DEF KeptInv, DownHoldsNone, NoAnswerYet, Resting
<1>3. WrittenHeld' /\ KnownKept' /\ ReadHeld'
  BY <1>0, <1>1 DEF WrittenHeld, KnownKept, ReadHeld, Resting
<1>4. KeptHeld'
  BY DEF KeptInv, KeptHeld
<1>5. StoredIsListed'
  BY <1>0, <1>1 DEF KeptInv, StoredIsListed
<1> QED
  BY <1>2, <1>3, <1>4, <1>5 DEF KeptInv

LEMMA GetKeeps ==
    ASSUME TypeOK, KeptInv, NEW g \in Gets, GetNext(g)
    PROVE  KeptInv'
<1>0. /\ g \in Requests /\ g \notin Posts
      /\ step \in [Requests -> Steps] /\ Posts \subseteq Requests
      /\ Gets \subseteq Requests /\ Gets \cap Posts = {}
      /\ answer \in [Requests -> {"none", "200", "201", "401", "500", "lost"}]
      /\ known \in [Gets -> SUBSET Posts] /\ kept \in SUBSET Posts
      /\ data \in [Gets -> Seq(Mark)]
      /\ listing \in [Gets -> SUBSET Posts]
  BY TasksAssumption DEF Requests, TypeOK
<1>1. CASE ParseThrows(g)
  BY <1>1, DownKeeps DEF ParseThrows, history
<1>2. CASE ~ParseThrows(g)
  <2>1. UNCHANGED <<up, file, kept>>
    BY <1>2 DEF GetNext, Fetch, Verified, Refused, Read, ReadFails, Loaded,
                Show, history
  <2>2. /\ \A r \in Requests \ {g} : step'[r] = step[r] /\ answer'[r] = answer[r]
        /\ \A h \in Gets \ {g} : /\ known'[h] = known[h] /\ data'[h] = data[h]
                                 /\ listing'[h] = listing[h]
    <3>1. CASE Fetch(g)
      BY <1>0, <3>1 DEF Fetch, Goes
    <3>2. CASE Verified(g) \/ Refused(g) \/ ReadFails(g) \/ Show(g)
      BY <1>0, <3>2 DEF Verified, Refused, ReadFails, Show, Answers, Goes, history
    <3>3. CASE Read(g)
      BY <1>0, <3>3 DEF Read, Goes, history
    <3>4. CASE Loaded(g)
      BY <1>0, <3>4 DEF Loaded, Answers, Goes, history
    <3> QED
      BY <1>2, <3>1, <3>2, <3>3, <3>4 DEF GetNext
  <2>3. KeptHeld' /\ WrittenHeld'
    BY <1>0, <2>1, <2>2 DEF KeptInv, KeptHeld, WrittenHeld
  <2> DEFINE Own == /\ ~up => step'[g] \in Resting
                    /\ step'[g] \notin {"done", "shown"} => answer'[g] = "none"
                    /\ step'[g] \in {"verify", "io"} => known'[g] \subseteq kept
                    /\ step'[g] = "read" => \A p \in known'[g] : Holds(data'[g], p)
                    /\ answer'[g] = "200" => known'[g] \subseteq listing'[g]
  <2>4. /\ ~up => step[g] \in Resting
        /\ step[g] \notin {"done", "shown"} => answer[g] = "none"
        /\ step[g] \in {"verify", "io"} => known[g] \subseteq kept
        /\ step[g] = "read" => \A p \in known[g] : Holds(data[g], p)
        /\ answer[g] = "200" => known[g] \subseteq listing[g]
    BY <1>0 DEF KeptInv, DownHoldsNone, NoAnswerYet, KnownKept, ReadHeld,
                StoredIsListed
  <2>5. ASSUME Fetch(g)
        PROVE  Own
    BY <1>0, <2>4, <2>5 DEF Fetch, Goes, Resting
  <2>6. ASSUME Verified(g)
        PROVE  Own
    BY <1>0, <2>4, <2>6 DEF Verified, Goes, Resting, history
  <2>7. ASSUME Refused(g) \/ ReadFails(g)
        PROVE  Own
    BY <1>0, <2>4, <2>7 DEF Refused, ReadFails, Answers, Goes, Resting, history
  <2>8. ASSUME Read(g)
        PROVE  Own
    BY <1>0, <2>4, <2>8 DEF Read, Goes, Resting, history, KeptInv, KeptHeld
  <2>9. ASSUME Loaded(g)
        PROVE  Own
    BY <1>0, <2>4, <2>9 DEF Loaded, Answers, Goes, Resting, history, Holds
  <2>10. ASSUME Show(g)
        PROVE  Own
    BY <1>0, <2>4, <2>10 DEF Show, Goes, Resting, history
  <2>11. Own
    BY <1>2, <2>5, <2>6, <2>7, <2>8, <2>9, <2>10 DEF GetNext
  <2>12. DownHoldsNone' /\ NoAnswerYet'
    BY <1>0, <2>1, <2>2, <2>11 DEF KeptInv, DownHoldsNone, NoAnswerYet
  <2>13. KnownKept' /\ ReadHeld' /\ StoredIsListed'
    BY <1>0, <2>1, <2>2, <2>11 DEF KeptInv, KnownKept, ReadHeld, StoredIsListed
  <2> QED
    BY <2>3, <2>12, <2>13 DEF KeptInv
<1> QED
  BY <1>1, <1>2

LEMMA KeptAlways == Spec => []KeptInv
<1>1. Init => KeptInv
  <2> SUFFICES ASSUME Init PROVE KeptInv
    OBVIOUS
  <2>1. DownHoldsNone /\ NoAnswerYet
    BY DEF Init, DownHoldsNone, NoAnswerYet
  <2>2. WrittenHeld /\ KeptHeld /\ KnownKept /\ ReadHeld /\ StoredIsListed
    BY DEF Init, WrittenHeld, KeptHeld, KnownKept, ReadHeld, StoredIsListed,
           Requests
  <2> QED
    BY <2>1, <2>2 DEF KeptInv
<1>2. ASSUME TypeOK, KeptInv, [Next]_vars
      PROVE  KeptInv'
  <2>1. CASE \E p \in Posts : PostNext(p)
    BY <1>2, <2>1, PostKeeps
  <2>2. CASE \E g \in Gets : GetNext(g)
    BY <1>2, <2>2, GetKeeps
  <2>3. CASE Kill
    BY <1>2, <2>3, DownKeeps DEF Kill, history
  <2>4. CASE Restart
    <3>1. UNCHANGED <<step, answer, data, listing, known>>
      BY <2>4 DEF Restart
    <3>2. (UNCHANGED <<file, kept>>) \/ kept' = {}
      BY <2>4 DEF Restart
    <3>3. \A r \in Requests : step[r] \in Resting
      BY <1>2, <2>4 DEF Restart, KeptInv, DownHoldsNone
    <3>4. DownHoldsNone' /\ NoAnswerYet'
      BY <1>2, <3>1, <3>3 DEF KeptInv, DownHoldsNone, NoAnswerYet
    <3>5. WrittenHeld' /\ KnownKept' /\ ReadHeld'
      BY <3>1, <3>3 DEF WrittenHeld, KnownKept, ReadHeld, Resting, Requests
    <3>6. KeptHeld'
      BY <1>2, <3>2 DEF KeptInv, KeptHeld
    <3>7. StoredIsListed'
      BY <1>2, <3>1 DEF KeptInv, StoredIsListed
    <3> QED
      BY <3>4, <3>5, <3>6, <3>7 DEF KeptInv
  <2>5. CASE UNCHANGED vars
    BY <1>2, <2>5 DEF vars, KeptInv, DownHoldsNone, NoAnswerYet, WrittenHeld,
                      KeptHeld, KnownKept, ReadHeld, StoredIsListed
  <2> QED
    BY <1>2, <2>1, <2>2, <2>3, <2>4, <2>5 DEF Next
<1> QED
  BY <1>1, <1>2, TypeCorrect, PTL DEF Spec

(* No update is lost: a list the page is given has every task that was     *)
(* answered with 201 before the page asked for it, for any number of       *)
(* overlapping requests, failed writes, crashes and restarts, with or      *)
(* without a volume.                                                       *)
THEOREM StoredAlwaysListed == Spec => []StoredIsListed
<1>1. KeptInv => StoredIsListed
  BY DEF KeptInv
<1> QED
  BY <1>1, KeptAlways, PTL

-----------------------------------------------------------------------------
(* How a request moves in a step, its own or another's.                    *)
Same(r) == step'[r] = step[r] /\ answer'[r] = answer[r]
Lost(r) == step[r] \notin Resting /\ step'[r] = "done" /\ answer'[r] = "lost"
On(r, from, to) ==
    step[r] = from /\ step'[r] = to /\ answer'[r] = answer[r]
Done(r, from, status) ==
    step[r] = from /\ step'[r] = "done" /\ answer'[r] = status

PostMoves(p) ==
    \/ Same(p) \/ Lost(p)
    \/ On(p, "new", "verify") \/ On(p, "verify", "io")
    \/ On(p, "io", "written") \/ On(p, "io", "failed")
    \/ Done(p, "verify", "401") \/ Done(p, "written", "201")
    \/ Done(p, "failed", "500")

GetMoves(g) ==
    \/ Same(g) \/ Lost(g)
    \/ On(g, "new", "verify") \/ On(g, "verify", "io") \/ On(g, "io", "read")
    \/ Done(g, "verify", "401") \/ Done(g, "io", "500") \/ Done(g, "read", "200")
    \/ On(g, "done", "shown")

LEMMA Moves ==
    ASSUME TypeOK, [Next]_vars
    PROVE  (\A p \in Posts : PostMoves(p)) /\ (\A g \in Gets : GetMoves(g))
<1>0. /\ step \in [Requests -> Steps] /\ Posts \cap Gets = {}
      /\ answer \in [Requests -> {"none", "200", "201", "401", "500", "lost"}]
      /\ Posts \subseteq Requests /\ Gets \subseteq Requests
  BY TasksAssumption DEF Requests, TypeOK
<1> USE DEF PostMoves, GetMoves, Same, Lost, On, Done
<1>1. ASSUME NEW p \in Posts, PostNext(p)
      PROVE  PostMoves(p) /\ \A r \in Requests \ {p} : Same(r)
  BY <1>0, <1>1 DEF PostNext, SendPost, Verified, Refused, AppendLine,
     AppendFails, Stored, NotStored, Answers, Goes
<1>2. ASSUME Down
      PROVE  \A r \in Requests : Same(r) \/ Lost(r)
  BY <1>2 DEF Down, Resting
<1>3. ASSUME NEW g \in Gets, GetNext(g), ~ParseThrows(g)
      PROVE  GetMoves(g) /\ \A r \in Requests \ {g} : Same(r)
  BY <1>0, <1>3 DEF GetNext, Fetch, Verified, Refused, Read, ReadFails, Loaded,
     Show, Answers, Goes
<1>4. ASSUME UNCHANGED <<step, answer>>
      PROVE  \A r \in Requests : Same(r)
  BY <1>4
<1>5. CASE \E p \in Posts : PostNext(p)
  BY <1>0, <1>1, <1>5
<1>6. CASE \E g \in Gets : GetNext(g) /\ ~ParseThrows(g)
  BY <1>0, <1>3, <1>6
<1>7. CASE Kill \/ \E g \in Gets : ParseThrows(g)
  BY <1>0, <1>2, <1>7 DEF Kill, ParseThrows
<1>8. CASE Restart \/ UNCHANGED vars
  BY <1>0, <1>4, <1>8 DEF Restart, vars
<1> QED
  BY <1>5, <1>6, <1>7, <1>8 DEF Next

-----------------------------------------------------------------------------
(* The page breaks early only: a file that is not there has no task, and   *)
(* no request that is on its way knows of one.                             *)
EarlyInv ==
    /\ ~exists => kept = {}
    /\ \A p \in Posts : step[p] = "written" => exists
    /\ \A g \in Gets : answer[g] = "500" => g \in unread \/ known[g] = {}
    /\ \A g \in Gets : step[g] \in {"done", "shown"} => answer[g] # "none"
    /\ BreaksOnlyEarly

LEMMA EarlyKeeps ==
    ASSUME TypeOK, KeptInv, EarlyInv, [Next]_vars
    PROVE  EarlyInv'
<1>0. /\ step \in [Requests -> Steps] /\ Posts \cap Gets = {}
      /\ answer \in [Requests -> {"none", "200", "201", "401", "500", "lost"}]
      /\ Posts \subseteq Requests /\ Gets \subseteq Requests
      /\ known \in [Gets -> SUBSET Posts]
      /\ \A g \in Gets : answer[g] # "201"
  BY TasksAssumption DEF Requests, TypeOK
<1>1. /\ exists => exists' \/ Restart
      /\ kept' = kept \/ kept' = {} \/ \E p \in Posts : Stored(p)
      /\ Restart => exists' = exists \/ kept' = {}
      /\ (\E p \in Posts : Stored(p)) => exists' = exists
  BY DEF Next, PostNext, GetNext, SendPost, Verified, Refused, AppendLine,
     AppendFails, Stored, NotStored, Fetch, Read, ReadFails, Loaded,
     ParseThrows, Show, Kill, Restart, vars, history, TypeOK
<1>2. ~exists' => kept' = {}
  BY <1>0, <1>1 DEF EarlyInv, Stored, Answers, Goes, Restart
<1>3. ASSUME NEW p \in Posts, step'[p] = "written"
      PROVE  exists'
  <2>1. CASE step[p] = "written"
    <3>1. exists /\ ~Restart
      BY <1>0, <2>1 DEF EarlyInv, Restart, KeptInv, DownHoldsNone, Resting
    <3> QED
      BY <1>1, <3>1
  <2>2. CASE step[p] # "written"
    <3>1. \E q \in Posts : AppendLine(q)
      <4>1. CASE \E q \in Posts : PostNext(q)
        BY <1>0, <1>3, <2>2, <4>1 DEF PostNext, SendPost, Verified, Refused,
           AppendFails, Stored, NotStored, Answers, Goes
      <4>2. CASE \E g \in Gets : GetNext(g)
        BY <1>0, <1>3, <2>2, <4>2 DEF GetNext, Fetch, Verified, Refused, Read,
           ReadFails, Loaded, ParseThrows, Show, Down, Answers, Goes
      <4>3. CASE Kill \/ Restart \/ UNCHANGED vars
        BY <1>0, <1>3, <2>2, <4>3 DEF Kill, Down, Restart, vars
      <4> QED
        BY <4>1, <4>2, <4>3 DEF Next
    <3> QED
      BY <3>1 DEF AppendLine
  <2> QED
    BY <2>1, <2>2
<1>4. ASSUME NEW g \in Gets, known'[g] # known[g]
      PROVE  step[g] = "new" /\ answer'[g] = "none"
  <2>1. PICK h \in Gets : Fetch(h)
    BY <1>4 DEF Next, PostNext, GetNext, SendPost, Verified, Refused,
       AppendLine, AppendFails, Stored, NotStored, Read, ReadFails, Loaded,
       ParseThrows, Show, Kill, Restart, vars, history
  <2>2. h = g
    BY <1>0, <1>4, <2>1 DEF Fetch
  <2> QED
    BY <1>0, <2>1, <2>2 DEF Fetch, Goes, KeptInv, NoAnswerYet
<1>u. unread \subseteq unread'
  BY DEF Next, PostNext, GetNext, SendPost, Verified, Refused, AppendLine,
     AppendFails, Stored, NotStored, Fetch, Read, ReadFails, Loaded,
     ParseThrows, Show, Kill, Restart, vars, history
<1>5. ASSUME NEW g \in Gets, answer'[g] = "500"
      PROVE  g \in unread' \/ known'[g] = {}
  <2>1. known'[g] = known[g]
    BY <1>4, <1>5
  <2>2. CASE answer[g] = "500"
    BY <1>u, <2>1, <2>2 DEF EarlyInv
  <2>3. CASE answer[g] # "500"
    <3>1. Done(g, "io", "500")
      BY <1>5, <2>3, Moves DEF GetMoves, Same, Lost, On, Done
    <3>2. ReadFails(g)
      <4>1. CASE \E q \in Posts : PostNext(q)
        BY <1>0, <3>1, <4>1 DEF Done, PostNext, SendPost, Verified, Refused,
           AppendLine, AppendFails, Stored, NotStored, Answers, Goes
      <4>2. CASE \E h \in Gets : GetNext(h)
        BY <1>0, <3>1, <4>2 DEF Done, GetNext, Fetch, Verified, Refused, Read,
           ReadFails, Loaded, ParseThrows, Show, Down, Answers, Goes
      <4>3. CASE Kill \/ Restart \/ UNCHANGED vars
        BY <1>0, <3>1, <4>3 DEF Done, Kill, Down, Restart, vars
      <4> QED
        BY <4>1, <4>2, <4>3 DEF Next
    <3>3. CASE ~exists
      <4>1. known[g] \subseteq kept /\ kept = {}
        BY <3>1, <3>3 DEF Done, EarlyInv, KeptInv, KnownKept
      <4> QED
        BY <2>1, <4>1
    <3>4. CASE exists
      BY <3>2, <3>4 DEF ReadFails
    <3> QED
      BY <3>3, <3>4
  <2> QED
    BY <2>2, <2>3
<1>6. \A g \in Gets : step'[g] \in {"done", "shown"} => answer'[g] # "none"
  BY Moves DEF GetMoves, Same, Lost, On, Done, EarlyInv
<1>7. BreaksOnlyEarly'
  <2> SUFFICES ASSUME page'.broken
               PROVE  \E g \in Gets :
                        /\ step'[g] = "shown"
                        /\ \/ answer'[g] = "401"
                           \/ /\ answer'[g] = "500"
                              /\ g \in unread' \/ known'[g] = {}
    BY DEF BreaksOnlyEarly
  <2>1. CASE page.broken
    <3>1. PICK g \in Gets : step[g] = "shown" /\ answer[g] \in {"401", "500"}
      BY <2>1 DEF EarlyInv, BreaksOnlyEarly
    <3>2. Same(g)
      BY <3>1, Moves DEF GetMoves, Lost, On, Done, Resting
    <3> QED
      BY <1>5, <3>1, <3>2 DEF Same
  <2>2. CASE ~page.broken
    <3>1. PICK g \in Gets : Show(g)
      BY <2>2 DEF Next, PostNext, GetNext, SendPost, Verified, Refused,
         AppendLine, AppendFails, Stored, NotStored, Fetch, Read, ReadFails,
         Loaded, ParseThrows, Kill, Restart, vars
    <3>2. answer[g] # "lost" /\ answer[g] # "200"
      <4>1. page \in [tasks : SUBSET Posts, broken : BOOLEAN]
        BY DEF TypeOK
      <4> QED
        BY <2>2, <3>1, <4>1 DEF Show
    <3>3. answer[g] # "none" /\ answer[g] # "201" /\ answer[g] \in {"401", "500"}
      BY <1>0, <3>1, <3>2 DEF Show, Goes, EarlyInv
    <3>4. step'[g] = "shown" /\ answer'[g] = answer[g]
      BY <1>0, <3>1 DEF Show, Goes
    <3> QED
      BY <1>5, <3>3, <3>4
  <2> QED
    BY <2>1, <2>2
<1> QED
  BY <1>2, <1>3, <1>5, <1>6, <1>7 DEF EarlyInv

(* The page breaks only over a fetch that auth-api refused, one whose read *)
(* failed although there is a file, or one sent when no task was stored:   *)
(* never over a lost answer, nor because a file that holds a stored task   *)
(* seems not to be there, whatever requests overlap.                       *)
THEOREM BreaksEarly == Spec => []BreaksOnlyEarly
<1>1. Init => EarlyInv
  BY DEF Init, EarlyInv, BreaksOnlyEarly, Requests
<1>2. EarlyInv => BreaksOnlyEarly
  BY DEF EarlyInv
<1> QED
  BY <1>1, <1>2, EarlyKeeps, TypeCorrect, KeptAlways, PTL DEF Spec

-----------------------------------------------------------------------------
(* What a step does to a fetch: its own, or one that loses it or leaves it *)
(* alone.                                                                  *)
Idle(g) ==
    /\ Same(g) \/ Lost(g)
    /\ data'[g] = data[g] /\ listing'[g] = listing[g] /\ had'[g] = had[g]

LEMMA GetSteps ==
    ASSUME TypeOK, [Next]_vars, NEW g \in Gets
    PROVE  Idle(g) \/ (GetNext(g) /\ ~ParseThrows(g))
<1>0. /\ step \in [Requests -> Steps] /\ Posts \cap Gets = {}
      /\ answer \in [Requests -> {"none", "200", "201", "401", "500", "lost"}]
      /\ Posts \subseteq Requests /\ Gets \subseteq Requests
      /\ had \in [Gets -> SUBSET Posts]
      /\ data \in [Gets -> Seq(Mark)]
      /\ listing \in [Gets -> SUBSET Posts]
  BY TasksAssumption DEF Requests, TypeOK
<1> USE DEF Idle, Same, Lost
<1>1. CASE \E p \in Posts : PostNext(p)
  <2>1. PICK p \in Posts : PostNext(p)
    BY <1>1
  <2>2. p # g /\ p \in Requests
    BY <1>0
  <2>3. Same(g)
    BY <1>0, <2>1, <2>2 DEF PostNext, SendPost, Verified, Refused, AppendLine,
       AppendFails, Stored, NotStored, Answers, Goes
  <2>4. UNCHANGED <<data, listing, had>>
    BY <2>1 DEF PostNext, SendPost, Verified, Refused, AppendLine,
       AppendFails, Stored, NotStored, history
  <2> QED
    BY <2>3, <2>4
<1>2. CASE \E h \in Gets : GetNext(h) /\ ~ParseThrows(h)
  <2>1. PICK h \in Gets : GetNext(h) /\ ~ParseThrows(h)
    BY <1>2
  <2>2. CASE h # g
    BY <1>0, <2>1, <2>2 DEF GetNext, Fetch, Verified, Refused, Read,
       ReadFails, Loaded, Show, Answers, Goes, history
  <2> QED
    BY <2>1, <2>2
<1>3. CASE Kill \/ \E h \in Gets : ParseThrows(h)
  BY <1>0, <1>3 DEF Kill, ParseThrows, Down, Resting, history
<1>4. CASE Restart \/ UNCHANGED vars
  BY <1>4 DEF Restart, vars, history
<1> QED
  BY <1>1, <1>2, <1>3, <1>4 DEF Next

(* FetchKeepsShown is not inductive: a list is compared with what the page *)
(* showed, so what the page shows, what was answered and what was read must*)
(* all still be in the file.                                               *)
Held(ps, f) == \A p \in ps : Holds(f, p)

ShownBy(g) ==
    /\ answer[g] = "200" => had[g] \subseteq listing[g] /\ Held(listing[g], file)
    /\ step[g] \in {"verify", "io"} => Held(had[g], file)
    /\ step[g] = "read" => /\ Held(had[g], data[g])
                           /\ \A p \in Posts : Holds(data[g], p) => Holds(file, p)

ShownInv == Held(page.tasks, file) /\ \A g \in Gets : ShownBy(g)

LEMMA ShownKeeps ==
    ASSUME TypeOK, KeptInv, Durable, ShownInv, [Next]_vars
    PROVE  ShownInv'
<1>0. /\ step \in [Requests -> Steps] /\ Gets \subseteq Requests
      /\ answer \in [Requests -> {"none", "200", "201", "401", "500", "lost"}]
      /\ page \in [tasks : SUBSET Posts, broken : BOOLEAN]
      /\ had \in [Gets -> SUBSET Posts]
      /\ data \in [Gets -> Seq(Mark)]
      /\ listing \in [Gets -> SUBSET Posts]
  BY DEF Requests, TypeOK
<1>1. \A p \in Posts : Holds(file, p) => Holds(file', p)
  BY HoldsSame DEF NewContainer
<1>2. page'.tasks = page.tasks
      \/ \E g \in Gets : answer[g] = "200" /\ page'.tasks = listing[g]
  <2>1. CASE \E g \in Gets : Show(g)
    BY <1>0, <2>1 DEF Show
  <2>2. CASE ~\E g \in Gets : Show(g)
    BY <2>2 DEF Next, PostNext, GetNext, SendPost, Verified, Refused,
       AppendLine, AppendFails, Stored, NotStored, Fetch, Read, ReadFails,
       Loaded, ParseThrows, Kill, Restart, vars
  <2> QED
    BY <2>1, <2>2
<1>3. Held(page.tasks, file') /\ \A g \in Gets : answer[g] = "200" =>
                                                    Held(listing[g], file')
  BY <1>0, <1>1 DEF ShownInv, ShownBy, Held
<1>4. Held(page.tasks, file)'
  BY <1>2, <1>3 DEF Held
<1>5. ASSUME NEW g \in Gets
      PROVE  ShownBy(g)'
  <2>0. ShownBy(g) /\ g \in Requests
    BY <1>0 DEF ShownInv
  <2>1. CASE Idle(g)
    BY <1>0, <1>1, <2>0, <2>1 DEF Idle, Same, Lost, ShownBy, Held
  <2>2. ASSUME GetNext(g), ~ParseThrows(g)
        PROVE  ShownBy(g)'
    <3>1. CASE Fetch(g)
      BY <1>0, <2>0, <3>1 DEF Fetch, Goes, ShownBy, ShownInv, Held, KeptInv,
         NoAnswerYet
    <3>2. CASE Verified(g) \/ Refused(g) \/ ReadFails(g) \/ Show(g)
      BY <1>0, <2>0, <3>2 DEF Verified, Refused, ReadFails, Show, Answers,
         Goes, history, ShownBy
    <3>3. CASE Read(g)
      BY <1>0, <2>0, <3>3 DEF Read, Goes, history, ShownBy, Held, KeptInv,
         NoAnswerYet
    <3>4. CASE Loaded(g)
      <4>1. /\ listing'[g] = Listed(data[g]) /\ Readable(data[g])
            /\ had' = had /\ file' = file /\ step'[g] = "done"
        BY <1>0, <2>0, <3>4 DEF Loaded, Answers, Goes, history
      <4>2. had[g] \subseteq listing'[g]
        BY <2>0, <3>4, <4>1 DEF ShownBy, Held, Holds, Loaded, Answers, Goes
      <4>3. Held(listing'[g], file')
        BY <2>0, <3>4, <4>1 DEF ShownBy, Held, Holds, Loaded, Answers, Goes,
           Listed
      <4> QED
        BY <4>1, <4>2, <4>3 DEF ShownBy
    <3> QED
      BY <2>2, <3>1, <3>2, <3>3, <3>4 DEF GetNext
  <2> QED
    BY <2>1, <2>2, GetSteps
<1> QED
  BY <1>4, <1>5 DEF ShownInv

(* While the file is kept, a fetch brings the page at least the tasks it   *)
(* showed when the fetch was sent, for any number of overlapping fetches,  *)
(* POSTs, failed writes and crashes.                                       *)
THEOREM FetchAlwaysKeeps == Spec => []FetchKeepsShown
<1> DEFINE Inv == Durable => ShownInv
<1>1. Init => Inv
  BY DEF Init, ShownInv, ShownBy, Held, Requests
<1>2. TypeOK /\ KeptInv /\ Inv /\ [Next]_vars => Inv'
  BY ShownKeeps
<1>3. Inv => FetchKeepsShown
  BY DEF ShownInv, ShownBy, FetchKeepsShown
<1> QED
  BY <1>1, <1>2, <1>3, TypeCorrect, KeptAlways, PTL DEF Spec

-----------------------------------------------------------------------------
(* What an append adds to the tasks of a file: its own task, if it is      *)
(* written whole and without the separator, and else none.                 *)
LEMMA ListedAppend ==
    ASSUME NEW f \in Seq(Mark), NEW s \in Seq(Mark),
           Len(s) > 0 => s[1] # SPLIT
    PROVE  Listed(f \o s) \subseteq Listed(f) \cup Listed(s)
<1> SUFFICES ASSUME NEW p \in Listed(f \o s), p \notin Listed(f)
             PROVE  p \in Listed(s)
  OBVIOUS
<1> DEFINE n == Len(f)
           g == f \o s
<1>0. n \in Nat /\ Len(s) \in Nat /\ Len(g) = n + Len(s) /\ p \in Posts
  BY Extends DEF Listed
<1>1. PICK i \in 1..Len(g) : g[i] = SPLIT /\ i > 1 /\ g[i - 1] = p
  BY DEF Listed, Ends
<1>2. CASE i \in 1..n
  <2>1. i - 1 \in 1..n
    BY <1>1, <1>2
  <2>2. f[i] = SPLIT /\ f[i - 1] = p
    BY <1>1, <1>2, <2>1, Extends
  <2> QED
    BY <1>0, <1>1, <1>2, <2>2 DEF Listed, Ends
<1>3. CASE i \notin 1..n
  <2> DEFINE j == i - n
  <2>1. j \in 1..Len(s) /\ i = n + j
    BY <1>0, <1>1, <1>3
  <2>2. s[j] = SPLIT
    BY <1>1, <2>1, Extends
  <2>3. j > 1
    BY <2>1, <2>2
  <2>4. j - 1 \in 1..Len(s) /\ i - 1 = n + (j - 1)
    BY <1>0, <2>1, <2>3
  <2>5. s[j - 1] = p
    BY <1>1, <2>4, Extends
  <2> HIDE DEF j
  <2> QED
    BY <1>0, <2>1, <2>2, <2>3, <2>5 DEF Listed, Ends
<1> QED
  BY <1>2, <1>3

LEMMA LineLists ==
    ASSUME NEW p \in Posts
    PROVE  /\ Line(p)[1] # SPLIT
           /\ \A q \in Listed(Line(p)) : q = p /\ p \notin Poison
<1>1. CASE p \in Poison
  <2>1. \A i \in 1..4 : i = 1 \/ i = 2 \/ i = 3 \/ i = 4
    OBVIOUS
  <2> QED
    BY <1>1, <2>1, PoisonLine, FileAssumption DEF Listed, Ends
<1>2. CASE p \notin Poison
  <2>1. \A i \in 1..2 : i = 1 \/ i = 2
    OBVIOUS
  <2> QED
    BY <1>2, <2>1, GoodLine, FileAssumption DEF Listed, Ends
<1> QED
  BY <1>1, <1>2

LEMMA TornLists ==
    ASSUME NEW p \in Posts, NEW s \in Torn(p)
    PROVE  (Len(s) > 0 => s[1] # SPLIT) /\ Listed(s) = {}
<1> DEFINE l == Line(p)
           Bare(t) == /\ t \in Seq(Mark)
                      /\ \A i \in 1..Len(t) : t[i] = SPLIT =>
                            i > 1 /\ t[i - 1] \notin Posts
<1>1. \A n \in 0..(Len(l) - 1) : Bare(SubSeq(l, 1, n))
  <2> SUFFICES ASSUME NEW n \in 0..(Len(l) - 1) PROVE Bare(SubSeq(l, 1, n))
    OBVIOUS
  <2>1. l \in Seq(Mark)
    BY LineType
  <2>2. \A i \in 1..(Len(l) - 1) : l[i] = SPLIT => i > 1 /\ l[i - 1] \notin Posts
    <3>1. CASE p \in Poison
      <4>1. /\ Len(l) = 4 /\ l[1] = HALF /\ l[2] = SPLIT /\ l[3] = HALF
        BY <3>1, PoisonLine
      <4> HIDE DEF l
      <4>2. \A i \in 1..(Len(l) - 1) : i = 1 \/ i = 2 \/ i = 3
        BY <4>1
      <4>3. HALF # SPLIT /\ HALF \notin Posts
        BY FileAssumption
      <4>4. ASSUME NEW i \in 1..(Len(l) - 1), l[i] = SPLIT
            PROVE  i = 2
        BY <4>1, <4>2, <4>3, <4>4
      <4>5. 2 > 1 /\ l[2 - 1] = HALF
        BY <4>1
      <4> QED
        BY <4>3, <4>4, <4>5
    <3>2. CASE p \notin Poison
      <4>1. Len(l) = 2 /\ l[1] = p /\ p # SPLIT
        BY <3>2, GoodLine, FileAssumption
      <4> HIDE DEF l
      <4>2. \A i \in 1..(Len(l) - 1) : i = 1
        BY <4>1
      <4> QED
        BY <4>1, <4>2
    <3> QED
      BY <3>1, <3>2
  <2> HIDE DEF l
  <2>3. /\ SubSeq(l, 1, n) \in Seq(Mark) /\ Len(SubSeq(l, 1, n)) = n
        /\ \A i \in 1..n : SubSeq(l, 1, n)[i] = l[i]
    BY <2>1
  <2>4. \A i \in 1..n : i \in 1..(Len(l) - 1) /\ (i > 1 => i - 1 \in 1..n)
    BY <2>1
  <2> QED
    BY <2>2, <2>3, <2>4
<1>2. ASSUME NEW t, Bare(t)
      PROVE  Bare(t \o <<HALF>>)
  <2> DEFINE h == <<HALF>>
  <2>1. h \in Seq(Mark) /\ Len(h) = 1 /\ h[1] = HALF /\ 1 \in 1..Len(h)
    BY DEF Mark
  <2> HIDE DEF h
  <2>0. t \in Seq(Mark) /\ Len(t) \in Nat
    BY <1>2
  <2>2. /\ t \o h \in Seq(Mark) /\ Len(t \o h) = Len(t) + 1
        /\ \A i \in 1..Len(t) : (t \o h)[i] = t[i]
        /\ (t \o h)[Len(t) + 1] = HALF
    <3> HIDE DEF Bare
    <3> QED
      BY <2>0, <2>1, Extends
  <2>3. \A i \in 1..(Len(t) + 1) : i \in 1..Len(t) \/ i = Len(t) + 1
    BY <1>2
  <2>4. \A i \in 1..Len(t) : i > 1 => i - 1 \in 1..Len(t)
    BY <1>2
  <2>5. Bare(t \o h)
    BY <1>2, <2>2, <2>3, <2>4, FileAssumption
  <2> QED
    BY <2>5 DEF h
<1>3. Bare(s)
  <2> HIDE DEF Bare
  <2>1. \/ \E n \in 0..(Len(l) - 1) : s = SubSeq(l, 1, n)
        \/ \E n \in 0..(Len(l) - 1) : s = SubSeq(l, 1, n) \o <<HALF>>
    BY DEF Torn
  <2> QED
    BY <1>1, <1>2, <2>1
<1> QED
  BY <1>3 DEF Listed, Ends

(* FailedNeverListed is not inductive: the file and what was read of it    *)
(* must not list such a task either, and a task that is listed is one      *)
(* whose write is over, so that its POST can no longer fail.               *)
Fine(p) ==
    /\ p \notin Poison
    /\ \/ step[p] = "written"
       \/ step[p] = "done" /\ answer[p] \in {"201", "lost"}

FineInv ==
    /\ \A p \in Listed(file) : Fine(p)
    /\ \A g \in Gets : step[g] = "read" => \A p \in Listed(data[g]) : Fine(p)
    /\ \A g \in Gets : \A p \in listing[g] : Fine(p)

LEMMA FineKeeps ==
    ASSUME TypeOK, KeptInv, FineInv, [Next]_vars
    PROVE  FineInv'
<1>0. /\ step \in [Requests -> Steps] /\ Posts \subseteq Requests
      /\ Gets \subseteq Requests /\ file \in Seq(Mark)
      /\ answer \in [Requests -> {"none", "200", "201", "401", "500", "lost"}]
      /\ data \in [Gets -> Seq(Mark)]
      /\ listing \in [Gets -> SUBSET Posts]
  BY DEF Requests, TypeOK
<1>1. ASSUME NEW p \in Posts, Fine(p)
      PROVE  Fine(p)'
  BY <1>1, Moves DEF Fine, PostMoves, Same, Lost, On, Done, KeptInv, Resting
<1>2. \A f : Listed(f) \subseteq Posts
  BY DEF Listed
<1>3. ASSUME NEW q \in Listed(file')
      PROVE  Fine(q)'
  <2>1. CASE file' = file
    BY <1>1, <1>2, <1>3, <2>1 DEF FineInv
  <2>2. CASE \E p \in Posts : AppendLine(p)
    <3>1. PICK p \in Posts : AppendLine(p)
      BY <2>2
    <3>2. q \in Listed(file) \/ q \in Listed(Line(p))
      BY <1>0, <1>3, <3>1, LineType, LineLists, ListedAppend DEF AppendLine
    <3>3. CASE q \in Listed(file)
      BY <1>1, <1>2, <3>3 DEF FineInv
    <3>4. CASE q \in Listed(Line(p))
      <4>1. q = p /\ p \notin Poison
        BY <3>4, LineLists
      <4> QED
        BY <1>0, <3>1, <4>1 DEF AppendLine, Goes, Fine
    <3> QED
      BY <3>2, <3>3, <3>4
  <2>3. CASE \E p \in Posts : AppendFails(p)
    <3>1. PICK p \in Posts : \E s \in Torn(p) : file' = file \o s
      BY <2>3 DEF AppendFails
    <3>2. PICK s \in Torn(p) : file' = file \o s
      BY <3>1
    <3>3. q \in Listed(file)
      BY <1>0, <1>3, <3>2, TornType, TornLists, ListedAppend
    <3> QED
      BY <1>1, <1>2, <3>3 DEF FineInv
  <2>4. CASE file' = <<>>
    BY <1>3, <2>4 DEF Listed, Ends
  <2> QED
    BY <2>1, <2>2, <2>3, <2>4 DEF Next, PostNext, GetNext, SendPost, Verified,
       Refused, Stored, NotStored, Fetch, Read, ReadFails, Loaded, ParseThrows,
       Show, Kill, Restart, vars
<1>4. ASSUME NEW g \in Gets
      PROVE  /\ step'[g] = "read" => \A p \in Listed(data'[g]) : Fine(p)'
             /\ \A p \in listing'[g] : Fine(p)'
  <2>1. CASE Idle(g)
    BY <1>0, <1>1, <1>2, <2>1 DEF Idle, Same, Lost, FineInv
  <2>2. CASE Read(g)
    BY <1>0, <1>1, <1>2, <2>2 DEF Read, history, FineInv
  <2>3. CASE Loaded(g)
    <3>1. listing'[g] = Listed(data[g]) /\ step[g] = "read" /\ step'[g] = "done"
      BY <1>0, <2>3 DEF Loaded, Answers, Goes
    <3> QED
      BY <1>1, <1>2, <3>1 DEF FineInv
  <2>4. CASE Fetch(g) \/ Verified(g) \/ Refused(g) \/ ReadFails(g) \/ Show(g)
    <3>1. UNCHANGED <<data, listing>> /\ step'[g] # "read"
      BY <1>0, <2>4 DEF Fetch, Verified, Refused, ReadFails, Show, Answers,
         Goes, history
    <3> QED
      BY <1>0, <1>1, <3>1 DEF FineInv
  <2> QED
    BY <2>1, <2>2, <2>3, <2>4, GetSteps DEF GetNext
<1> QED
  BY <1>3, <1>4 DEF FineInv

(* A task whose POST was answered with a failure is in no list, although   *)
(* all but the separator of it may be in the file; nor is one that         *)
(* contains the separator: for any requests, faults and restarts.          *)
THEOREM FailedIsNeverListed == Spec => []FailedNeverListed
<1>1. Init => FineInv
  <2> SUFFICES ASSUME Init PROVE FineInv
    OBVIOUS
  <2>1. file = <<>> /\ Listed(file) = {}
    BY DEF Init, Listed, Ends
  <2> QED
    BY <2>1 DEF Init, FineInv, Requests
<1>2. TypeOK /\ KeptInv /\ FineInv => FailedNeverListed
  BY DEF FineInv, Fine, FailedNeverListed, KeptInv, NoAnswerYet, TypeOK,
         Requests
<1> QED
  BY <1>1, <1>2, FineKeeps, TypeCorrect, KeptAlways, PTL DEF Spec

-----------------------------------------------------------------------------
(* A file that can be read and ends with a separator stays so when the     *)
(* line of a task without the separator is appended to it.                 *)
LEMMA GoodLineKeeps ==
    ASSUME NEW f \in Seq(Mark), NEW p \in Posts, p \notin Poison,
           Readable(f), EndsEmpty(f)
    PROVE  Readable(f \o Line(p)) /\ EndsEmpty(f \o Line(p))
<1> DEFINE n == Len(f)
           g == f \o Line(p)
<1>0. n \in Nat /\ Len(Line(p)) = 2 /\ Line(p)[1] = p /\ Line(p)[2] = SPLIT
  BY GoodLine
<1>1. /\ Len(g) = n + 2 /\ g[n + 1] = p /\ g[n + 2] = SPLIT
      /\ \A i \in 1..n : g[i] = f[i]
  <2>1. /\ \A i \in 1..Len(Line(p)) : g[n + i] = Line(p)[i]
        /\ Len(g) = n + Len(Line(p)) /\ \A i \in 1..n : g[i] = f[i]
    BY LineType, Extends
  <2>2. 1 \in 1..Len(Line(p)) /\ 2 \in 1..Len(Line(p))
    BY <1>0
  <2> HIDE DEF g, n
  <2> QED
    BY <1>0, <2>1, <2>2
<1>2. p # SPLIT
  BY FileAssumption
<1>3. \A i \in 1..n : f[i] = SPLIT => IsEntry(f, i)
  BY DEF Readable, Ends
<1>4. n = 0 \/ f[n] = SPLIT
  BY DEF EndsEmpty
<1> HIDE DEF n, g
<1>5. ASSUME NEW i \in Ends(g)
      PROVE  IsEntry(g, i)
  <2>1. i \in 1..(n + 2) /\ g[i] = SPLIT
    BY <1>1 DEF Ends
  <2>2. CASE i \in 1..n
    <3>1. f[i] = SPLIT /\ IsEntry(f, i)
      BY <1>1, <1>3, <2>1, <2>2
    <3>2. i > 1 => i - 1 \in 1..n
      BY <1>0, <2>2
    <3>3. i > 2 => i - 2 \in 1..n
      BY <1>0, <2>2
    <3> QED
      BY <1>1, <3>1, <3>2, <3>3 DEF IsEntry
  <2>3. CASE i \notin 1..n
    <3>1. i = n + 2
      BY <1>0, <1>1, <1>2, <2>1, <2>3
    <3>2. i > 1 /\ g[i - 1] = p
      BY <1>0, <1>1, <3>1
    <3>3. ASSUME i > 2
          PROVE  g[i - 2] = SPLIT
      <4>1. i - 2 = n /\ n \in 1..n
        BY <1>0, <3>1, <3>3
      <4> QED
        BY <1>1, <1>4, <4>1
    <3> QED
      BY <3>2, <3>3 DEF IsEntry
  <2> QED
    BY <2>2, <2>3
<1>6. EndsEmpty(g)
  BY <1>1 DEF EndsEmpty
<1>7. Readable(g)
  BY <1>5 DEF Readable
<1> QED
  BY <1>6, <1>7 DEF g

(* OnlyTornOrPoisonSpoils is not inductive: a file that can be read may    *)
(* end with an entry that the next append would complete to a wrong one.   *)
NoPoison == \A p \in Poison : step[p] \in {"new", "verify", "io"}
                                 \/ answer[p] = "401"

CleanInv == ~torn /\ NoPoison => Readable(file) /\ EndsEmpty(file)

LEMMA CleanKeeps ==
    ASSUME TypeOK, KeptInv, CleanInv, [Next]_vars
    PROVE  CleanInv'
<1> SUFFICES ASSUME ~torn', NoPoison'
             PROVE  Readable(file') /\ EndsEmpty(file')
  BY DEF CleanInv
<1>0. /\ step \in [Requests -> Steps] /\ Posts \subseteq Requests
      /\ Poison \subseteq Posts /\ file \in Seq(Mark)
      /\ answer \in [Requests -> {"none", "200", "201", "401", "500", "lost"}]
  BY FileAssumption DEF Requests, TypeOK
<1>1. NoPoison
  <2>1. \A p \in Poison : PostMoves(p)
    BY <1>0, Moves
  <2> QED
    BY <2>1 DEF NoPoison, PostMoves, Same, Lost, On, Done
<1>2. CASE \E p \in Posts : AppendLine(p)
  <2>1. PICK p \in Posts : AppendLine(p)
    BY <1>2
  <2>2. ~torn /\ answer[p] = "none" /\ step'[p] = "written" /\ answer' = answer
    BY <1>0, <2>1 DEF AppendLine, Goes, history, KeptInv, NoAnswerYet
  <2>3. p \notin Poison
    BY <2>2 DEF NoPoison
  <2>4. Readable(file) /\ EndsEmpty(file)
    BY <1>1, <2>2 DEF CleanInv
  <2> QED
    BY <1>0, <2>1, <2>3, <2>4, GoodLineKeeps DEF AppendLine
<1>3. CASE \E p \in Posts : AppendFails(p)
  <2>1. PICK p \in Posts : AppendFails(p)
    BY <1>3
  <2>2. PICK s \in Torn(p) : file' = file \o s /\ torn' = (torn \/ s # <<>>)
    BY <2>1 DEF AppendFails
  <2>3. ~torn /\ s = <<>>
    BY <2>2
  <2>4. file' = file
    BY <1>0, <2>2, <2>3
  <2> QED
    BY <1>1, <2>3, <2>4 DEF CleanInv
<1>4. CASE file' = file /\ torn' = torn
  BY <1>1, <1>4 DEF CleanInv
<1>5. CASE file' = <<>>
  BY <1>5 DEF Readable, Ends, EndsEmpty
<1> QED
  BY <1>2, <1>3, <1>4, <1>5 DEF Next, PostNext, GetNext, SendPost, Verified,
     Refused, Stored, NotStored, Fetch, Read, ReadFails, Loaded, ParseThrows,
     Show, Kill, Restart, vars, history

(* Unless a write failed half way or a task contains the separator, the    *)
(* file can be read at every moment, whatever requests overlap and however *)
(* often the process is killed.                                            *)
THEOREM OthersNeverSpoil == Spec => []OnlyTornOrPoisonSpoils
<1>1. Init => CleanInv
  BY DEF Init, CleanInv, Readable, Ends, EndsEmpty
<1>2. CleanInv => OnlyTornOrPoisonSpoils
  BY DEF CleanInv, NoPoison, OnlyTornOrPoisonSpoils
<1> QED
  BY <1>1, <1>2, CleanKeeps, TypeCorrect, KeptAlways, PTL DEF Spec

-----------------------------------------------------------------------------
(* TasksApi implements TaskService.  What a step adds to the entries of    *)
(* the file: nothing, but for the line of a task without the separator.    *)
LEMMA Appended ==
    ASSUME NEW f \in Seq(Mark), NEW p \in Posts
    PROVE  Listed(f \o Line(p))
              = IF p \in Poison THEN Listed(f) ELSE Listed(f) \cup {p}
<1>0. Line(p) \in Seq(Mark) /\ Line(p)[1] # SPLIT
  BY LineType, LineLists
<1>1. Listed(f) \subseteq Listed(f \o Line(p))
  BY <1>0, ListedGrows
<1>2. Listed(f \o Line(p)) \subseteq Listed(f) \cup Listed(Line(p))
  BY <1>0, ListedAppend
<1>3. \A q \in Listed(Line(p)) : q = p /\ p \notin Poison
  BY LineLists
<1>4. ASSUME p \notin Poison
      PROVE  p \in Listed(f \o Line(p))
  <2> DEFINE n == Len(f)
             g == f \o Line(p)
  <2>0. n \in Nat /\ Len(Line(p)) = 2 /\ Line(p)[1] = p /\ Line(p)[2] = SPLIT
    BY <1>4, GoodLine
  <2>1. /\ \A i \in 1..Len(Line(p)) : g[n + i] = Line(p)[i]
        /\ Len(g) = n + Len(Line(p))
    BY <1>0, Extends
  <2>2. 1 \in 1..Len(Line(p)) /\ 2 \in 1..Len(Line(p))
    BY <2>0
  <2> HIDE DEF g, n
  <2>3. Len(g) = n + 2 /\ g[n + 1] = p /\ g[n + 2] = SPLIT
    BY <2>0, <2>1, <2>2
  <2>4. n + 2 \in 1..Len(g) /\ (n + 2) - 1 = n + 1 /\ n + 2 > 1
    BY <2>0, <2>3
  <2>5. p \in Listed(g)
    BY <2>3, <2>4 DEF Listed, Ends
  <2> QED
    BY <2>5 DEF g
<1> QED
  BY <1>1, <1>2, <1>3, <1>4

LEMMA TornAppended ==
    ASSUME NEW f \in Seq(Mark), NEW p \in Posts, NEW s \in Torn(p)
    PROVE  Listed(f \o s) = Listed(f)
<1>1. s \in Seq(Mark) /\ (Len(s) > 0 => s[1] # SPLIT) /\ Listed(s) = {}
  BY TornType, TornLists
<1>2. Listed(f) \subseteq Listed(f \o s)
  BY <1>1, ListedGrows
<1>3. Listed(f \o s) \subseteq Listed(f) \cup Listed(s)
  BY <1>1, ListedAppend
<1> QED
  BY <1>1, <1>2, <1>3

(* What the mapping needs of the detailed state: a task is an entry before *)
(* its POST is answered, and only a fetch that is given tasks has any.     *)
EntryInv ==
    /\ \A p \in Posts \ Poison : step[p] = "written" => p \in Listed(file)
    /\ \A g \in Gets : answer[g] # "200" => listing[g] = {}

LEMMA EntryKeeps ==
    ASSUME TypeOK, KeptInv, EntryInv, [Next]_vars
    PROVE  EntryInv'
<1>0. /\ step \in [Requests -> Steps] /\ Posts \subseteq Requests
      /\ Gets \subseteq Requests /\ file \in Seq(Mark) /\ Posts \cap Gets = {}
      /\ answer \in [Requests -> {"none", "200", "201", "401", "500", "lost"}]
      /\ listing \in [Gets -> SUBSET Posts]
  BY TasksAssumption DEF Requests, TypeOK
<1>1. ASSUME NEW p \in Posts \ Poison, step'[p] = "written"
      PROVE  p \in Listed(file')
  <2>1. CASE step[p] = "written"
    <3>1. p \in Listed(file)
      BY <2>1 DEF EntryInv
    <3>2. ~NewContainer
      BY <1>0, <2>1 DEF NewContainer, KeptInv, DownHoldsNone, Resting
    <3> QED
      BY <1>0, <3>1, <3>2, FileSteps, ListedGrows DEF FileStep
  <2>2. CASE step[p] # "written"
    <3>1. PostMoves(p)
      BY Moves
    <3>2. step[p] = "io"
      BY <1>1, <2>2, <3>1 DEF PostMoves, Same, Lost, On, Done
    <3>3. AppendLine(p)
      <4>1. CASE \E q \in Posts : PostNext(q)
        BY <1>0, <1>1, <2>2, <4>1 DEF PostNext, SendPost, Verified, Refused,
           AppendFails, Stored, NotStored, AppendLine, Answers, Goes
      <4>2. CASE \E g \in Gets : GetNext(g)
        BY <1>0, <1>1, <2>2, <4>2 DEF GetNext, Fetch, Verified, Refused, Read,
           ReadFails, Loaded, ParseThrows, Show, Down, Answers, Goes
      <4>3. CASE Kill \/ Restart \/ UNCHANGED vars
        BY <1>0, <1>1, <2>2, <4>3 DEF Kill, Down, Restart, vars
      <4> QED
        BY <4>1, <4>2, <4>3 DEF Next
    <3>4. file' = file \o Line(p)
      BY <3>3 DEF AppendLine
    <3> QED
      BY <1>0, <3>4, Appended
  <2> QED
    BY <2>1, <2>2
<1>2. ASSUME NEW g \in Gets, answer'[g] # "200"
      PROVE  listing'[g] = {}
  <2>1. CASE Idle(g)
    BY <1>0, <1>2, <2>1 DEF Idle, Same, Lost, EntryInv, KeptInv, NoAnswerYet,
       Resting
  <2>2. CASE Loaded(g)
    BY <1>0, <1>2, <2>2 DEF Loaded, Answers, Goes
  <2>3. CASE Fetch(g) \/ Verified(g) \/ Refused(g) \/ Read(g) \/ ReadFails(g)
             \/ Show(g)
    <3>1. listing' = listing
      BY <2>3 DEF Fetch, Verified, Refused, Read, ReadFails, Show
    <3>2. answer[g] # "200"
      BY <1>0, <1>2, <2>3 DEF Fetch, Verified, Refused, Read, ReadFails, Show,
         Answers, Goes, KeptInv, NoAnswerYet
    <3> QED
      BY <3>1, <3>2 DEF EntryInv
  <2> QED
    BY <2>1, <2>2, <2>3, GetSteps DEF GetNext
<1> QED
  BY <1>1, <1>2 DEF EntryInv

LEMMA EntryAlways == Spec => []EntryInv
<1>1. Init => EntryInv
  BY DEF Init, EntryInv, Requests
<1> QED
  BY <1>1, EntryKeeps, TypeCorrect, KeptAlways, PTL DEF Spec

(* A step that leaves a fetch alone leaves its stage alone, and one that   *)
(* loses it drops it, if it was under way.                                 *)
LEMMA SameStage ==
    ASSUME NEW g \in Gets, Same(g), data'[g] = data[g], listing'[g] = listing[g]
    PROVE  Stage(g)' = Stage(g) /\ Found(g)' = Found(g)
  BY DEF Same, Stage, Found

LEMMA LostStage ==
    ASSUME KeptInv, EntryInv, NEW g \in Gets, g \in Requests, Lost(g),
           listing'[g] = listing[g]
    PROVE  /\ Stage(g)' = "dropped" /\ Found(g)' = {}
           /\ \/ Stage(g) \in {"sent", "taken"}
              \/ Stage(g) = "dropped" /\ Found(g) = {}
<1>1. /\ step[g] \notin {"new", "done", "shown"} /\ answer[g] = "none"
      /\ step'[g] = "done" /\ answer'[g] = "lost" /\ listing[g] = {}
  BY DEF Lost, Resting, KeptInv, NoAnswerYet, EntryInv
<1> QED
  BY <1>1 DEF Stage, Found

(* The fetches as TaskService sees them.                                   *)
Fetches == <<[g \in Gets |-> Stage(g)], [g \in Gets |-> Found(g)]>>

LEMMA PostSteps ==
    ASSUME TypeOK, EntryInv, NEW p \in Posts, PostNext(p)
    PROVE  [Abstract!Next]_(Abstract!svars)
<1>0. /\ step \in [Requests -> Steps] /\ Posts \cap Gets = {}
      /\ answer \in [Requests -> {"none", "200", "201", "401", "500", "lost"}]
      /\ Posts \subseteq Requests /\ Gets \subseteq Requests
      /\ file \in Seq(Mark)
  BY TasksAssumption DEF Requests, TypeOK
<1>1. \A g \in Gets : Stage(g)' = Stage(g) /\ Found(g)' = Found(g)
  <2>1. \A g \in Gets : Same(g)
    BY <1>0 DEF PostNext, SendPost, Verified, Refused, AppendLine, AppendFails,
       Stored, NotStored, Answers, Goes, Same
  <2>2. UNCHANGED <<data, listing>>
    BY DEF PostNext, SendPost, Verified, Refused, AppendLine, AppendFails,
       Stored, NotStored
  <2> QED
    BY <2>1, <2>2, SameStage
<1>2. UNCHANGED Fetches
  BY <1>1 DEF Fetches
<1>3. CASE AppendLine(p)
  <2>1. Listed(file') = IF p \in Poison THEN Listed(file)
                                        ELSE Listed(file) \cup {p}
    BY <1>0, <1>3, Appended DEF AppendLine
  <2>2. UNCHANGED kept
    BY <1>3 DEF AppendLine, history
  <2>3. CASE p \in Poison
    BY <1>2, <2>1, <2>2, <2>3 DEF Fetches, Abstract!svars
  <2>4. CASE p \notin Poison
    <3>1. Abstract!Store(p)
      BY <1>2, <2>1, <2>2, <2>4 DEF Fetches, Abstract!Store
    <3> QED
      BY <2>4, <3>1 DEF Abstract!Next
  <2> QED
    BY <2>3, <2>4
<1>4. CASE AppendFails(p)
  <2>1. PICK s \in Torn(p) : file' = file \o s
    BY <1>4 DEF AppendFails
  <2>2. Listed(file') = Listed(file)
    BY <1>0, <2>1, TornAppended
  <2>3. UNCHANGED kept
    BY <1>4 DEF AppendFails
  <2> QED
    BY <1>2, <2>2, <2>3 DEF Fetches, Abstract!svars
<1>5. CASE Stored(p)
  <2>1. step[p] = "written" /\ kept' = kept \cup {p} /\ file' = file
    BY <1>5 DEF Stored, Answers, Goes
  <2>2. CASE p \in Poison
    BY <1>2, <2>1, <2>2 DEF Fetches, Abstract!svars
  <2>3. CASE p \notin Poison
    <3>1. Abstract!Accept(p)
      BY <1>2, <2>1, <2>3 DEF Fetches, Abstract!Accept, EntryInv
    <3> QED
      BY <2>3, <3>1 DEF Abstract!Next
  <2> QED
    BY <2>2, <2>3
<1>6. CASE SendPost(p) \/ Verified(p) \/ Refused(p) \/ NotStored(p)
  <2>1. UNCHANGED <<file, kept>>
    BY <1>6 DEF SendPost, Verified, Refused, NotStored, history
  <2> QED
    BY <1>2, <2>1 DEF Fetches, Abstract!svars
<1> QED
  BY <1>3, <1>4, <1>5, <1>6 DEF PostNext

(* The fetches that a step of the process end loses.                       *)
LEMMA DownSteps ==
    ASSUME TypeOK, KeptInv, EntryInv, Down,
           UNCHANGED <<file, data, listing, kept>>
    PROVE  Abstract!Next
<1> DEFINE some == {g \in Gets : Stage(g) \in {"sent", "taken"} /\ ~Same(g)}
<1>0. Gets \subseteq Requests
  BY DEF Requests
<1>1. \A g \in Gets : Same(g) \/ Lost(g)
  BY <1>0 DEF Down, Same, Lost, Resting
<1>2. ASSUME NEW g \in Gets, g \in some
      PROVE  Stage(g)' = "dropped" /\ Found(g)' = {}
  BY <1>0, <1>1, <1>2, LostStage
<1>3. ASSUME NEW g \in Gets, g \notin some
      PROVE  Stage(g)' = Stage(g) /\ Found(g)' = Found(g)
  BY <1>0, <1>1, <1>3, SameStage, LostStage
<1>4. some \subseteq Abstract!UnderWay
  BY DEF Abstract!UnderWay
<1> HIDE DEF some
<1>5. Abstract!Drop(some)
  BY <1>2, <1>3, <1>4 DEF Abstract!Drop
<1>6. some \in SUBSET Gets
  BY <1>4 DEF Abstract!UnderWay
<1> QED
  BY <1>5, <1>6 DEF Abstract!Next

LEMMA FetchSteps ==
    ASSUME TypeOK, KeptInv, EntryInv, NEW g \in Gets, GetNext(g)
    PROVE  [Abstract!Next]_(Abstract!svars)
<1>0. /\ step \in [Requests -> Steps] /\ Gets \subseteq Requests
      /\ answer \in [Requests -> {"none", "200", "201", "401", "500", "lost"}]
      /\ data \in [Gets -> Seq(Mark)]
      /\ listing \in [Gets -> SUBSET Posts]
  BY DEF Requests, TypeOK
<1>1. CASE ParseThrows(g)
  BY <1>1, DownSteps DEF ParseThrows, history
<1>2. CASE ~ParseThrows(g)
  <2>1. ASSUME NEW h \in Gets, h # g
        PROVE  Stage(h)' = Stage(h) /\ Found(h)' = Found(h)
    <3>1. Same(h) /\ data'[h] = data[h] /\ listing'[h] = listing[h]
      BY <1>0, <1>2, <2>1 DEF GetNext, Fetch, Verified, Refused, Read,
         ReadFails, Loaded, Show, Answers, Goes, Same
    <3> QED
      BY <3>1, SameStage
  <2>2. UNCHANGED <<file, kept>>
    BY <1>2 DEF GetNext, Fetch, Verified, Refused, Read, ReadFails, Loaded,
       Show, history
  <2>3. CASE Verified(g) \/ Show(g)
    <3>1. Stage(g)' = Stage(g) /\ Found(g)' = Found(g)
      BY <1>0, <2>3 DEF Verified, Show, Goes, Stage, Found
    <3> QED
      BY <2>1, <2>2, <3>1 DEF Abstract!svars
  <2>4. CASE Fetch(g)
    <3>1. Stage(g) = "new" /\ Stage(g)' = "sent" /\ Found(g)' = Found(g)
      BY <1>0, <2>4 DEF Fetch, Goes, Stage, Found
    <3>2. Abstract!Send(g)
      BY <2>1, <2>2, <3>1 DEF Abstract!Send
    <3> QED
      BY <3>2 DEF Abstract!Next
  <2>5. CASE Read(g)
    <3>1. Stage(g) = "sent" /\ Stage(g)' = "taken" /\ Found(g)' = Listed(file)
      BY <1>0, <2>5 DEF Read, Goes, Stage, Found
    <3>2. Abstract!Take(g)
      BY <2>1, <2>2, <3>1 DEF Abstract!Take
    <3> QED
      BY <3>2 DEF Abstract!Next
  <2>6. CASE Loaded(g)
    <3>1. Stage(g) = "taken" /\ Stage(g)' = "given" /\ Found(g)' = Found(g)
      BY <1>0, <2>6 DEF Loaded, Answers, Goes, Stage, Found
    <3>2. Abstract!Give(g)
      BY <2>1, <2>2, <3>1 DEF Abstract!Give
    <3> QED
      BY <3>2 DEF Abstract!Next
  <2>7. CASE Refused(g) \/ ReadFails(g)
    <3>1. /\ step[g] \in {"verify", "io"} /\ step'[g] = "done"
          /\ answer'[g] \in {"401", "500"} /\ listing'[g] = listing[g]
      BY <1>0, <2>7 DEF Refused, ReadFails, Answers, Goes
    <3>2. listing[g] = {}
      BY <3>1 DEF EntryInv, KeptInv, NoAnswerYet, Requests
    <3>3. Stage(g) = "sent" /\ Stage(g)' = "dropped" /\ Found(g)' = {}
      BY <3>1, <3>2 DEF Stage, Found
    <3>4. Abstract!Drop({g})
      BY <2>1, <2>2, <3>3 DEF Abstract!Drop, Abstract!UnderWay
    <3>5. {g} \in SUBSET Gets
      OBVIOUS
    <3> QED
      BY <3>4, <3>5 DEF Abstract!Next
  <2> QED
    BY <1>2, <2>3, <2>4, <2>5, <2>6, <2>7 DEF GetNext
<1> QED
  BY <1>1, <1>2

LEMMA TaskServiceStep ==
    ASSUME TypeOK, KeptInv, EntryInv, [Next]_vars
    PROVE  [Abstract!Next]_(Abstract!svars)
<1>1. CASE \E p \in Posts : PostNext(p)
  BY <1>1, PostSteps
<1>2. CASE \E g \in Gets : GetNext(g)
  BY <1>2, FetchSteps
<1>3. CASE Kill
  BY <1>3, DownSteps DEF Kill, history
<1>4. CASE Restart
  <2>1. \A g \in Gets : Stage(g)' = Stage(g) /\ Found(g)' = Found(g)
    BY <1>4, SameStage DEF Restart, Same
  <2>2. CASE Durable
    BY <1>4, <2>1, <2>2 DEF Restart, Abstract!svars
  <2>3. CASE ~Durable
    <3>1. Listed(file') = {} /\ kept' = {}
      BY <1>4, <2>3 DEF Restart, Listed, Ends
    <3>2. Abstract!UnderWay = {}
      <4>1. \A g \in Gets : step[g] \in {"new", "done", "shown"}
        BY <1>4 DEF Restart, KeptInv, DownHoldsNone, Resting, Requests
      <4>2. \A g \in Gets : Stage(g) \notin {"sent", "taken"}
        BY <4>1 DEF Stage
      <4> QED
        BY <4>2 DEF Abstract!UnderWay
    <3>3. Abstract!Forget
      BY <2>1, <2>3, <3>1, <3>2 DEF Abstract!Forget
    <3> QED
      BY <3>3 DEF Abstract!Next
  <2> QED
    BY <2>2, <2>3
<1>5. CASE UNCHANGED vars
  BY <1>5 DEF vars, history, Stage, Found, Abstract!svars
<1> QED
  BY <1>1, <1>2, <1>3, <1>4, <1>5 DEF Next

(* tasks-api implements a list of tasks: a fetch is given all the tasks    *)
(* that were stored at one moment after its sending, or nothing, and a     *)
(* task is stored before its POST is answered, for any requests, faults    *)
(* and restarts, with or without a volume.                                 *)
THEOREM TaskServiceImplemented == Spec => ImplementsTaskService
<1>1. Init => Abstract!Init
  <2> SUFFICES ASSUME Init PROVE Abstract!Init
    OBVIOUS
  <2>1. Listed(file) = {}
    BY DEF Init, Listed, Ends
  <2> QED
    BY <2>1 DEF Init, Abstract!Init, Stage, Found, Requests
<1> QED
  BY <1>1, TypeCorrect, KeptAlways, EntryAlways, TaskServiceStep, PTL
  DEF Spec, ImplementsTaskService, Abstract!Spec
=============================================================================
