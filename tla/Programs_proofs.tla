-------------------------- MODULE Programs_proofs --------------------------
(***************************************************************************)
(* Proofs about the small programs of MCPrograms, for any number of items, *)
(* pods, texts, posts and clicks.  A step of the composition is a step of  *)
(* one program or leaves it as it is, so each program has an invariant of  *)
(* its own.                                                                *)
(***************************************************************************)
EXTENDS MCPrograms, Sequences, WellFoundedInduction, TLAPS

(* The steps of the composition, from the point of view of each program.   *)
LEMMA Steps ==
    ASSUME Next
    PROVE  /\ C!Next \/ UNCHANGED collapseVars
           /\ R!Next \/ UNCHANGED carouselVars
           /\ F!Next \/ UNCHANGED formVars
           /\ S!Next \/ UNCHANGED storyVars
           /\ G!Next \/ UNCHANGED goVars
BY DEF Next

-----------------------------------------------------------------------------
(* The carousel: the interval that runs is the one this.interval has, and  *)
(* only an object that may cycle has one.                                  *)
Single == interval \in BOOLEAN /\ timers = IF interval THEN 1 ELSE 0

CarouselInv ==
    /\ Single
    /\ interval => made = "auto"
    /\ over => ~interval \/ resumed
    /\ indicator = (IF sliding THEN coming ELSE active)

LEMMA CarouselInit == R!Init => CarouselInv
BY DEF R!Init, CarouselInv, Single

(* What cycle() does to the interval.                                      *)
LEMMA CycleInv ==
    ASSUME Single, NEW m, interval => m = "auto", R!Cycle(m)
    PROVE  Single' /\ (interval' => m = "auto")
<1>1. CASE m = "auto"
  <2>1. interval' = TRUE
    BY <1>1, Zenon DEF R!Cycle
  <2>2. timers' = 1
    BY <1>1 DEF R!Cycle, R!Cleared, Single
  <2> QED
    BY <1>1, <2>1, <2>2 DEF Single
<1>2. CASE m # "auto"
  <2>1. interval = FALSE
    BY <1>2, Zenon DEF Single
  <2>2. interval' = FALSE
    BY <1>2, <2>1, Zenon DEF R!Cycle
  <2>3. timers' = 0
    BY <1>2, <2>1 DEF R!Cycle, R!Cleared, Single
  <2> QED
    BY <2>2, <2>3 DEF Single
<1> QED
  BY <1>1, <1>2

(* slide() starts an interval anew that runs, and no other.                *)
LEMMA SlideInv ==
    ASSUME CarouselInv, ~sliding, NEW item, R!Slide(item, made'),
           made' = made \/ made = "none",
           UNCHANGED <<active, over, resumed>>
    PROVE  CarouselInv'
<1>1. indicator' = (IF sliding' THEN coming' ELSE active')
  BY DEF R!Slide, R!Slides
<1>2. CASE interval
  <2>1. made' = "auto" /\ R!Cycle(made')
    BY <1>2 DEF CarouselInv, R!Slide
  <2>2. Single' /\ (interval' => made' = "auto")
    BY <2>1, CycleInv DEF CarouselInv
  <2> QED
    BY <1>1, <1>2, <2>2 DEF CarouselInv
<1>3. CASE ~interval
  BY <1>1, <1>3 DEF CarouselInv, Single, R!Slide
<1> QED
  BY <1>2, <1>3

LEMMA ToInv ==
    ASSUME CarouselInv, NEW pos, NEW w, R!To(pos, w, made'),
           made' = made \/ made = "none",
           UNCHANGED <<active, over>>
    PROVE  CarouselInv'
<1>1. CASE sliding /\ R!Stay /\ UNCHANGED <<resumed, interval, timers>>
  BY <1>1 DEF CarouselInv, Single, R!Stay
<1>2. CASE resumed' = TRUE /\ R!Cycle(made') /\ R!Stay
  <2>1. interval => made' = "auto"
    BY DEF CarouselInv
  <2>2. Single' /\ (interval' => made' = "auto")
    BY <1>2, <2>1, CycleInv DEF CarouselInv
  <2> QED
    BY <1>2, <2>2 DEF CarouselInv, R!Stay
<1>3. CASE ~sliding /\ R!Slide(pos, made') /\ UNCHANGED resumed
  BY <1>3, SlideInv
<1> QED
  BY <1>1, <1>2, <1>3 DEF R!To

LEMMA StepInv ==
    ASSUME CarouselInv, NEW type, R!Step(type, made'),
           made' = made \/ made = "none",
           UNCHANGED <<active, over, resumed>>
    PROVE  CarouselInv'
<1>1. CASE ~sliding /\ R!Slide(R!Neighbour(type), made')
  BY <1>1, SlideInv
<1>2. CASE R!Stay /\ UNCHANGED <<interval, timers>>
  BY <1>2 DEF CarouselInv, Single, R!Stay
<1> QED
  BY <1>1, <1>2 DEF R!Step

LEMMA CarouselNext ==
    ASSUME CarouselInv, R!Next
    PROVE  CarouselInv'
<1>1. ASSUME NEW type \in R!Directions, R!ClickArrow(type)
      PROVE  CarouselInv'
  BY <1>1, StepInv DEF R!ClickArrow
<1>2. ASSUME NEW type \in R!Directions, R!Key(type)
      PROVE  CarouselInv'
  <2>1. R!Step(type, made')
    BY <1>2 DEF R!Key
  <2> QED
    BY <1>2, <2>1, StepInv DEF R!Key
<1>3. ASSUME NEW pos \in R!Items, R!ClickIndicator(pos)
      PROVE  CarouselInv'
  BY <1>3, ToInv DEF R!ClickIndicator
<1>4. CASE R!Enter
  <2>1. CASE made = "none" /\ UNCHANGED <<interval, timers>>
    BY <1>4, <2>1 DEF R!Enter, R!Stay, CarouselInv, Single
  <2>2. CASE R!Pause
    <3>1. interval' = FALSE /\ timers' = 0
      BY <2>2 DEF R!Pause, R!Cleared, CarouselInv, Single
    <3> QED
      BY <1>4, <3>1 DEF R!Enter, R!Stay, CarouselInv, Single
  <2> QED
    BY <1>4, <2>1, <2>2 DEF R!Enter
<1>5. CASE R!Leave
  <2>1. CASE UNCHANGED <<interval, timers>>
    BY <1>5, <2>1 DEF R!Leave, R!Stay, CarouselInv, Single
  <2>2. CASE R!Cycle(made)
    <3>1. Single' /\ (interval' => made = "auto")
      BY <2>2, CycleInv DEF CarouselInv
    <3> QED
      BY <1>5, <3>1 DEF R!Leave, R!Stay, CarouselInv
  <2> QED
    BY <1>5, <2>1, <2>2 DEF R!Leave
<1>6. CASE R!Interval
  <2>1. R!Step("next", made')
    BY <1>6 DEF R!Interval
  <2> QED
    BY <1>6, <2>1, StepInv DEF R!Interval
<1>7. CASE R!TransitionEnd
  BY <1>7 DEF R!TransitionEnd, CarouselInv, Single
<1>8. CASE R!Slid
  <2>1. CASE UNCHANGED <<indicator, coming, sliding, interval, timers, resumed>>
    BY <1>8, <2>1 DEF R!Slid, CarouselInv, Single
  <2>2. CASE /\ ~sliding /\ resumed' = TRUE
             /\ R!Cycle(made)
             /\ \/ UNCHANGED <<indicator, coming, sliding>>
                \/ \E item : R!Slides(item)
    <3>1. Single' /\ (interval' => made = "auto")
      BY <2>2, CycleInv DEF CarouselInv
    <3>2. indicator' = (IF sliding' THEN coming' ELSE active')
      BY <1>8, <2>2 DEF R!Slid, R!Slides, CarouselInv
    <3> QED
      BY <1>8, <2>2, <3>1, <3>2 DEF R!Slid, CarouselInv
  <2>3. CASE /\ ~sliding /\ R!Slide(waiting[1], made)
             /\ UNCHANGED resumed
    <3>1. R!Slide(waiting[1], made')
      BY <1>8, <2>3 DEF R!Slid
    <3> QED
      BY <1>8, <2>3, <3>1, SlideInv DEF R!Slid
  <2> QED
    BY <1>8, <2>1, <2>2, <2>3 DEF R!Slid
<1> QED
  BY <1>1, <1>2, <1>3, <1>4, <1>5, <1>6, <1>7, <1>8 DEF R!Next, R!User

(* However clicks, keys, the mouse, the interval and the ends of slides    *)
(* fall together, one interval runs at most, none under the mouse unless   *)
(* it was asked for, and the indicators are right.                         *)
THEOREM AlwaysSteady == Spec => []Steady
<1>1. Init => CarouselInv
  BY CarouselInit DEF Init
<1>2. CarouselInv /\ [Next]_<<which, collapseVars, carouselVars, formVars,
                              userVars, storyVars, goVars>> => CarouselInv'
  BY Steps, CarouselNext DEF CarouselInv, Single, carouselVars
<1>3. CarouselInv => Steady
  BY DEF CarouselInv, Single, Steady, R!Steady
<1> QED
  BY <1>1, <1>2, <1>3, PTL DEF Spec

-----------------------------------------------------------------------------
(* The Go servers: a field that is set stays set, what extauthz serves is  *)
(* its own field, and main has stopped what it went past.                  *)
Set(t) == pc[t] \in {"made", "serving", "over"} => server[G!Field(t)] # G!None

GoType ==
    /\ pc \in [G!Goroutines -> {"new", "listening", "made", "serving", "over"}]
    /\ server \in [G!Goroutines -> G!Goroutines \cup {G!None}]
    /\ serves \in [G!Goroutines -> G!Goroutines \cup {G!None}]
    /\ \/ program = "jwt" /\ starts \subseteq {"http", "https"}
       \/ program = "extauthz" /\ starts = {"http", "grpc"}
    /\ "http" \in starts

GoReady ==
    ready => /\ \A t \in starts : server[G!Field(t)] # G!None
             /\ main \notin {"new", "waiting"}
             /\ exit \in {G!Running, 0, 1}

GoOwn ==
    program = "extauthz" =>
       /\ \A t \in starts : server[t] \in {t, G!None}
       /\ \A t \in starts : pc[t] = "serving" => serves[t] = t

GoPast ==
    /\ program = "extauthz" =>
         /\ main \in {"stopping http", "returning"} => "grpc" \in stopped
         /\ main = "returning" => "http" \in stopped
    /\ exit = 0 => main = "returning"

GoInv ==
    /\ GoType
    /\ \A t \in starts : Set(t)
    /\ GoReady
    /\ GoOwn
    /\ GoPast

LEMMA GoInit == G!Init => GoInv
BY DEF G!Init, GoInv, GoType, GoReady, GoOwn, GoPast, Set, G!Goroutines,
       G!None, G!Running

(* The fields main waits for, by the part they play.                       *)
LEMMA FieldType == \A t \in G!Goroutines : G!Field(t) \in G!Goroutines
BY DEF G!Field, G!Goroutines

(* The process ends, but not by a panic.                                   *)
LEMMA EndsInv ==
    ASSUME GoInv, NEW code \in {0, 1, 2, 143}, G!Ends(code),
           code = 0 => main = "returning",
           code \notin {0, 1} => ~ready
    PROVE  GoInv'
<1>1. GoType' /\ (\A t \in starts : Set(t))' /\ GoOwn'
  BY DEF GoInv, GoType, GoOwn, Set, G!Ends
<1>2. GoReady'
  BY DEF GoInv, GoReady, G!Ends
<1>3. GoPast'
  BY DEF GoInv, GoPast, G!Ends
<1> QED
  BY <1>1, <1>2, <1>3 DEF GoInv

(* A goroutine goes on; its field stays or is set.                         *)
LEMMA GoesInv ==
    ASSUME GoInv,
           NEW t \in G!Goroutines, NEW from,
           NEW to \in {"listening", "made", "serving", "over"},
           G!Goes(t, from, to),
           server' \in {server, [server EXCEPT ![G!Field(t)] = t]},
           serves' \in {serves, [serves EXCEPT ![t] = server[G!Field(t)]]},
           to \in {"made", "serving", "over"} => server'[G!Field(t)] # G!None,
           to = "serving" =>
              server' = server /\ serves' = [serves EXCEPT ![t] = server[G!Field(t)]]
    PROVE  GoInv'
<1>1. GoType'
  BY FieldType DEF GoInv, GoType, G!Goes
<1> DEFINE Kept(f) == server[f] # G!None => server'[f] # G!None
<1>2. \A f \in G!Goroutines : Kept(f)
  BY FieldType DEF GoInv, GoType, G!Goroutines, G!None
<1>3. (\A u \in starts : Set(u))'
  <2> SUFFICES ASSUME NEW u \in starts PROVE Set(u)'
    BY DEF G!Goes
  <2>1. u \in G!Goroutines
    BY DEF GoInv, GoType, G!Goroutines
  <2>2. CASE u = t
    BY <2>2 DEF Set, G!Goes, GoInv, GoType
  <2>3. CASE u # t
    BY <1>2, <2>1, <2>3, FieldType DEF Set, G!Goes, GoInv, GoType
  <2> QED
    BY <2>2, <2>3
<1>4. GoReady'
  BY <1>2, FieldType DEF GoInv, GoReady, GoType, G!Goes, G!Goroutines
<1>5. GoPast'
  BY DEF GoInv, GoPast, G!Goes
<1>6. GoOwn'
  <2> SUFFICES ASSUME program = "extauthz", NEW u \in starts
               PROVE  /\ server'[u] \in {u, G!None}
                      /\ pc'[u] = "serving" => serves'[u] = u
    BY DEF GoOwn, G!Goes
  <2>1. t \in starts /\ starts = {"http", "grpc"} /\ G!Field(t) = t
    BY DEF GoInv, GoType, G!Goes, G!Field
  <2>2. server[u] \in {u, G!None} /\ (pc[u] = "serving" => serves[u] = u)
    BY DEF GoInv, GoOwn
  <2>3. server'[u] \in {u, G!None}
    BY <2>1, <2>2 DEF GoInv, GoType, G!Goroutines
  <2>4. CASE u # t
    BY <2>1, <2>2, <2>3, <2>4 DEF GoInv, GoType, G!Goes, G!Goroutines
  <2>5. CASE u = t /\ to # "serving"
    BY <2>1, <2>2, <2>3, <2>5 DEF GoInv, GoType, G!Goes, G!Goroutines
  <2>6. CASE u = t /\ to = "serving"
    <3>1. serves'[t] = server[t]
      BY <2>1, <2>6 DEF GoInv, GoType, G!Goroutines
    <3>2. server[t] \in {t, G!None} /\ server[t] # G!None
      BY <2>1, <2>2, <2>6
    <3> QED
      BY <2>3, <2>6, <3>1, <3>2
  <2> QED
    BY <2>3, <2>4, <2>5, <2>6
<1> QED
  BY <1>1, <1>3, <1>4, <1>5, <1>6 DEF GoInv

LEMMA RunningAlone == G!Running \notin {0, 1, 2, 143}
BY DEF G!Running

(* main goes on.                                                           *)
LEMMA MainInv ==
    ASSUME GoInv, NEW from, NEW to, G!MainGoes(from, to),
           to \notin {"new", "waiting"} \/ ~ready',
           ready' => ready \/ \A t \in starts : pc[t] = "serving",
           program = "extauthz" =>
              /\ to \in {"stopping http", "returning"} => "grpc" \in stopped'
              /\ to = "returning" => "http" \in stopped'
    PROVE  GoInv'
<1>1. GoType' /\ (\A t \in starts : Set(t))' /\ GoOwn'
  BY DEF GoInv, GoType, GoOwn, Set, G!MainGoes
<1>2. GoReady'
  <2> SUFFICES ASSUME ready' PROVE GoReady'
    BY DEF GoReady
  <2>1. \A t \in starts : server[G!Field(t)] # G!None
    BY DEF GoInv, GoReady, Set
  <2>2. to \notin {"new", "waiting"}
    OBVIOUS
  <2>3. UNCHANGED <<starts, server, exit>> /\ main' = to /\ exit = G!Running
    BY DEF G!MainGoes
  <2>4. (\A t \in starts : server[G!Field(t)] # G!None)'
    BY <2>1, <2>3
  <2> QED
    BY <2>2, <2>3, <2>4 DEF GoReady
<1>3. GoPast'
  <2>1. program' = program /\ main' = to /\ exit' # 0
    BY RunningAlone DEF G!MainGoes
  <2>2. exit' = 0 => main' = "returning"
    BY <2>1
  <2>3. ASSUME program' = "extauthz"
        PROVE  /\ main' \in {"stopping http", "returning"} => "grpc" \in stopped'
               /\ main' = "returning" => "http" \in stopped'
    BY <2>1, <2>3
  <2> QED
    BY <2>2, <2>3 DEF GoPast
<1> QED
  BY <1>1, <1>2, <1>3 DEF GoInv

LEMMA GoNext ==
    ASSUME GoInv, G!Next
    PROVE  GoInv'
<1>1. ASSUME NEW t \in G!Goroutines, G!Listen(t)
      PROVE  GoInv'
  BY <1>1, GoesInv DEF G!Listen
<1>2. ASSUME NEW t \in G!Goroutines, G!ListenFails(t)
      PROVE  GoInv'
  BY <1>2, EndsInv DEF G!ListenFails
<1>3. ASSUME NEW t \in G!Goroutines, G!Make(t)
      PROVE  GoInv'
  <2>1. server'[G!Field(t)] # G!None
    BY <1>3, FieldType DEF G!Make, GoInv, GoType, G!Goroutines, G!None
  <2> QED
    BY <1>3, <2>1, GoesInv DEF G!Make
<1>4. ASSUME NEW t \in G!Goroutines, G!Serve(t)
      PROVE  GoInv'
  <2>1. CASE /\ G!Goes(t, "made", "serving")
             /\ serves' = [serves EXCEPT ![t] = server[G!Field(t)]]
             /\ UNCHANGED server
    <3>1. server[G!Field(t)] # G!None
      BY <2>1 DEF GoInv, Set, G!Goes
    <3> QED
      BY <2>1, <3>1, GoesInv
  <2>2. CASE G!Ends(1)
    BY <2>2, EndsInv
  <2> QED
    BY <1>4, <2>1, <2>2 DEF G!Serve
<1>5. ASSUME NEW t \in G!Goroutines, G!ServeReturns(t)
      PROVE  GoInv'
  <2>1. CASE G!Goes(t, "serving", "over") /\ UNCHANGED <<server, serves>>
    <3>1. server[G!Field(t)] # G!None
      BY <2>1 DEF GoInv, Set, G!Goes
    <3> QED
      BY <2>1, <3>1, GoesInv
  <2>2. CASE G!Ends(1)
    BY <2>2, EndsInv
  <2> QED
    BY <1>5, <2>1, <2>2 DEF G!ServeReturns
<1>6. CASE G!Notify
  <2>1. ~ready
    BY <1>6 DEF G!Notify, G!MainGoes, GoInv, GoReady
  <2> QED
    BY <1>6, <2>1, MainInv DEF G!Notify
<1>7. CASE G!Signal
  <2>1. CASE /\ G!MainGoes("waiting", "stopping")
             /\ ready' = \A t \in starts : pc[t] = "serving"
             /\ UNCHANGED stopped
    BY <2>1, MainInv
  <2>2. CASE main = "new" /\ G!Ends(143)
    <3>1. ~ready
      BY <2>2 DEF GoInv, GoReady
    <3> QED
      BY <2>2, <3>1, EndsInv
  <2> QED
    BY <1>7, <2>1, <2>2 DEF G!Signal
<1>8. CASE G!Stop
  <2>1. ASSUME NEW f \in {"grpc", "http"}, server[f] = G!None,
               f = "grpc" => program = "extauthz", G!Ends(2)
        PROVE  GoInv'
    <3>1. \E t \in starts : G!Field(t) = f
      BY <2>1 DEF GoInv, GoType, G!Field
    <3>2. ~ready
      BY <2>1, <3>1 DEF GoInv, GoReady
    <3> QED
      BY <2>1, <3>2, EndsInv
  <2>2. CASE program = "jwt" /\ G!StopServer("http", "stopping", "returning")
    BY <2>1, <2>2, MainInv DEF G!StopServer
  <2>3. CASE /\ program = "extauthz"
             /\ G!StopServer("grpc", "stopping", "stopping http")
    <3>1. server["grpc"] \in {"grpc", G!None}
      BY <2>3 DEF GoInv, GoType, GoOwn
    <3>2. CASE server["grpc"] = G!None
      BY <2>1, <2>3, <3>2 DEF G!StopServer
    <3>3. CASE /\ server["grpc"] # G!None
               /\ G!MainGoes("stopping", "stopping http")
               /\ stopped' = stopped \cup {server["grpc"]}
               /\ UNCHANGED ready
      <4>1. "grpc" \in stopped'
        BY <3>1, <3>3
      <4> QED
        BY <3>3, <4>1, MainInv
    <3> QED
      BY <2>3, <3>2, <3>3 DEF G!StopServer
  <2>4. CASE /\ program = "extauthz"
             /\ G!StopServer("http", "stopping http", "returning")
    <3>1. server["http"] \in {"http", G!None}
      BY <2>4 DEF GoInv, GoType, GoOwn
    <3>2. main = "stopping http" => "grpc" \in stopped
      BY <2>4 DEF GoInv, GoPast
    <3>3. CASE server["http"] = G!None
      BY <2>1, <2>4, <3>3 DEF G!StopServer
    <3>4. CASE /\ server["http"] # G!None
               /\ G!MainGoes("stopping http", "returning")
               /\ stopped' = stopped \cup {server["http"]}
               /\ UNCHANGED ready
      <4>1. "grpc" \in stopped' /\ "http" \in stopped'
        BY <3>1, <3>2, <3>4 DEF G!MainGoes
      <4> QED
        BY <3>4, <4>1, MainInv
    <3> QED
      BY <2>4, <3>3, <3>4 DEF G!StopServer
  <2> QED
    BY <1>8, <2>2, <2>3, <2>4 DEF G!Stop
<1>9. CASE G!Return
  BY <1>9, EndsInv DEF G!Return
<1> QED
  BY <1>1, <1>2, <1>3, <1>4, <1>5, <1>6, <1>7, <1>8, <1>9 DEF G!Next

(* A signal that comes when all servers serve makes no goroutine panic,    *)
(* and main does not return before it has stopped what extauthz serves.    *)
THEOREM ReadyAlwaysStops == Spec => []ReadyStops
<1>1. Init => GoInv
  BY GoInit DEF Init
<1>2. GoInv /\ [Next]_<<which, collapseVars, carouselVars, formVars,
                        userVars, storyVars, goVars>> => GoInv'
  <2>1. ASSUME GoInv, UNCHANGED goVars PROVE GoInv'
    <3>1. (\A t \in starts : Set(t))' /\ GoType'
      BY <2>1 DEF GoInv, GoType, Set, goVars
    <3>2. GoReady' /\ GoOwn' /\ GoPast'
      BY <2>1 DEF GoInv, GoReady, GoOwn, GoPast, goVars
    <3> QED
      BY <3>1, <3>2 DEF GoInv
  <2> QED
    BY <2>1, Steps, GoNext DEF goVars
<1>3. GoInv => ReadyStops
  <2> SUFFICES ASSUME GoInv PROVE G!ReadyStops
    BY DEF ReadyStops
  <2>1. ready => exit \in {G!Running, 0, 1}
    BY DEF GoInv, GoReady
  <2>2. ASSUME exit = 0, NEW t \in starts, pc[t] = "serving",
               program # "jwt"
        PROVE  serves[t] \in stopped
    <3>1. main = "returning" /\ program = "extauthz"
      BY <2>2 DEF GoInv, GoPast, GoType
    <3>2. {"http", "grpc"} \subseteq stopped /\ t \in {"http", "grpc"}
      BY <2>2, <3>1 DEF GoInv, GoPast, GoType
    <3> QED
      BY <2>2, <3>1, <3>2 DEF GoInv, GoOwn
  <2> QED
    BY <2>1, <2>2 DEF G!ReadyStops
<1> QED
  BY <1>1, <1>2, <1>3, PTL DEF Spec

-----------------------------------------------------------------------------
(* The Story pods: what was answered with 201 is in the file, and in those *)
(* of all pods that share it; a process that is down holds no request.     *)
StoryType ==
    /\ up \in [Pods -> BOOLEAN]
    /\ file \in [Pods -> SUBSET Stories]
    /\ exists \in [Pods -> BOOLEAN]
    /\ pod \in [S!Requests -> Pods]
    /\ step \in [S!Requests -> {"new", "sent", "done", "ended"}]
    /\ status \in [S!Requests -> {0, 200, 201, 422, 500}]
    /\ story \in [Reads -> SUBSET Stories]
    /\ kept \in [Pods -> SUBSET Stories]
    /\ known \in [Reads -> SUBSET Stories]
    /\ \A g \in Reads : status[g] # 201

StoryUp == \A r \in S!Requests : step[r] \in {"sent", "done"} => up[pod[r]]

StoryDone ==
    \A t \in Stories : step[t] = "done" /\ status[t] = 201 =>
       \A q \in S!Sharers(pod[t]) : t \in file[q]

StoryKept ==
    \A p \in Pods : kept[p] \subseteq file[p]

StoryKnown ==
    \A g \in Reads :
       /\ step[g] \in {"new", "sent"} => status[g] = 0
       /\ step[g] = "sent" => known[g] \subseteq kept[pod[g]]
       /\ status[g] = 200 => known[g] \subseteq story[g]

StoryInv == StoryType /\ StoryUp /\ StoryDone /\ StoryKept /\ StoryKnown

LEMMA StoryInit == S!Init => StoryInv
<1> SUFFICES ASSUME S!Init PROVE StoryInv
  OBVIOUS
<1>1. StoryType /\ StoryUp /\ StoryDone
  BY DEF S!Init, StoryType, StoryUp, StoryDone, S!Requests
<1>2. StoryKept /\ StoryKnown
  BY DEF S!Init, StoryKept, StoryKnown, S!Requests
<1> QED
  BY <1>1, <1>2 DEF StoryInv

LEMMA SharersType == \A p \in Pods : S!Sharers(p) \subseteq Pods
BY DEF S!Sharers

LEMMA StorySend ==
    ASSUME StoryInv, NEW r \in S!Requests, S!Send(r)
    PROVE  StoryInv'
<1> USE ProgramsAssumption DEF S!Requests, S!Send, S!Goes, S!files, StoryInv
<1>1. StoryType'
  BY DEF StoryType
<1>2. StoryUp'
  BY DEF StoryType, StoryUp
<1>3. StoryDone'
  BY DEF StoryType, StoryUp, StoryDone, S!Sharers
<1>4. StoryKept'
  BY DEF StoryType, StoryDone, StoryKept, StoryUp, S!Sharers
<1>5. StoryKnown'
  BY DEF StoryType, StoryUp, StoryKept, StoryKnown
<1> QED
  BY <1>1, <1>2, <1>3, <1>4, <1>5 DEF StoryInv

LEMMA StoryAnswer ==
    ASSUME StoryInv, NEW r \in S!Requests, S!Answer(r)
    PROVE  StoryInv'
<1> USE ProgramsAssumption DEF S!Requests, S!Answer, S!Goes, S!files, StoryInv
<1>1. StoryType'
  BY SharersType DEF StoryType
<1>2. StoryUp'
  BY DEF StoryType, StoryUp
<1>3. StoryDone'
  BY DEF StoryType, StoryUp, StoryDone, S!Sharers
<1>4. StoryKept'
  BY DEF StoryType, StoryDone, StoryKept, StoryUp, S!Sharers
<1>5. StoryKnown'
  BY DEF StoryType, StoryUp, StoryKept, StoryKnown
<1> QED
  BY <1>1, <1>2, <1>3, <1>4, <1>5 DEF StoryInv

LEMMA StoryRefuse ==
    ASSUME StoryInv, NEW t \in Stories, S!Refuse(t)
    PROVE  StoryInv'
<1> USE ProgramsAssumption DEF S!Requests, S!Refuse, S!Goes, S!files, StoryInv
<1>1. StoryType'
  BY DEF StoryType
<1>2. StoryUp'
  BY DEF StoryType, StoryUp
<1>3. StoryDone'
  BY DEF StoryType, StoryUp, StoryDone, S!Sharers
<1>4. StoryKept'
  BY DEF StoryType, StoryDone, StoryKept, StoryUp, S!Sharers
<1>5. StoryKnown'
  BY DEF StoryType, StoryUp, StoryKept, StoryKnown
<1> QED
  BY <1>1, <1>2, <1>3, <1>4, <1>5 DEF StoryInv

LEMMA StoryAppendFile ==
    ASSUME StoryInv, NEW t \in Stories, S!AppendFile(t)
    PROVE  StoryInv'
<1> USE ProgramsAssumption DEF S!Requests, S!AppendFile, S!Goes, S!files, StoryInv
<1>1. StoryType'
  BY SharersType DEF StoryType
<1>2. StoryUp'
  BY DEF StoryType, StoryUp
<1>3. StoryDone'
  BY DEF StoryType, StoryUp, StoryDone, S!Sharers
<1>4. StoryKept'
  BY DEF StoryType, StoryDone, StoryKept, StoryUp, S!Sharers
<1>5. StoryKnown'
  BY DEF StoryType, StoryUp, StoryKept, StoryKnown
<1> QED
  BY <1>1, <1>2, <1>3, <1>4, <1>5 DEF StoryInv

LEMMA StoryAppendFails ==
    ASSUME StoryInv, NEW t \in Stories, S!AppendFails(t)
    PROVE  StoryInv'
<1> USE ProgramsAssumption DEF S!Requests, S!AppendFails, S!Goes, S!files, StoryInv
<1>1. StoryType'
  <2> DEFINE more == [p \in Pods |-> exists[p] \/ p \in S!Sharers(pod[t])]
  <2>1. more \in [Pods -> BOOLEAN]
    BY Zenon
  <2>2. exists' = exists \/ exists' = more
    BY Zenon
  <2>3. exists \in [Pods -> BOOLEAN]
    BY DEF StoryType
  <2>4. exists' \in [Pods -> BOOLEAN]
    <3> HIDE DEF more, S!AppendFails, StoryInv
    <3> QED
      BY <2>1, <2>2, <2>3
  <2> QED
    BY <2>4 DEF StoryType
<1>2. StoryUp'
  BY DEF StoryType, StoryUp
<1>3. StoryDone'
  BY DEF StoryType, StoryUp, StoryDone, S!Sharers
<1>4. StoryKept'
  BY DEF StoryType, StoryDone, StoryKept, StoryUp, S!Sharers
<1>5. StoryKnown'
  BY DEF StoryType, StoryUp, StoryKept, StoryKnown
<1> QED
  BY <1>1, <1>2, <1>3, <1>4, <1>5 DEF StoryInv

LEMMA StoryReadFile ==
    ASSUME StoryInv, NEW g \in Reads, S!ReadFile(g)
    PROVE  StoryInv'
<1> USE ProgramsAssumption DEF S!Requests, S!ReadFile, S!Goes, S!files, StoryInv
<1>1. StoryType'
  BY DEF StoryType
<1>2. StoryUp'
  BY DEF StoryType, StoryUp
<1>3. StoryDone'
  BY DEF StoryType, StoryUp, StoryDone, S!Sharers
<1>4. StoryKept'
  BY DEF StoryType, StoryDone, StoryKept, StoryUp, S!Sharers
<1>5. StoryKnown'
  BY DEF StoryType, StoryUp, StoryKept, StoryKnown
<1> QED
  BY <1>1, <1>2, <1>3, <1>4, <1>5 DEF StoryInv

LEMMA StoryReadFails ==
    ASSUME StoryInv, NEW g \in Reads, S!ReadFails(g)
    PROVE  StoryInv'
<1> USE ProgramsAssumption DEF S!Requests, S!ReadFails, S!Goes, S!files, StoryInv
<1>1. StoryType'
  BY DEF StoryType
<1>2. StoryUp'
  BY DEF StoryType, StoryUp
<1>3. StoryDone'
  BY DEF StoryType, StoryUp, StoryDone, S!Sharers
<1>4. StoryKept'
  BY DEF StoryType, StoryDone, StoryKept, StoryUp, S!Sharers
<1>5. StoryKnown'
  BY DEF StoryType, StoryUp, StoryKept, StoryKnown
<1> QED
  BY <1>1, <1>2, <1>3, <1>4, <1>5 DEF StoryInv

LEMMA StoryExit ==
    ASSUME StoryInv, NEW p \in Pods, S!Exit(p)
    PROVE  StoryInv'
<1> USE ProgramsAssumption DEF S!Requests, S!Exit, S!files, StoryInv
<1>1. StoryType'
  BY DEF StoryType
<1>2. StoryUp'
  BY DEF StoryType, StoryUp
<1>3. StoryDone'
  BY DEF StoryType, StoryUp, StoryDone, S!Sharers
<1>4. StoryKept'
  BY DEF StoryType, StoryDone, StoryKept, StoryUp, S!Sharers
<1>5. StoryKnown'
  BY DEF StoryType, StoryUp, StoryKept, StoryKnown
<1> QED
  BY <1>1, <1>2, <1>3, <1>4, <1>5 DEF StoryInv

LEMMA StoryRestart ==
    ASSUME StoryInv, NEW p \in Pods, S!Restart(p)
    PROVE  StoryInv'
<1> USE ProgramsAssumption DEF S!Requests, S!Restart, S!files, StoryInv
<1>1. StoryType'
  BY DEF StoryType
<1>2. StoryUp'
  BY DEF StoryType, StoryUp
<1>3. StoryDone'
  BY DEF StoryType, StoryUp, StoryDone, S!Sharers
<1>4. StoryKept'
  BY DEF StoryType, StoryDone, StoryKept, StoryUp, S!Sharers
<1>5. StoryKnown'
  BY DEF StoryType, StoryUp, StoryKept, StoryKnown
<1> QED
  BY <1>1, <1>2, <1>3, <1>4, <1>5 DEF StoryInv

LEMMA StoryReplace ==
    ASSUME StoryInv, NEW p \in Pods, S!Replace(p)
    PROVE  StoryInv'
<1> USE ProgramsAssumption DEF S!Requests, S!Replace, S!files, StoryInv
<1>1. StoryType'
  <2>1. CASE UNCHANGED <<S!files, kept>>
    BY <2>1 DEF StoryType
  <2>2. CASE /\ file' = [file EXCEPT ![p] = {}]
             /\ exists' = [exists EXCEPT ![p] = FALSE]
             /\ kept' = [kept EXCEPT ![p] = {}]
    <3>1. exists' \in [Pods -> BOOLEAN]
      BY <2>2, Zenon DEF StoryType
    <3>2. file' \in [Pods -> SUBSET Stories]
      BY <2>2, Zenon DEF StoryType
    <3>3. kept' \in [Pods -> SUBSET Stories]
      BY <2>2, Zenon DEF StoryType
    <3>4. up' \in [Pods -> BOOLEAN]
      BY Zenon DEF StoryType
    <3>5. UNCHANGED <<pod, step, status, story, known>>
      OBVIOUS
    <3> HIDE DEF S!Replace
    <3> QED
      BY <3>1, <3>2, <3>3, <3>4, <3>5 DEF StoryType
  <2> QED
    BY <2>1, <2>2
<1>2. StoryUp'
  BY DEF StoryType, StoryUp
<1>3. StoryDone'
  BY DEF StoryType, StoryUp, StoryDone, S!Sharers
<1>4. StoryKept'
  BY DEF StoryType, StoryDone, StoryKept, StoryUp, S!Sharers
<1>5. StoryKnown'
  BY DEF StoryType, StoryUp, StoryKept, StoryKnown
<1> QED
  BY <1>1, <1>2, <1>3, <1>4, <1>5 DEF StoryInv

(* The story a GET is answered with lacks no text that was answered with   *)
(* 201 before the GET was sent, by whichever pod with the same file.       *)
THEOREM StoredAlwaysRead == Spec => []StoredIsRead
<1>1. Init => StoryInv
  BY StoryInit DEF Init
<1>2. StoryInv /\ [Next]_<<which, collapseVars, carouselVars, formVars,
                           userVars, storyVars, goVars>> => StoryInv'
  <2>1. ASSUME StoryInv, UNCHANGED storyVars PROVE StoryInv'
    <3>1. StoryType' /\ StoryUp' /\ StoryKept' /\ StoryKnown'
      BY <2>1 DEF StoryInv, StoryType, StoryUp, StoryKept, StoryKnown, storyVars
    <3>2. StoryDone'
      BY <2>1 DEF StoryInv, StoryDone, S!Sharers, storyVars
    <3> QED
      BY <3>1, <3>2 DEF StoryInv
  <2>2. ASSUME StoryInv, S!Next PROVE StoryInv'
    BY <2>2, StorySend, StoryAnswer, StoryRefuse, StoryAppendFile,
       StoryAppendFails, StoryReadFile, StoryReadFails, StoryExit,
       StoryRestart, StoryReplace
       DEF S!Next
  <2> QED
    BY <2>1, <2>2, Steps DEF storyVars
<1>3. StoryInv => StoredIsRead
  BY DEF StoryInv, StoryKnown, StoredIsRead, S!StoredIsRead
<1> QED
  BY <1>1, <1>2, <1>3, PTL DEF Spec

-----------------------------------------------------------------------------
(* The form of Fib.js.  What the answer that empties the input belongs to  *)
(* is the last text typed, or that was taken before.                       *)
States == {"sent", "taken", "refused", "ok", "failed"}

FormPost == [text : Nat, own : BOOLEAN, state : States]

FormType ==
    /\ posts \in Seq(FormPost)
    /\ input \in Nat /\ typed \in Nat
    /\ careless \in BOOLEAN

FormTaken ==
    \A i \in DOMAIN posts : posts[i].state = "taken" => posts[i].text \in taken

FormKept ==
    page = "fib" /\ ~careless =>
       /\ wanted \in taken \cup {input, F!Empty}
       /\ \A i \in DOMAIN posts : posts[i].own /\ F!InFlight(i) =>
             posts[i].text = wanted \/ wanted \in taken \cup {F!Empty}

FormInv == FormType /\ FormTaken /\ FormKept

LEMMA FormInit == F!Init => FormInv
<1> SUFFICES ASSUME F!Init PROVE FormInv
  OBVIOUS
<1>1. FormType
  <2>1. posts = <<>> /\ input = 0 /\ typed = 0 /\ careless = FALSE
    BY Zenon DEF F!Init, F!Empty
  <2>2. posts \in Seq(FormPost)
    BY <2>1
  <2>3. input \in Nat /\ typed \in Nat
    BY <2>1
  <2>4. careless \in BOOLEAN
    BY <2>1
  <2> QED
    BY <2>2, <2>3, <2>4, Zenon DEF FormType
<1>2. FormTaken /\ FormKept
  BY DEF F!Init, FormTaken, FormKept
<1> QED
  BY <1>1, <1>2 DEF FormInv

(* The posts after one of them has another state, and after they all are   *)
(* of a form that is gone.                                                 *)
LEMMA Restated ==
    ASSUME posts \in Seq(FormPost), NEW i \in DOMAIN posts,
           NEW state \in States
    PROVE  [posts EXCEPT ![i].state = state] \in Seq(FormPost)
<1>1. posts[i] \in FormPost
  OBVIOUS
<1>2. [posts[i] EXCEPT !.state = state] \in FormPost
  BY <1>1 DEF FormPost
<1> QED
  BY <1>2

LEMMA Disowned ==
    ASSUME posts \in Seq(FormPost)
    PROVE  [i \in DOMAIN posts |-> [posts[i] EXCEPT !.own = FALSE]]
              \in Seq(FormPost)
<1>1. ASSUME NEW i \in DOMAIN posts
      PROVE  [posts[i] EXCEPT !.own = FALSE] \in FormPost
  <2>1. posts[i] \in FormPost
    BY <1>1
  <2> QED
    BY <2>1 DEF FormPost
<1>2. DOMAIN posts = 1..Len(posts) /\ Len(posts) \in Nat
  OBVIOUS
<1> QED
  BY <1>1, <1>2

LEMMA FormTypeFib ==
    ASSUME FormInv, F!Type
    PROVE  FormInv'
<1> USE DEF F!Type, F!Typed, F!history, F!Empty, FormInv
<1>1. FormType'
  BY DEF FormType, FormPost, States
<1>2. FormTaken'
  BY DEF FormType, FormTaken, FormPost, States
<1>3. FormKept'
  BY DEF FormType, FormTaken, FormKept, F!InFlight, FormPost, States
<1> QED
  BY <1>1, <1>2, <1>3 DEF FormInv

LEMMA FormTypeTask ==
    ASSUME FormInv, F!TypeTask
    PROVE  FormInv'
<1> USE DEF F!TypeTask, F!Typed, F!history, F!Empty, FormInv
<1>1. FormType'
  BY DEF FormType, FormPost, States
<1>2. FormTaken'
  BY DEF FormType, FormTaken, FormPost, States
<1>3. FormKept'
  BY DEF FormType, FormTaken, FormKept, F!InFlight, FormPost, States
<1> QED
  BY <1>1, <1>2, <1>3 DEF FormInv

LEMMA FormHandleSubmit ==
    ASSUME FormInv, F!HandleSubmit
    PROVE  FormInv'
<1> USE DEF F!HandleSubmit, F!Send, F!history, F!Empty, FormInv
<1>1. FormType'
  BY DEF FormType, FormPost, States
<1>2. FormTaken'
  BY DEF FormType, FormTaken, FormPost, States
<1>3. FormKept'
  BY DEF FormType, FormTaken, FormKept, F!InFlight, FormPost, States
<1> QED
  BY <1>1, <1>2, <1>3 DEF FormInv

LEMMA FormSubmitForm ==
    ASSUME FormInv, F!SubmitForm
    PROVE  FormInv'
<1> USE DEF F!SubmitForm, F!AddTask, F!Send, F!history, F!Empty, FormInv
<1>1. FormType'
  BY DEF FormType, FormPost, States
<1>2. FormTaken'
  BY DEF FormType, FormTaken, FormPost, States
<1>3. FormKept'
  BY DEF FormType, FormTaken, FormKept, F!InFlight, FormPost, States
<1> QED
  BY <1>1, <1>2, <1>3 DEF FormInv

LEMMA FormTake ==
    ASSUME FormInv, NEW i \in DOMAIN posts, F!Take(i)
    PROVE  FormInv'
<1> USE DEF F!Take, F!Becomes, F!history, F!Empty, FormInv
<1>1. FormType'
  <2>1. posts' \in Seq(FormPost)
    BY Restated DEF FormType, States
  <2> QED
    BY <2>1 DEF FormType
<1>2. FormTaken'
  BY DEF FormType, FormTaken, FormPost, States
<1>3. FormKept'
  BY DEF FormType, FormTaken, FormKept, F!InFlight, FormPost, States
<1> QED
  BY <1>1, <1>2, <1>3 DEF FormInv

LEMMA FormRefuse ==
    ASSUME FormInv, NEW i \in DOMAIN posts, F!Refuse(i)
    PROVE  FormInv'
<1> USE DEF F!Refuse, F!Becomes, F!history, F!Empty, FormInv
<1>1. FormType'
  <2>1. posts' \in Seq(FormPost)
    BY Restated DEF FormType, States
  <2> QED
    BY <2>1 DEF FormType
<1>2. FormTaken'
  BY DEF FormType, FormTaken, FormPost, States
<1>3. FormKept'
  BY DEF FormType, FormTaken, FormKept, F!InFlight, FormPost, States
<1> QED
  BY <1>1, <1>2, <1>3 DEF FormInv

LEMMA FormAnswered ==
    ASSUME FormInv, NEW i \in DOMAIN posts, F!Answered(i)
    PROVE  FormInv'
<1> USE DEF F!Answered, F!Becomes, F!history, F!Empty, FormInv
<1>1. FormType'
  <2>1. posts' \in Seq(FormPost)
    BY Restated DEF FormType, States
  <2> QED
    BY <2>1 DEF FormType
<1>2. FormTaken'
  BY DEF FormType, FormTaken, FormPost, States
<1>3. FormKept'
  BY DEF FormType, FormTaken, FormKept, F!InFlight, FormPost, States
<1> QED
  BY <1>1, <1>2, <1>3 DEF FormInv

LEMMA FormFailed ==
    ASSUME FormInv, NEW i \in DOMAIN posts, F!Failed(i)
    PROVE  FormInv'
<1> USE DEF F!Failed, F!history, F!Empty, FormInv
<1>1. FormType'
  <2>1. posts' \in Seq(FormPost)
    BY Restated DEF FormType, States
  <2> QED
    BY <2>1 DEF FormType
<1>2. FormTaken'
  BY DEF FormType, FormTaken, FormPost, States
<1>3. FormKept'
  BY DEF FormType, FormTaken, FormKept, F!InFlight, FormPost, States
<1> QED
  BY <1>1, <1>2, <1>3 DEF FormInv

LEMMA FormLeave ==
    ASSUME FormInv, F!Leave
    PROVE  FormInv'
<1> USE DEF F!Leave, F!history, F!Empty, FormInv
<1>1. FormType'
  <2>1. posts' \in Seq(FormPost)
    BY Disowned DEF FormType, States
  <2> QED
    BY <2>1 DEF FormType
<1>2. FormTaken'
  <2>1. \A i \in DOMAIN posts : posts[i] \in FormPost
    BY DEF FormType
  <2>2. DOMAIN posts' = DOMAIN posts /\ \A i \in DOMAIN posts :
           posts'[i].state = posts[i].state /\ posts'[i].text = posts[i].text
    BY <2>1 DEF FormPost
  <2> QED
    BY <2>2 DEF FormTaken
<1>3. FormKept'
  BY DEF FormType, FormTaken, FormKept, F!InFlight, FormPost, States
<1> QED
  BY <1>1, <1>2, <1>3 DEF FormInv

LEMMA FormEnter ==
    ASSUME FormInv, F!Enter
    PROVE  FormInv'
<1> USE DEF F!Enter, F!history, F!Empty, FormInv
<1>1. FormType'
  BY DEF FormType, FormPost, States
<1>2. FormTaken'
  BY DEF FormType, FormTaken, FormPost, States
<1>3. FormKept'
  BY DEF FormType, FormTaken, FormKept, F!InFlight, FormPost, States
<1> QED
  BY <1>1, <1>2, <1>3 DEF FormInv

LEMMA FormUnchanged ==
    ASSUME FormInv, UNCHANGED formVars
    PROVE  FormInv'
<1>1. FormType' /\ FormTaken'
  BY DEF FormInv, FormType, FormTaken, formVars
<1>2. FormKept'
  BY DEF FormInv, FormKept, F!InFlight, formVars
<1> QED
  BY <1>1, <1>2 DEF FormInv

LEMMA FormNext ==
    ASSUME FormInv, F!Next
    PROVE  FormInv'
BY FormTypeFib, FormTypeTask, FormHandleSubmit, FormSubmitForm, FormTake,
   FormRefuse, FormAnswered, FormFailed, FormLeave, FormEnter DEF F!Next

(* No answer empties the input of Fib.js of a text that the server has not *)
(* taken, unless the text was typed while that answer was still to come.   *)
THEOREM AlwaysTakenOrKept == Spec => []TakenOrKept
<1>1. Init => FormInv
  BY FormInit DEF Init
<1>2. FormInv /\ [Next]_<<which, collapseVars, carouselVars, formVars,
                          userVars, storyVars, goVars>> => FormInv'
  BY FormUnchanged, FormNext, Steps DEF formVars
<1>3. FormInv => TakenOrKept
  BY DEF FormInv, FormKept, TakenOrKept, F!TakenOrKept
<1> QED
  BY <1>1, <1>2, <1>3, PTL DEF Spec

(* Whoever types makes a new text, so a text of a POST that is still in    *)
(* the input is one that Fib.js has had no good answer for.                *)
FormSent ==
    /\ input <= typed
    /\ \A i \in DOMAIN posts :
          /\ posts[i].text <= typed
          /\ posts[i].text = input /\ input # F!Empty =>
                page = "fib" /\ posts[i].own /\ posts[i].state # "ok"

(* What a submission appends to the posts.                                 *)
LEMMA SendStep ==
    ASSUME FormType, F!Send(input)
    PROVE  /\ Len(posts) \in Nat /\ DOMAIN posts = 1..Len(posts)
           /\ Len(posts') = Len(posts) + 1
           /\ DOMAIN posts' = 1..(Len(posts) + 1)
           /\ \A i \in DOMAIN posts : posts'[i] = posts[i]
           /\ posts'[Len(posts')] =
                 [text |-> input, own |-> TRUE, state |-> "sent"]
<1>1. posts \in Seq(FormPost)
  BY DEF FormType
<1> DEFINE new == [text |-> input, own |-> TRUE, state |-> "sent"]
<1>2. posts' = Append(posts, new) /\ new \in FormPost
  BY DEF F!Send, FormType, FormPost, States
<1> HIDE DEF new
<1>3. /\ Len(posts) \in Nat /\ DOMAIN posts = 1..Len(posts)
      /\ Len(posts') = Len(posts) + 1
      /\ DOMAIN posts' = 1..(Len(posts) + 1)
      /\ \A i \in 1..Len(posts) : posts'[i] = posts[i]
      /\ posts'[Len(posts) + 1] = new
  BY <1>1, <1>2
<1> QED
  BY <1>3 DEF new

LEMMA SentStep ==
    ASSUME FormType, FormSent, F!Next
    PROVE  FormSent'
<1>0. /\ posts \in Seq(FormPost) /\ input \in Nat /\ typed \in Nat
      /\ \A i \in DOMAIN posts : posts[i] \in FormPost
  BY DEF FormType
<1>1. CASE F!Type \/ F!TypeTask
  <2>1. input' = typed + 1 /\ typed' = typed + 1 /\ posts' = posts
    BY <1>1 DEF F!Type, F!TypeTask, F!Typed
  <2> QED
    BY <1>0, <2>1 DEF FormSent, FormPost
<1>2. CASE F!HandleSubmit
  <2>1. UNCHANGED <<page, input, typed>> /\ page = "fib" /\ F!Send(input)
    BY <1>2 DEF F!HandleSubmit, F!history
  <2>2. ASSUME NEW i \in DOMAIN posts'
        PROVE  \/ i \in DOMAIN posts /\ posts'[i] = posts[i]
               \/ posts'[i] = [text |-> input, own |-> TRUE, state |-> "sent"]
    BY <2>1, <2>2, SendStep
  <2> QED
    BY <1>0, <2>1, <2>2 DEF FormSent
<1>3. CASE F!SubmitForm
  <2>1. UNCHANGED <<page, typed>> /\ input' = 0 /\ F!Send(input)
    BY <1>3 DEF F!SubmitForm, F!AddTask, F!history, F!Empty
  <2>2. ASSUME NEW i \in DOMAIN posts'
        PROVE  \/ i \in DOMAIN posts /\ posts'[i] = posts[i]
               \/ posts'[i] = [text |-> input, own |-> TRUE, state |-> "sent"]
    BY <2>1, <2>2, SendStep
  <2> QED
    BY <1>0, <2>1, <2>2 DEF FormSent, F!Empty
<1>4. ASSUME NEW i \in DOMAIN posts, F!Take(i) \/ F!Refuse(i) \/ F!Failed(i)
      PROVE  FormSent'
  <2>1. UNCHANGED <<page, input, typed>>
    BY <1>4 DEF F!Take, F!Refuse, F!Failed, F!history
  <2>2. PICK to \in {"taken", "refused", "failed"} :
           posts' = [posts EXCEPT ![i].state = to]
    BY <1>4 DEF F!Take, F!Refuse, F!Failed, F!Becomes
  <2>3. /\ DOMAIN posts' = DOMAIN posts
        /\ \A j \in DOMAIN posts :
              /\ posts'[j].text = posts[j].text /\ posts'[j].own = posts[j].own
              /\ posts'[j].state = posts[j].state \/ posts'[j].state = to
    BY <1>0, <2>2 DEF FormPost
  <2> QED
    BY <2>1, <2>3 DEF FormSent
<1>5. ASSUME NEW i \in DOMAIN posts, F!Answered(i)
      PROVE  FormSent'
  <2>1. UNCHANGED <<page, typed>>
    BY <1>5 DEF F!Answered, F!history
  <2>2. posts' = [posts EXCEPT ![i].state = "ok"]
    BY <1>5 DEF F!Answered, F!Becomes
  <2>3. /\ DOMAIN posts' = DOMAIN posts
        /\ \A j \in DOMAIN posts :
              /\ posts'[j].text = posts[j].text /\ posts'[j].own = posts[j].own
              /\ j # i => posts'[j].state = posts[j].state
    BY <1>0, <2>2 DEF FormPost
  <2>4. CASE page = "fib" /\ posts[i].own
    <3>1. input' = 0
      BY <1>5, <2>4 DEF F!Answered, F!Empty
    <3> QED
      BY <1>0, <2>1, <2>3, <3>1 DEF FormSent, F!Empty
  <2>5. CASE ~(page = "fib" /\ posts[i].own)
    <3>1. input' = input
      BY <1>5, <2>5 DEF F!Answered
    <3> QED
      BY <2>1, <2>3, <2>5, <3>1 DEF FormSent
  <2> QED
    BY <2>4, <2>5
<1>6. CASE F!Leave
  <2>1. /\ UNCHANGED <<page, typed>> /\ input' = 0
        /\ posts' = [i \in DOMAIN posts |-> [posts[i] EXCEPT !.own = FALSE]]
    BY <1>6 DEF F!Leave, F!Empty
  <2>2. DOMAIN posts' = DOMAIN posts
        /\ \A j \in DOMAIN posts : posts'[j].text = posts[j].text
    BY <1>0, <2>1 DEF FormPost
  <2> QED
    BY <1>0, <2>1, <2>2 DEF FormSent, F!Empty
<1>7. CASE UNCHANGED <<page, input, typed, posts>>
  BY <1>7 DEF FormSent
<1>8. F!Enter => UNCHANGED <<page, input, typed, posts>>
  BY DEF F!Enter, F!history
<1> QED
  BY <1>1, <1>2, <1>3, <1>4, <1>5, <1>6, <1>7, <1>8 DEF F!Next

LEMMA ResendStep ==
    ASSUME FormType, FormSent, F!Next, Len(posts') > Len(posts)
    PROVE  ~F!Resends
<1>1. posts \in Seq(FormPost)
  BY DEF FormType
<1>2. Len(posts) \in Nat
  BY <1>1
<1>3. F!Send(input)
  <2>1. CASE F!HandleSubmit \/ F!SubmitForm
    BY <2>1 DEF F!HandleSubmit, F!SubmitForm, F!AddTask
  <2>2. CASE \E i \in DOMAIN posts :
                F!Take(i) \/ F!Refuse(i) \/ F!Answered(i) \/ F!Failed(i)
    <3>1. PICK i \in DOMAIN posts, to \in States :
             posts' = [posts EXCEPT ![i].state = to]
      BY <2>2 DEF F!Take, F!Refuse, F!Answered, F!Failed, F!Becomes, States
    <3>2. Len(posts') = Len(posts)
      BY <1>1, <3>1
    <3> QED
      BY <1>2, <3>2
  <2>3. CASE F!Leave
    <3>1. Len([i \in DOMAIN posts |-> [posts[i] EXCEPT !.own = FALSE]])
             = Len(posts)
      BY <1>1, <1>2
    <3> QED
      BY <1>2, <2>3, <3>1 DEF F!Leave
  <2>4. CASE UNCHANGED posts
    BY <1>2, <2>4
  <2>5. F!Type \/ F!TypeTask \/ F!Enter => UNCHANGED posts
    BY DEF F!Type, F!TypeTask, F!Typed, F!Enter
  <2> QED
    BY <2>1, <2>2, <2>3, <2>4, <2>5 DEF F!Next
<1>4. posts'[Len(posts')].text = input
  BY <1>3, SendStep
<1> QED
  BY <1>4 DEF F!Resends, FormSent

(* NewTask sends no task twice, and Fib.js no text that an answer said was *)
(* taken, for any number of texts and submissions and whatever is lost.    *)
THEOREM NothingResent == Spec => NeverResent
<1> DEFINE A == Len(posts') > Len(posts) => ~F!Resends
           Inv == FormInv /\ FormSent
           all == <<which, collapseVars, carouselVars, formVars, userVars,
                    storyVars, goVars>>
<1>1. Init => Inv
  <2>1. F!Init => FormSent
    BY DEF F!Init, FormSent, F!Empty
  <2> QED
    BY <2>1, FormInit DEF Init
<1>2. Inv /\ [Next]_all => Inv'
  <2>1. ASSUME Inv, UNCHANGED formVars PROVE Inv'
    BY <2>1, FormUnchanged DEF FormSent, formVars
  <2>2. ASSUME Inv, F!Next PROVE Inv'
    BY <2>2, FormNext, SentStep DEF FormInv
  <2> QED
    BY <2>1, <2>2, Steps DEF formVars
<1>3. Inv /\ [Next]_all => [A]_(F!vars)
  <2>1. ASSUME Inv, F!Next PROVE A
    BY <2>1, ResendStep DEF FormInv
  <2>2. UNCHANGED formVars => UNCHANGED F!vars
    BY DEF formVars, F!vars, F!history
  <2> QED
    BY <2>1, <2>2, Steps DEF formVars
<1> HIDE DEF Inv
<1> QED
  BY <1>1, <1>2, <1>3, PTL DEF Spec, NeverResent, F!NeverResent

-----------------------------------------------------------------------------
(* The accordion.  Unless a click was hasty, every panel is in one of five *)
(* states, and all but the last are known to the panel's object.           *)
Waits(s, to, own) == DOMAIN s = {1} /\ s[1] = [to |-> to, own |-> own]

Resting(p) == pending[p] = <<>> /\ ~C!Busy(p)
Going(p, to) ==
    /\ class[p] = "collapsing" /\ object[p] = "child" /\ transitioning[p]
    /\ Waits(pending[p], to, TRUE)

Shut(p) == class[p] = "collapse" /\ Resting(p) /\ ~expanded[p]
Wide(p) == class[p] = "in" /\ Resting(p) /\ expanded[p]
Opens(p) == Going(p, "in") /\ expanded[p]
Closes(p) == Going(p, "collapse") /\ ~expanded[p]
Orphan(p) ==
    /\ class[p] = "collapsing" /\ object[p] = "none"
    /\ Waits(pending[p], "collapse", FALSE) /\ ~expanded[p]

(* The panel that is open in the HTML has an object only once its own      *)
(* trigger is clicked; until it is shut there is at most one object.       *)
Tidy ==
    /\ \A p \in C!Panels : object[p] \in {"none", "child"}
    /\ \A p \in C!Panels : Shut(p) \/ Wide(p) \/ Opens(p) \/ Closes(p) \/ Orphan(p)
    /\ \A p, q \in C!Panels :
          (Wide(p) \/ Opens(p)) /\ (Wide(q) \/ Opens(q)) => p = q
    /\ \A p, q \in C!Panels : Wide(p) /\ object[p] = "none" /\ p # q =>
          object[q] = "none" /\ Shut(q)
    /\ \A p, q \in C!Panels : Orphan(p) /\ p # q /\ object[q] = "none" => Shut(q)
    /\ \A p, q, r \in C!Panels :
          Orphan(p) /\ object[q] # "none" /\ object[r] # "none" => q = r

Domains ==
    /\ DOMAIN class = C!Panels /\ DOMAIN object = C!Panels
    /\ DOMAIN transitioning = C!Panels /\ DOMAIN pending = C!Panels
    /\ DOMAIN expanded = C!Panels

CollapseInv == Domains /\ (~hasty => Tidy)

(* What a step that does not touch panel q leaves as it was.               *)
Stays(q) ==
    /\ class'[q] = class[q] /\ object'[q] = object[q]
    /\ transitioning'[q] <=> transitioning[q]
    /\ pending'[q] = pending[q]
    /\ expanded'[q] <=> expanded[q]

LEMMA StaysSame ==
    ASSUME NEW q, Stays(q)
    PROVE  /\ Shut(q)' <=> Shut(q)
           /\ Wide(q)' <=> Wide(q)
           /\ Opens(q)' <=> Opens(q)
           /\ Closes(q)' <=> Closes(q)
           /\ Orphan(q)' <=> Orphan(q)
BY DEF Stays, Shut, Wide, Opens, Closes, Orphan, Resting, Going, C!Busy

(* The states exclude each other.                                          *)
LEMMA Exclusive ==
    ASSUME NEW p
    PROVE  /\ Shut(p) => ~Wide(p) /\ ~Opens(p) /\ ~Closes(p) /\ ~Orphan(p)
           /\ Wide(p) => ~Opens(p) /\ ~Closes(p) /\ ~Orphan(p)
           /\ Opens(p) => ~Closes(p) /\ ~Orphan(p)
           /\ Closes(p) => ~Orphan(p)
BY DEF Shut, Wide, Opens, Closes, Orphan, Going

LEMMA OneWaits ==
    ASSUME NEW to, NEW s, s = <<>>
    PROVE  Waits(Append(s, [to |-> to, own |-> TRUE]), to, TRUE)
<1> DEFINE r == [to |-> to, own |-> TRUE]
<1>1. Append(<<>>, r) = <<r>>
  OBVIOUS
<1>2. DOMAIN <<r>> = {1} /\ <<r>>[1] = r
  OBVIOUS
<1> QED
  BY <1>1, <1>2 DEF Waits

LEMMA Overwritten ==
    ASSUME NEW to, NEW own, NEW new
    PROVE  [[to |-> to, own |-> own] EXCEPT !.own = new] = [to |-> to, own |-> new]
OBVIOUS

LEMMA OrphanWaits ==
    ASSUME NEW to, NEW own, NEW s, Waits(s, to, own)
    PROVE  Waits(C!Orphaned(s), to, FALSE)
<1> DEFINE r == [to |-> to, own |-> own]
           t == [to |-> to, own |-> FALSE]
<1>1. [r EXCEPT !.own = FALSE] = t
  BY Overwritten
<1> HIDE DEF r, t
<1>2. DOMAIN s = {1} /\ s[1] = r
  BY DEF Waits, r
<1>3. C!Orphaned(s) = [i \in {1} |-> [s[i] EXCEPT !.own = FALSE]]
  BY <1>2 DEF C!Orphaned
<1>4. DOMAIN C!Orphaned(s) = {1} /\ C!Orphaned(s)[1] = t
  BY <1>1, <1>2, <1>3
<1> QED
  BY <1>4 DEF Waits, t

LEMMA FirstActive ==
    ASSUME C!Actives # {}
    PROVE  C!First \in C!Actives
<1> DEFINE A == C!Actives
<1>1. A \subseteq Nat
  BY ProgramsAssumption DEF C!Actives, C!Panels
<1>2. PICK n \in A : \A m \in A : <<m, n>> \notin OpToRel(<, Nat)
  <2> HIDE DEF A
  <2> QED
    BY <1>1, NatLessThanWellFounded, WFMin DEF A
<1>3. \A m \in A : ~(m < n)
  <2> HIDE DEF A
  <2> QED
    BY <1>1, <1>2 DEF OpToRel
<1>4. \A m \in A : n <= m
  <2> HIDE DEF A
  <2> QED
    BY <1>1, <1>3
<1> QED
  BY <1>4 DEF C!First

(* A step that leaves the other panels alone, and takes one of them from a *)
(* resting state or to one, keeps the accordion tidy.                      *)
LEMMA TidyOne ==
    ASSUME Tidy, NEW p \in C!Panels,
           \A q \in C!Panels \ {p} : Stays(q),
           object'[p] = "child",
           object[p] = "none" => \A q \in C!Panels \ {p} : Shut(q),
           \/ Shut(p)' \/ Closes(p)'
           \/ Wide(p)' /\ Opens(p)
           \/ Opens(p)' /\ \A q \in C!Panels : ~Wide(q) /\ ~Opens(q)
    PROVE  Tidy'
<1>1. \A q \in C!Panels : object'[q] \in {"none", "child"}
  BY DEF Tidy, Stays
<1>2. \A q \in C!Panels :
         Shut(q)' \/ Wide(q)' \/ Opens(q)' \/ Closes(q)' \/ Orphan(q)'
  BY StaysSame DEF Tidy
<1>3. ASSUME NEW q \in C!Panels, (Wide(q) \/ Opens(q))', q # p
      PROVE  (Wide(q) \/ Opens(q)) /\ ~(Wide(p) \/ Opens(p))'
  <2>1. Wide(q) \/ Opens(q)
    BY <1>3, StaysSame
  <2>2. ~Wide(p) /\ ~Opens(p)
    BY <1>3, <2>1 DEF Tidy
  <2>3. Shut(p)' \/ Closes(p)'
    BY <1>3, <2>1, <2>2
  <2>4. /\ Shut(p)' => ~Wide(p)' /\ ~Opens(p)'
        /\ Closes(p)' => ~Wide(p)' /\ ~Opens(p)'
    BY DEF Shut, Wide, Opens, Closes, Going
  <2> QED
    BY <2>1, <2>3, <2>4
<1>4. \A q, r \in C!Panels :
         (Wide(q) \/ Opens(q))' /\ (Wide(r) \/ Opens(r))' => q = r
  BY <1>3 DEF Tidy
<1>5. ASSUME NEW q \in C!Panels, q # p
      PROVE  /\ Wide(q)' /\ object'[q] = "none" =>
                   Wide(q) /\ object[q] = "none" /\ Shut(p)'
             /\ object'[q] = object[q]
  <2>1. object'[q] = object[q]
    BY <1>5 DEF Stays
  <2>2. ASSUME Wide(q)', object'[q] = "none"
        PROVE  Wide(q) /\ Shut(p)
    <3>1. Wide(q)
      BY <1>5, <2>2, StaysSame
    <3> QED
      BY <1>5, <2>1, <2>2, <3>1 DEF Tidy
  <2>3. ASSUME Wide(q)', object'[q] = "none"
        PROVE  FALSE
    <3>1. Wide(q) /\ object[p] = "none"
      BY <1>5, <2>1, <2>2, <2>3 DEF Tidy
    <3> QED
      BY <1>5, <3>1, Exclusive
  <2> QED
    BY <2>1, <2>2, <2>3
<1>6. \A q, r \in C!Panels : Wide(q)' /\ object'[q] = "none" /\ q # r =>
         object'[r] = "none" /\ Shut(r)'
  <2> SUFFICES ASSUME NEW q \in C!Panels, Wide(q)', object'[q] = "none"
               PROVE  FALSE
    OBVIOUS
  <2>1. q # p /\ Wide(q) /\ object[q] = "none"
    BY <1>5
  <2>2. object[p] = "none"
    BY <2>1 DEF Tidy
  <2> QED
    BY <2>1, <2>2, Exclusive
<1>7. ASSUME NEW q \in C!Panels, Orphan(q)'
      PROVE  q # p /\ Orphan(q) /\ object[p] = "child"
  <2>1. q # p
    BY <1>7 DEF Orphan
  <2>2. Orphan(q)
    BY <1>7, <2>1, StaysSame
  <2>3. object[p] # "none"
    BY <2>1, <2>2, Exclusive
  <2> QED
    BY <2>1, <2>2, <2>3 DEF Tidy
<1>8. \A q, r \in C!Panels :
         Orphan(q)' /\ q # r /\ object'[r] = "none" => Shut(r)'
  <2> SUFFICES ASSUME NEW q \in C!Panels, NEW r \in C!Panels, Orphan(q)',
                      q # r, object'[r] = "none"
               PROVE  Shut(r)'
    OBVIOUS
  <2>1. r # p /\ Orphan(q)
    BY <1>7
  <2>2. object[r] = "none"
    BY <1>5, <2>1
  <2>3. Shut(r)
    BY <2>1, <2>2 DEF Tidy
  <2> QED
    BY <2>1, <2>3, StaysSame
<1>9. \A q, r, s \in C!Panels :
         Orphan(q)' /\ object'[r] # "none" /\ object'[s] # "none" => r = s
  <2> SUFFICES ASSUME NEW q \in C!Panels, NEW r \in C!Panels, Orphan(q)',
                      object'[r] # "none"
               PROVE  r = p
    OBVIOUS
  <2>1. Orphan(q) /\ object[p] = "child"
    BY <1>7
  <2>2. r = p \/ object[r] # "none"
    BY <1>5
  <2> QED
    BY <2>1, <2>2 DEF Tidy
<1> QED
  BY <1>1, <1>2, <1>4, <1>6, <1>8, <1>9 DEF Tidy

LEMMA HideTidy ==
    ASSUME Domains, Tidy, NEW p \in C!Panels, C!Hide(p)
    PROVE  Tidy'
<1>1. Wide(p)
  BY DEF C!Hide, C!IsIn, Tidy, Shut, Opens, Closes, Orphan, Going
<1>2. object[p] = "none" => \A q \in C!Panels \ {p} : Shut(q)
  BY <1>1 DEF Tidy
<1>3. object'[p] = "child"
  BY DEF C!Hide, C!Kind, Domains, Tidy
<1>4. ASSUME NEW q \in C!Panels \ {p}
      PROVE  Stays(q)
  <2>1. /\ class'[q] = class[q] /\ object'[q] = object[q]
        /\ transitioning'[q] = transitioning[q] /\ pending'[q] = pending[q]
    BY DEF C!Hide, Domains
  <2>2. expanded'[q] = C!Labels(p)[q]
    <3>1. q \in DOMAIN C!Labels(p)
      BY DEF C!Labels, Domains
    <3> QED
      BY <3>1 DEF C!Hide
  <2>3. C!Labels(p)[q] <=> expanded[q]
    <3>1. CASE object[p] = "none"
      BY <1>2, <3>1 DEF C!Labels, C!IsIn, Shut
    <3>2. CASE object[p] # "none"
      BY <3>2 DEF C!Labels
    <3> QED
      BY <3>1, <3>2
  <2> QED
    BY <2>1, <2>2, <2>3 DEF Stays
<1>5. Closes(p)'
  <2>1. Waits(pending'[p], "collapse", TRUE)
    BY <1>1, OneWaits DEF C!Hide, C!Wait, Domains, Wide, Resting
  <2>2. ~expanded'[p]
    <3>1. p \in DOMAIN C!Labels(p)
      BY DEF C!Labels, Domains
    <3> QED
      BY <3>1 DEF C!Hide
  <2>3. class'[p] = "collapsing" /\ transitioning'[p]
    BY DEF C!Hide, Domains
  <2> QED
    BY <1>3, <2>1, <2>2, <2>3 DEF Closes, Going
<1> QED
  BY <1>2, <1>3, <1>4, <1>5, TidyOne

LEMMA ShowAloneTidy ==
    ASSUME Domains, Tidy, NEW p \in C!Panels, C!ShowAlone(p)
    PROVE  Tidy'
<1>1. C!Actives = {}
  BY DEF C!ShowAlone, C!Kind, Tidy
<1>2. \A q \in C!Panels : Shut(q)
  BY <1>1 DEF C!Actives, Tidy, Wide, Opens, Closes, Orphan, Going
<1>3. object'[p] = "child"
  BY DEF C!ShowAlone, C!Kind, Domains, Tidy
<1>4. ASSUME NEW q \in C!Panels \ {p}
      PROVE  Stays(q)
  <2>1. /\ class'[q] = class[q] /\ object'[q] = object[q]
        /\ transitioning'[q] = transitioning[q] /\ pending'[q] = pending[q]
    BY DEF C!ShowAlone, Domains
  <2>2. expanded'[q] = C!Labels(p)[q]
    <3>1. q \in DOMAIN C!Labels(p)
      BY DEF C!Labels, Domains
    <3> QED
      BY <3>1 DEF C!ShowAlone
  <2>3. C!Labels(p)[q] <=> expanded[q]
    BY <1>2 DEF C!Labels, C!IsIn, Shut
  <2> QED
    BY <2>1, <2>2, <2>3 DEF Stays
<1>5. Opens(p)'
  <2>1. Waits(pending'[p], "in", TRUE)
    BY <1>2, OneWaits DEF C!ShowAlone, C!Wait, Domains, Shut, Resting
  <2>2. expanded'[p]
    <3>1. p \in DOMAIN C!Labels(p)
      BY DEF C!Labels, Domains
    <3> QED
      BY <3>1 DEF C!ShowAlone
  <2>3. class'[p] = "collapsing" /\ transitioning'[p]
    BY DEF C!ShowAlone, Domains
  <2> QED
    BY <1>3, <2>1, <2>2, <2>3 DEF Opens, Going
<1>6. \A q \in C!Panels : ~Wide(q) /\ ~Opens(q)
  BY <1>2, Exclusive
<1> QED
  BY <1>2, <1>3, <1>4, <1>5, <1>6, TidyOne

LEMMA IgnoredTidy ==
    ASSUME Domains, Tidy, NEW p \in C!Panels, C!Ignored(p), ~hasty'
    PROVE  Tidy'
<1>1. object[p] # "none"
  <2> SUFFICES ASSUME object[p] = "none" PROVE FALSE
    OBVIOUS
  <2>1. C!Actives # {} /\ C!Busy(C!First)
    BY DEF C!Ignored, C!Busy, C!Blocked
  <2>2. C!First \in C!Panels
    BY <2>1, FirstActive DEF C!Actives
  <2>3. class[C!First] = "collapsing"
    BY <2>1, <2>2 DEF Tidy, Shut, Wide, Opens, Closes, Orphan, Resting, Going
  <2> QED
    BY <2>2, <2>3 DEF C!Ignored, C!Clicked
<1>2. ASSUME NEW q \in C!Panels
      PROVE  Stays(q)
  BY <1>1 DEF C!Ignored, C!Kind, C!Labels, Domains, Stays
<1>3. \A q \in C!Panels :
         /\ Shut(q)' <=> Shut(q)
         /\ Wide(q)' <=> Wide(q)
         /\ Opens(q)' <=> Opens(q)
         /\ Closes(q)' <=> Closes(q)
         /\ Orphan(q)' <=> Orphan(q)
         /\ object'[q] = object[q]
  BY <1>2, StaysSame DEF Stays
<1> QED
  BY <1>3 DEF Tidy

LEMMA EndTidy ==
    ASSUME Domains, Tidy, NEW p \in C!Panels, C!TransitionEnd(p)
    PROVE  Tidy'
<1>1. ASSUME NEW q \in C!Panels \ {p}
      PROVE  Stays(q)
  BY DEF C!TransitionEnd, Domains, Stays
<1>2. object'[p] = object[p] /\ (expanded'[p] <=> expanded[p]) /\ pending'[p] = <<>>
  BY DEF C!TransitionEnd, Domains
<1>3. Opens(p) \/ Closes(p) \/ Orphan(p)
  BY DEF C!TransitionEnd, Tidy, Shut, Wide, Resting
<1>4. CASE Opens(p)
  <2>1. DOMAIN pending[p] = {1} /\ pending[p][1].to = "in" /\ pending[p][1].own
    BY <1>4 DEF Opens, Going, Waits
  <2>2. class'[p] = "in" /\ ~transitioning'[p]
    BY <2>1 DEF C!TransitionEnd, Domains
  <2>3. Wide(p)' /\ object'[p] = "child"
    BY <1>2, <1>4, <2>2 DEF Wide, Opens, Going, Resting, C!Busy
  <2> QED
    BY <1>1, <1>2, <1>4, <2>3, TidyOne
<1>5. CASE Closes(p)
  <2>1. DOMAIN pending[p] = {1} /\ pending[p][1].to = "collapse" /\ pending[p][1].own
    BY <1>5 DEF Closes, Going, Waits
  <2>2. class'[p] = "collapse" /\ ~transitioning'[p]
    BY <2>1 DEF C!TransitionEnd, Domains
  <2>3. Shut(p)' /\ object'[p] = "child"
    BY <1>2, <1>5, <2>2 DEF Shut, Closes, Going, Resting, C!Busy
  <2> QED
    BY <1>1, <1>2, <1>5, <2>3, TidyOne
<1>6. CASE Orphan(p)
  <2>1. DOMAIN pending[p] = {1} /\ pending[p][1].to = "collapse"
    BY <1>6 DEF Orphan, Waits
  <2>2. class'[p] = "collapse"
    BY <2>1 DEF C!TransitionEnd, Domains
  <2>3. Shut(p)' /\ ~Wide(p)' /\ ~Opens(p)' /\ ~Orphan(p)' /\ object[p] = "none"
    BY <1>2, <1>6, <2>2 DEF Shut, Wide, Opens, Orphan, Going, Resting, C!Busy
  <2>4. \A q \in C!Panels \ {p} :
           /\ Shut(q)' <=> Shut(q)
           /\ Wide(q)' <=> Wide(q)
           /\ Opens(q)' <=> Opens(q)
           /\ Closes(q)' <=> Closes(q)
           /\ Orphan(q)' <=> Orphan(q)
    BY <1>1, StaysSame
  <2>5. \A q \in C!Panels : object'[q] = object[q]
    BY <1>1, <1>2 DEF Stays
  <2>6. /\ \A q \in C!Panels : object'[q] \in {"none", "child"}
        /\ \A q \in C!Panels :
              Shut(q)' \/ Wide(q)' \/ Opens(q)' \/ Closes(q)' \/ Orphan(q)'
    BY <2>3, <2>4, <2>5 DEF Tidy
  <2>7. \A q, r \in C!Panels :
           (Wide(q) \/ Opens(q))' /\ (Wide(r) \/ Opens(r))' => q = r
    BY <2>3, <2>4 DEF Tidy
  <2>8. \A q, r \in C!Panels : Wide(q)' /\ object'[q] = "none" /\ q # r =>
           object'[r] = "none" /\ Shut(r)'
    BY <2>3, <2>4, <2>5 DEF Tidy
  <2>9. \A q, r \in C!Panels :
           Orphan(q)' /\ q # r /\ object'[r] = "none" => Shut(r)'
    BY <2>3, <2>4, <2>5 DEF Tidy
  <2>10. \A q, r, s \in C!Panels :
           Orphan(q)' /\ object'[r] # "none" /\ object'[s] # "none" => r = s
    BY <2>3, <2>4, <2>5 DEF Tidy
  <2> QED
    BY <2>6, <2>7, <2>8, <2>9, <2>10 DEF Tidy
<1> QED
  BY <1>3, <1>4, <1>5, <1>6

(* What show() does when it finds active panels: to p, to the first of     *)
(* them, and to the rest.                                                  *)
LEMMA AmongCalm ==
    ASSUME Domains, Tidy, NEW p \in C!Panels, C!ShowAmong(p), ~hasty'
    PROVE  /\ Shut(p) /\ C!First \in C!Panels /\ C!First # p
           /\ C!First \in C!Actives /\ p \notin C!Actives
           /\ \/ Wide(C!First)
              \/ Orphan(C!First) /\ object[p] = "child"
           /\ object[p] = "none" => \A q \in C!Panels : Shut(q) \/ Wide(q)
<1> DEFINE f == C!First
<1>1. f \in C!Actives /\ f \in C!Panels
  BY FirstActive DEF C!ShowAmong, C!Actives
<1> HIDE DEF f
<1>2. object[p] = "none" => \A q \in C!Panels : class[q] # "collapsing"
  BY DEF C!ShowAmong, C!Clicked
<1>3. Shut(p)
  <2>1. ~Wide(p) /\ ~Opens(p) /\ ~Closes(p)
    BY DEF C!ShowAmong, C!IsIn, Wide, Opens, Closes, Going, C!Busy
  <2>2. ~Orphan(p)
    BY <1>2 DEF Orphan
  <2> QED
    BY <2>1, <2>2 DEF Tidy
<1>4. p \notin C!Actives
  BY <1>3 DEF Shut, C!Actives
<1>5. ~C!Busy(f)
  BY DEF C!ShowAmong, C!Blocked, f
<1>6. Wide(f) \/ Orphan(f)
  <2>1. ~Opens(f) /\ ~Closes(f)
    BY <1>5 DEF Opens, Closes, Going, C!Busy
  <2>2. ~Shut(f)
    BY <1>1 DEF Shut, C!Actives
  <2> QED
    BY <1>1, <2>1, <2>2 DEF Tidy
<1>7. Orphan(f) => object[p] = "child"
  BY <1>1, <1>2 DEF Orphan, Tidy
<1>8. object[p] = "none" => \A q \in C!Panels : Shut(q) \/ Wide(q)
  BY <1>2 DEF Tidy, Opens, Closes, Going, Orphan
<1> QED
  BY <1>1, <1>3, <1>4, <1>6, <1>7, <1>8 DEF f

LEMMA AmongOpens ==
    ASSUME Domains, Tidy, NEW p \in C!Panels, C!ShowAmong(p), ~hasty'
    PROVE  Opens(p)' /\ object'[p] = "child"
<1>1. Shut(p) /\ p \notin C!Actives
  BY AmongCalm
<1> DEFINE others == C!Actives \ {p}
           loses  == IF object[C!First] # "none" THEN {}
                     ELSE IF object[p] = "none" THEN others ELSE C!Actives
<1>2. p \notin loses
  BY <1>1
<1>3. /\ class'[p] = "collapsing" /\ object'[p] = "child"
      /\ pending'[p] = C!Wait(p, "in")
  BY <1>2 DEF C!ShowAmong, C!Kind
<1>4. transitioning'[p]
  BY <1>2 DEF C!ShowAmong
<1>5. expanded'[p]
  BY DEF C!ShowAmong
<1>6. Waits(pending'[p], "in", TRUE)
  BY <1>1, <1>3, OneWaits DEF C!Wait, Shut, Resting
<1> QED
  BY <1>3, <1>4, <1>5, <1>6 DEF Opens, Going

LEMMA AmongFirst ==
    ASSUME Domains, Tidy, NEW p \in C!Panels, C!ShowAmong(p), ~hasty',
           NEW f, f = C!First
    PROVE  /\ object[f] # "none" => Closes(f)' /\ object'[f] = "child"
           /\ object[f] = "none" => Orphan(f)'
<1>1. /\ f \in C!Panels /\ f # p /\ f \in C!Actives
      /\ Wide(f) \/ Orphan(f)
      /\ object[f] \in {"none", "child"}
  BY AmongCalm DEF Tidy
<1> DEFINE hidden == {q \in C!Actives \ {p} : C!IsIn(q) /\ ~C!Busy(q)}
<1>2. Wide(f) => f \in hidden
  BY <1>1 DEF Wide, Resting, C!IsIn
<1>3. Orphan(f) => f \notin hidden /\ object[f] = "none"
  BY DEF Orphan, C!IsIn
<1>4. CASE object[f] # "none"
  <2>1. Wide(f) /\ f \in hidden
    BY <1>1, <1>2, <1>3, <1>4
  <2>2. /\ class'[f] = "collapsing" /\ object'[f] = "child"
        /\ pending'[f] = C!Wait(f, "collapse")
    BY <1>1, <1>4, <2>1 DEF C!ShowAmong
  <2>3. transitioning'[f]
    BY <1>1, <1>4, <2>1 DEF C!ShowAmong
  <2>4. ~expanded'[f]
    BY <1>1, <2>1 DEF C!ShowAmong
  <2>5. Waits(pending'[f], "collapse", TRUE)
    BY <2>1, <2>2, OneWaits DEF C!Wait, Wide, Resting
  <2> QED
    BY <1>4, <2>2, <2>3, <2>4, <2>5 DEF Closes, Going
<1>5. CASE object[f] = "none"
  <2>1. object'[f] = "none"
    BY <1>1, <1>5 DEF C!ShowAmong
  <2>2. CASE Wide(f)
    <3>1. f \in hidden
      BY <1>2, <2>2
    <3>2. /\ class'[f] = "collapsing"
          /\ pending'[f] = C!Orphaned(C!Wait(f, "collapse"))
      BY <1>1, <1>5, <3>1 DEF C!ShowAmong
    <3>3. ~expanded'[f]
      BY <1>1, <3>1 DEF C!ShowAmong
    <3>4. Waits(pending'[f], "collapse", FALSE)
      BY <2>2, <3>2, OneWaits, OrphanWaits DEF C!Wait, Wide, Resting
    <3> QED
      BY <1>5, <2>1, <3>2, <3>3, <3>4 DEF Orphan
  <2>3. CASE Orphan(f)
    <3>1. f \notin hidden
      BY <1>3, <2>3
    <3>2. /\ class'[f] = "collapsing"
          /\ pending'[f] = C!Orphaned(pending[f])
      BY <1>1, <1>5, <2>3, <3>1 DEF C!ShowAmong, Orphan
    <3>3. ~expanded'[f]
      <4>1. expanded'[f] = C!IsIn(f)
        BY <1>1, <1>5, <3>1 DEF C!ShowAmong
      <4> QED
        BY <2>3, <4>1 DEF C!IsIn, Orphan
    <3>4. Waits(pending'[f], "collapse", FALSE)
      BY <2>3, <3>2, OrphanWaits DEF Orphan
    <3> QED
      BY <1>5, <2>1, <3>2, <3>3, <3>4 DEF Orphan
  <2> QED
    BY <1>1, <1>5, <2>2, <2>3
<1> QED
  BY <1>4, <1>5

LEMMA AmongRest ==
    ASSUME Domains, Tidy, NEW p \in C!Panels, C!ShowAmong(p), ~hasty',
           NEW f, f = C!First, NEW q \in C!Panels, q # p, q # f
    PROVE  /\ Stays(q) /\ ~Wide(q) /\ ~Opens(q) /\ ~Orphan(q)
           /\ object[f] = "none" => Shut(q) /\ object[q] = "none"
<1>1. /\ f \in C!Panels /\ f # p /\ f \in C!Actives /\ p \notin C!Actives
      /\ Wide(f) \/ (Orphan(f) /\ object[p] = "child")
      /\ object[p] = "none" => \A r \in C!Panels : Shut(r) \/ Wide(r)
  BY AmongCalm
<1>2. object[f] = "none" => Shut(q) /\ object[q] = "none"
  <2> SUFFICES ASSUME object[f] = "none" PROVE Shut(q) /\ object[q] = "none"
    OBVIOUS
  <2>1. CASE Wide(f)
    BY <1>1, <2>1 DEF Tidy
  <2>2. CASE Orphan(f)
    <3>1. object[q] = "none"
      BY <1>1, <2>2 DEF Tidy, Orphan
    <3> QED
      BY <1>1, <2>2, <3>1 DEF Tidy
  <2> QED
    BY <1>1, <2>1, <2>2
<1>3. object[f] # "none" => ~Orphan(q) /\ ~Opens(q) /\ ~Wide(q)
  <2> SUFFICES ASSUME object[f] # "none"
               PROVE  ~Orphan(q) /\ ~Opens(q) /\ ~Wide(q)
    OBVIOUS
  <2>1. Wide(f)
    BY <1>1 DEF Orphan
  <2>2. ~Opens(q) /\ ~Wide(q)
    BY <1>1, <2>1 DEF Tidy
  <2>3. ASSUME Orphan(q) PROVE FALSE
    <3>1. object[p] = "child"
      BY <1>1, <2>3, Exclusive DEF Tidy
    <3> QED
      BY <1>1, <2>3, <3>1 DEF Tidy
  <2> QED
    BY <2>2, <2>3
<1>4. ~Wide(q) /\ ~Opens(q) /\ ~Orphan(q)
  BY <1>2, <1>3, Exclusive
<1>5. Shut(q) \/ (Closes(q) /\ object[f] # "none")
  <2>1. Shut(q) \/ Closes(q)
    BY <1>4 DEF Tidy
  <2> QED
    BY <1>2, <2>1
<1>6. C!Labels(p)[q] <=> expanded[q]
  <2>1. CASE object[p] = "none"
    <3>1. Shut(q)
      BY <1>1, <1>4, <2>1
    <3> QED
      BY <2>1, <3>1 DEF C!Labels, C!IsIn, Shut
  <2>2. CASE object[p] # "none"
    BY <2>2 DEF C!Labels
  <2> QED
    BY <2>1, <2>2
<1>7. ~C!IsIn(q)
  BY <1>5 DEF Shut, Closes, Going, C!IsIn
<1>8. q \notin C!Actives \/ (object[f] # "none" /\ object[q] = "child")
  BY <1>5 DEF Shut, Closes, Going, C!Actives
<1>9. /\ class'[q] = class[q] /\ object'[q] = object[q]
      /\ pending'[q] = pending[q]
  BY <1>1, <1>7, <1>8 DEF C!ShowAmong
<1>10. transitioning'[q] <=> transitioning[q]
  BY <1>1, <1>7, <1>8 DEF C!ShowAmong
<1>11. expanded'[q] = C!Labels(p)[q]
  BY <1>1, <1>7, <1>8 DEF C!ShowAmong
<1> QED
  BY <1>2, <1>4, <1>6, <1>9, <1>10, <1>11 DEF Stays

LEMMA ShowAmongTidy ==
    ASSUME Domains, Tidy, NEW p \in C!Panels, C!ShowAmong(p), ~hasty'
    PROVE  Tidy'
<1>1. PICK f \in C!Panels : f = C!First /\ f # p
  BY AmongCalm
<1>2. Opens(p)' /\ object'[p] = "child"
  BY AmongOpens
<1>3. /\ object[f] # "none" => Closes(f)' /\ object'[f] = "child"
      /\ object[f] = "none" => Orphan(f)' /\ object'[f] = "none"
  BY <1>1, AmongFirst DEF Orphan
<1>4. ASSUME NEW q \in C!Panels, q # p, q # f
      PROVE  /\ Shut(q)' \/ Closes(q)'
             /\ object'[q] = object[q] /\ object[q] \in {"none", "child"}
             /\ object[f] = "none" => Shut(q)' /\ object'[q] = "none"
  <2>1. /\ Stays(q) /\ ~Wide(q) /\ ~Opens(q) /\ ~Orphan(q)
        /\ object[f] = "none" => Shut(q) /\ object[q] = "none"
    BY <1>1, <1>4, AmongRest
  <2>2. Shut(q) \/ Closes(q)
    BY <2>1 DEF Tidy
  <2>3. (Shut(q)' <=> Shut(q)) /\ (Closes(q)' <=> Closes(q))
    BY <2>1, StaysSame
  <2> QED
    BY <2>1, <2>2, <2>3 DEF Stays, Tidy
<1>5. \A q \in C!Panels :
         /\ Shut(q)' => ~Wide(q)' /\ ~Opens(q)' /\ ~Closes(q)' /\ ~Orphan(q)'
         /\ Opens(q)' => ~Wide(q)' /\ ~Closes(q)' /\ ~Orphan(q)'
         /\ Closes(q)' => ~Wide(q)' /\ ~Opens(q)' /\ ~Orphan(q)'
         /\ Orphan(q)' => ~Wide(q)' /\ ~Opens(q)' /\ ~Shut(q)'
  BY DEF Shut, Wide, Opens, Closes, Orphan, Going
<1>6. \A q \in C!Panels : ~Wide(q)' /\ (Opens(q)' => q = p)
  BY <1>2, <1>3, <1>4, <1>5
<1>7. \A q \in C!Panels : Orphan(q)' => q = f /\ object[f] = "none"
  BY <1>2, <1>3, <1>4, <1>5
<1>8. /\ \A q \in C!Panels : object'[q] \in {"none", "child"}
      /\ \A q \in C!Panels :
            Shut(q)' \/ Wide(q)' \/ Opens(q)' \/ Closes(q)' \/ Orphan(q)'
  BY <1>2, <1>3, <1>4
<1>9. \A q, r \in C!Panels :
         Orphan(q)' /\ q # r /\ object'[r] = "none" => Shut(r)'
  BY <1>2, <1>4, <1>7
<1>10. \A q, r, s \in C!Panels :
         Orphan(q)' /\ object'[r] # "none" /\ object'[s] # "none" => r = s
  <2>1. object[f] = "none" => \A r \in C!Panels : object'[r] # "none" => r = p
    BY <1>3, <1>4
  <2> QED
    BY <1>7, <2>1
<1> QED
  BY <1>6, <1>8, <1>9, <1>10 DEF Tidy

LEMMA DomainsStep ==
    ASSUME Domains, C!Next
    PROVE  Domains'
<1>1. PICK p \in C!Panels : C!Click(p) \/ C!TransitionEnd(p)
  BY DEF C!Next
<1> USE DEF Domains
<1>2. CASE C!Hide(p)
  BY <1>2 DEF C!Hide, C!Labels
<1>3. CASE C!ShowAlone(p)
  BY <1>3 DEF C!ShowAlone, C!Labels
<1>4. CASE C!ShowAmong(p)
  BY <1>4 DEF C!ShowAmong
<1>5. CASE C!Ignored(p)
  BY <1>5 DEF C!Ignored, C!Labels
<1>6. CASE C!TransitionEnd(p)
  BY <1>6 DEF C!TransitionEnd
<1> QED
  BY <1>1, <1>2, <1>3, <1>4, <1>5, <1>6 DEF C!Click

LEMMA CollapseStep ==
    ASSUME CollapseInv, C!Next
    PROVE  CollapseInv'
<1> SUFFICES ASSUME ~hasty' PROVE Tidy'
  BY DomainsStep DEF CollapseInv
<1>1. PICK p \in C!Panels : C!Click(p) \/ C!TransitionEnd(p)
  BY DEF C!Next
<1>2. ~hasty
  BY <1>1 DEF C!Click, C!Hide, C!ShowAlone, C!ShowAmong, C!Ignored, C!Clicked,
     C!TransitionEnd
<1>3. Domains /\ Tidy
  BY <1>2 DEF CollapseInv
<1> QED
  BY <1>1, <1>3, HideTidy, ShowAloneTidy, ShowAmongTidy, IgnoredTidy, EndTidy
  DEF C!Click

LEMMA CollapseInit == C!Init => CollapseInv
<1> SUFFICES ASSUME C!Init PROVE CollapseInv
  OBVIOUS
<1>1. Domains
  BY DEF C!Init, Domains
<1>2. \A p \in C!Panels :
         /\ class[p] \in {"collapse", "in"} /\ object[p] = "none"
         /\ pending[p] = <<>> /\ (expanded[p] <=> class[p] = "in")
  BY DEF C!Init
<1>3. \A p, q \in C!Panels : class[p] = "in" /\ class[q] = "in" => p = q
  BY DEF C!Init
<1>4. \A p \in C!Panels : ~Opens(p) /\ ~Orphan(p) /\ (Shut(p) \/ Wide(p))
  BY <1>2 DEF Opens, Orphan, Going, Shut, Wide, Resting, C!Busy
<1>5. \A p \in C!Panels : Wide(p) => class[p] = "in"
  BY DEF Wide
<1>6. Tidy
  BY <1>2, <1>3, <1>4, <1>5 DEF Tidy
<1> QED
  BY <1>1, <1>6 DEF CollapseInv

LEMMA TidyShows == Tidy => C!OneOpen
<1> SUFFICES ASSUME Tidy PROVE C!OneOpen
  OBVIOUS
<1>1. ASSUME NEW p \in C!Panels, C!IsIn(p) \/ C!Opening(p)
      PROVE  Wide(p) \/ Opens(p)
  <2>1. CASE C!IsIn(p)
    BY <2>1 DEF C!IsIn, Tidy, Shut, Opens, Closes, Orphan, Going
  <2>2. CASE C!Opening(p)
    <3>1. PICK i \in DOMAIN pending[p] : pending[p][i].to = "in"
      BY <2>2 DEF C!Opening
    <3>2. ~Shut(p)
      BY <2>2 DEF C!Opening, Shut
    <3>3. ~Closes(p)
      BY <3>1 DEF Closes, Going, Waits
    <3>4. ~Orphan(p)
      BY <3>1 DEF Orphan, Waits
    <3> QED
      BY <3>2, <3>3, <3>4 DEF Tidy
  <2> QED
    BY <1>1, <2>1, <2>2
<1>2. ASSUME NEW p \in C!Panels, pending[p] = <<>>
      PROVE  expanded[p] <=> C!IsIn(p)
  <2>1. Shut(p) \/ Wide(p)
    BY <1>2 DEF Tidy, Opens, Closes, Orphan, Going, Waits
  <2> QED
    BY <2>1 DEF Shut, Wide, C!IsIn
<1>3. \A p, q \in C!Panels :
         (C!IsIn(p) \/ C!Opening(p)) /\ (C!IsIn(q) \/ C!Opening(q)) => p = q
  BY <1>1 DEF Tidy
<1> QED
  BY <1>2, <1>3 DEF C!OneOpen

(* Until a trigger is clicked for the first time while a panel is on its   *)
(* way (hasty), one panel at most is open or opening, and the triggers say *)
(* so, for any number of panels and clicks.  After such a click two panels *)
(* can be open, and nothing is claimed.                                    *)
THEOREM AlwaysOneOpen == Spec => []OneOpen
<1>1. Init => CollapseInv
  BY CollapseInit DEF Init
<1>2. CollapseInv /\ [Next]_<<which, collapseVars, carouselVars, formVars,
                             userVars, storyVars, goVars>> => CollapseInv'
  <2>1. ASSUME CollapseInv, UNCHANGED collapseVars
        PROVE  CollapseInv'
    <3>1. Domains' /\ (hasty' <=> hasty)
      BY <2>1 DEF collapseVars, CollapseInv, Domains
    <3>2. ASSUME Tidy PROVE Tidy'
      BY <2>1, <3>2 DEF collapseVars, Tidy, Shut, Wide, Opens, Closes, Orphan,
         Resting, Going, Waits, C!Busy
    <3> QED
      BY <2>1, <3>1, <3>2 DEF CollapseInv
  <2> QED
    BY <2>1, CollapseStep, Steps DEF collapseVars
<1>3. CollapseInv => OneOpen
  BY TidyShows DEF CollapseInv, OneOpen, C!OneOpen
<1> QED
  BY <1>1, <1>2, <1>3, PTL DEF Spec
=============================================================================
