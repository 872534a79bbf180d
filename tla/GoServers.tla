------------------------------ MODULE GoServers ------------------------------
(***************************************************************************)
(* Start and end of Istio's two sample servers in Go: jwt-server, whose    *)
(* startHTTP and startHTTPS share the field httpServer, and extauthz, with *)
(* the fields httpServer and grpcServer.  Each start is a goroutine that   *)
(* listens, sets its field and serves what it then finds there.  main      *)
(* waits for a signal and calls stop, which knows nothing of the others.   *)
(*                                                                         *)
(* The exit status: 0 if main returns, 1 for log.Fatalf of whichever       *)
(* goroutine, 2 for a panic, 143 for a signal before signal.Notify.        *)
(***************************************************************************)
EXTENDS Naturals

VARIABLES
    program,    \* "jwt" or "extauthz"
    starts,     \* the goroutines: "http", and "https" or "grpc"
    pc,         \* pc[t]: where goroutine t is
    server,     \* server[f]: which goroutine's server field f has
    serves,     \* serves[t]: whose server t serves on
    stopped,    \* the servers that stop closed
    main,       \* where main is
    exit,       \* the exit status, or Running
    ready       \* history: all served when the signal came

vars == <<program, starts, pc, server, serves, stopped, main, exit, ready>>

Goroutines == {"http", "https", "grpc"}
None == "none"
Running == 999

TypeOK ==
    /\ program \in {"jwt", "extauthz"}
    /\ starts \subseteq Goroutines
    /\ pc \in [Goroutines -> {"new", "listening", "made", "serving", "over"}]
    /\ server \in [Goroutines -> Goroutines \cup {None}]
    /\ serves \in [Goroutines -> Goroutines \cup {None}]
    /\ stopped \subseteq Goroutines
    /\ main \in {"new", "waiting", "stopping", "stopping http", "returning"}
    /\ exit \in {Running, 0, 1, 2, 143}
    /\ ready \in BOOLEAN

(* Without a certificate jwt-server has no startHTTPS.                     *)
Init ==
    /\ \/ program = "jwt" /\ starts \in {{"http"}, {"http", "https"}}
       \/ program = "extauthz" /\ starts = {"http", "grpc"}
    /\ pc = [t \in Goroutines |-> "new"]
    /\ server = [f \in Goroutines |-> None]
    /\ serves = [t \in Goroutines |-> None]
    /\ stopped = {}
    /\ main = "new"
    /\ exit = Running
    /\ ready = FALSE

Ends(status) ==
    /\ exit' = status
    /\ UNCHANGED <<program, starts, pc, server, serves, stopped, main, ready>>

Goes(t, from, to) ==
    /\ exit = Running
    /\ t \in starts
    /\ pc[t] = from
    /\ pc' = [pc EXCEPT ![t] = to]
    /\ UNCHANGED <<program, starts, stopped, main, exit, ready>>

-----------------------------------------------------------------------------
(* Bug: every start sets httpServer.                                       *)
FieldHttp(t) == "http"

(* The field that goroutine t sets and reads.                              *)
Field(t) == IF t = "https" THEN "http" ELSE t

Listen(t) == Goes(t, "new", "listening") /\ UNCHANGED <<server, serves>>

ListenFails(t) ==
    /\ exit = Running
    /\ t \in starts /\ pc[t] = "new"
    /\ Ends(1)

Make(t) ==
    /\ Goes(t, "listening", "made")
    /\ server' = [server EXCEPT ![Field(t)] = t]
    /\ UNCHANGED serves

(* Serve on a server that is stopped fails at once, and ServeTLS also      *)
(* where it cannot read the certificate or the key.                        *)
Serve(t) ==
    LET s == server[Field(t)]
    IN \/ /\ s \notin stopped
          /\ Goes(t, "made", "serving")
          /\ serves' = [serves EXCEPT ![t] = s]
          /\ UNCHANGED server
       \/ /\ s \in stopped \/ t = "https"
          /\ exit = Running /\ t \in starts /\ pc[t] = "made"
          /\ Ends(1)

(* When its server is stopped, Serve of HTTP returns ErrServerClosed, and  *)
(* that of gRPC nil.                                                       *)
ServeReturns(t) ==
    /\ serves[t] \in stopped
    /\ \/ /\ t = "grpc"
          /\ Goes(t, "serving", "over")
          /\ UNCHANGED <<server, serves>>
       \/ /\ t # "grpc"
          /\ exit = Running /\ pc[t] = "serving"
          /\ Ends(1)

-----------------------------------------------------------------------------
(* main *)

MainGoes(from, to) ==
    /\ exit = Running
    /\ main = from
    /\ main' = to
    /\ UNCHANGED <<program, starts, pc, server, serves, exit>>

Notify == MainGoes("new", "waiting") /\ UNCHANGED <<stopped, ready>>

Signal ==
    \/ /\ MainGoes("waiting", "stopping")
       /\ ready' = \A t \in starts : pc[t] = "serving"
       /\ UNCHANGED stopped
    \/ main = "new" /\ exit = Running /\ Ends(143)

(* Closing a field that is not set is a panic.                             *)
StopServer(f, from, to) ==
    \/ /\ server[f] # None
       /\ MainGoes(from, to)
       /\ stopped' = stopped \cup {server[f]}
       /\ UNCHANGED ready
    \/ /\ server[f] = None
       /\ exit = Running /\ main = from
       /\ Ends(2)

(* Bug: stop waits for the goroutines to be over.                          *)
StopWaits ==
    /\ \A t \in starts : pc[t] = "over"
    /\ StopServer("http", "stopping", "returning")

(* stop(): of jwt-server, and of extauthz.                                 *)
Stop ==
    \/ program = "jwt" /\ StopServer("http", "stopping", "returning")
    \/ program = "extauthz" /\ StopServer("grpc", "stopping", "stopping http")
    \/ program = "extauthz" /\ StopServer("http", "stopping http", "returning")

Return ==
    /\ exit = Running
    /\ main = "returning"
    /\ Ends(0)

Next ==
    \/ \E t \in Goroutines :
          \/ Listen(t) \/ ListenFails(t) \/ Make(t) \/ Serve(t)
          \/ ServeReturns(t)
    \/ Notify
    \/ Signal
    \/ Stop
    \/ Return

(* main is scheduled.                                                      *)
Fairness == WF_vars(Stop) /\ WF_vars(Return)

-----------------------------------------------------------------------------
(* Properties *)

(* Once all servers serve, a signal does not make the process panic, nor   *)
(* end otherwise than by the return of main or by the goroutine that takes *)
(* the end of its server for a failure: which of the two is a race.        *)
ReadyStops ==
    /\ ready => exit \in {Running, 0, 1}
    /\ exit = 0 => \A t \in starts : pc[t] = "serving" =>
                      serves[t] \in stopped \/ program = "jwt"

(* A signal ends the process, whatever the servers are doing then.         *)
SignalEnds == main = "stopping" ~> exit # Running
=============================================================================
