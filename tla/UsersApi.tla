------------------------------ MODULE UsersApi ------------------------------
(***************************************************************************)
(* users-api (users-app.js) and the routes of auth-api (auth-app.js) it    *)
(* calls.  A password is part of the path of that call, as it is: what     *)
(* stands for a character of its own in a path makes another route of it,  *)
(* or no route at all.                                                     *)
(*                                                                         *)
(* What an async handler throws outside of a try is an unhandled           *)
(* rejection: node 14 warns, and nobody ever answers the request.          *)
(***************************************************************************)
EXTENDS Naturals

CONSTANTS
    Requests,
    MaxCrashes  \* bound: how often auth-api ends

(* Not given or blank; no string; a word; with "/"; with "?" or "#"; with  *)
(* "%" and no digits after it.                                             *)
Passwords == {"blank", "number", "word", "slash", "query", "percent"}
Routes == {"signup", "login"}

VARIABLES
    route,      \* route[r]: what r asks for
    password,   \* password[r]
    step,       \* step[r]: where its handler is
    status,     \* status[r]: what it was answered; 0: nothing yet
    reply,      \* reply[r]: how its call of auth-api ended; 0: no answer
    authUp,
    crashes     \* bound

vars == <<route, password, step, status, reply, authUp, crashes>>

TypeOK ==
    /\ route \in [Requests -> Routes]
    /\ password \in [Requests -> Passwords]
    /\ step \in [Requests -> {"new", "calling", "called", "hung", "thrown",
                           "answered"}]
    /\ status \in [Requests -> {0, 200, 201, 422, 500}]
    /\ reply \in [Requests -> {0, 200, 400, 401, 404}]
    /\ authUp \in BOOLEAN
    /\ crashes \in 0..MaxCrashes

Init ==
    /\ route \in [Requests -> Routes]
    /\ password \in [Requests -> Passwords]
    /\ step = [r \in Requests |-> "new"]
    /\ status = [r \in Requests |-> 0]
    /\ reply = [r \in Requests |-> 0]
    /\ authUp = TRUE
    /\ crashes = 0

-----------------------------------------------------------------------------
(* auth-api *)

(* GET /hashed-password/:password takes what is before the "?".            *)
HashedPassword(p) ==
    CASE p = "slash" -> 404
      [] p = "percent" -> 400
      [] OTHER -> 200

(* GET /token/:hashedPassword/:enteredPassword compares the two.           *)
Token(p) ==
    CASE p \in {"slash", "query"} -> 404
      [] p = "percent" -> 400
      [] OTHER -> 200

-----------------------------------------------------------------------------
(* users-api *)

Answer(r, s) ==
    /\ step' = [step EXCEPT ![r] = "answered"]
    /\ status' = [status EXCEPT ![r] = s]

Throws(r) ==
    /\ step' = [step EXCEPT ![r] = "thrown"]
    /\ UNCHANGED status

(* Both handlers look at the password, outside of any try; a number has no *)
(* trim().                                                                 *)
Receive(r) ==
    /\ step[r] = "new"
    /\ CASE password[r] = "blank" -> Answer(r, 422)
         [] password[r] = "number" -> Throws(r)
         [] OTHER -> /\ step' = [step EXCEPT ![r] = "calling"]
                     /\ UNCHANGED status
    /\ UNCHANGED <<route, password, reply, authUp, crashes>>

(* The call of auth-api: it answers, refuses the connection, or is gone    *)
(* before it answers.                                                      *)
Call(r) ==
    /\ step[r] = "calling"
    /\ step' = [step EXCEPT ![r] = "called"]
    /\ \/ authUp /\ reply' = [reply EXCEPT ![r] =
                       IF route[r] = "signup" THEN HashedPassword(password[r])
                                              ELSE Token(password[r])]
       \/ UNCHANGED reply /\ crashes > 0
    /\ UNCHANGED <<route, password, status, authUp, crashes>>

(* axios waits without limit, so a call whose packets are lost on the way  *)
(* never ends.                                                             *)
Hang(r) ==
    /\ step[r] = "calling"
    /\ step' = [step EXCEPT ![r] = "hung"]
    /\ UNCHANGED <<route, password, status, reply, authUp, crashes>>

(* Bug: there is no catch.                                                 *)
SignupThrows(r) ==
    /\ route[r] = "signup" /\ step[r] = "called"
    /\ IF reply[r] = 200 THEN Answer(r, 201) ELSE Throws(r)
    /\ UNCHANGED <<route, password, reply, authUp, crashes>>

(* axios rejects whatever is not 200: the catch of signup answers ...      *)
Signup(r) ==
    /\ route[r] = "signup" /\ step[r] = "called"
    /\ Answer(r, IF reply[r] = 200 THEN 201 ELSE 500)
    /\ UNCHANGED <<route, password, reply, authUp, crashes>>

(* Bug: the token is looked for where the answer has none.                 *)
LoginThrows(r) ==
    /\ route[r] = "login" /\ step[r] = "called"
    /\ Throws(r)
    /\ UNCHANGED <<route, password, reply, authUp, crashes>>

(* ... and login has none, so that its last line is never reached.         *)
Login(r) ==
    /\ route[r] = "login" /\ step[r] = "called"
    /\ IF reply[r] = 200 THEN Answer(r, 200) ELSE Throws(r)
    /\ UNCHANGED <<route, password, reply, authUp, crashes>>

AuthDown ==
    /\ authUp
    /\ crashes < MaxCrashes
    /\ authUp' = FALSE
    /\ crashes' = crashes + 1
    /\ UNCHANGED <<route, password, step, status, reply>>

AuthRestart ==
    /\ ~authUp
    /\ authUp' = TRUE
    /\ UNCHANGED <<route, password, step, status, reply, crashes>>

Next ==
    \/ \E r \in Requests :
          Receive(r) \/ Call(r) \/ Hang(r) \/ Signup(r) \/ Login(r)
    \/ AuthDown
    \/ AuthRestart

(* Scripts run, and a call that does not hang ends; auth-api need not be   *)
(* up.                                                                     *)
Fairness ==
    \A r \in Requests :
       WF_vars(Call(r) \/ Hang(r)) /\ WF_vars(Signup(r) \/ Login(r))

-----------------------------------------------------------------------------
(* Properties *)

(* A request that calls auth-api is answered in the end, every signup and  *)
(* every login that auth-api accepted: the only ones that are not are the  *)
(* logins auth-api did not answer with 200, and those whose call hangs.    *)
CallsAnswered ==
    \A r \in Requests :
       step[r] = "calling" ~>
          \/ step[r] \in {"answered", "hung"}
          \/ step[r] = "thrown" /\ route[r] = "login" /\ reply[r] # 200
=============================================================================
