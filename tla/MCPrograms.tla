----------------------------- MODULE MCPrograms -----------------------------
(***************************************************************************)
(* The small programs of the repository, for TLC.  They share no state: a  *)
(* behaviour is of one of them, and the others stay as they are.           *)
(***************************************************************************)
EXTENDS Naturals

CONSTANTS
    Count, MaxClicks,                   \* Collapse
    Size, MaxAsks, MaxMoves,            \* Carousel
    MaxTexts, MaxPosts,                 \* Forms
    Calls, MaxCrashes,                  \* UsersApi
    Pods, Stories, Reads, MaxEnds       \* Story

ASSUME ProgramsAssumption == Count \in Nat /\ Stories \cap Reads = {}

VARIABLES
    which,
    class, object, transitioning, pending, expanded, clicks, hasty,
    made, active, indicator, sliding, coming, slid, waiting, interval,
    timers, over, resumed, asked, asks, moves,
    page, entered, input, whole, posts, taken, typed, wanted, careless,
    route, password, stage, answer, reply, authUp, crashes,
    volume, up, file, exists, pod, step, status, story, kept, known, ends,
    program, starts, pc, server, serves, stopped, main, exit, ready

collapseVars ==
    <<class, object, transitioning, pending, expanded, clicks, hasty>>
carouselVars ==
    <<made, active, indicator, sliding, coming, slid, waiting, interval,
      timers, over, resumed, asked, asks, moves>>
formVars ==
    <<page, entered, input, whole, posts, taken, typed, wanted, careless>>
userVars == <<route, password, stage, answer, reply, authUp, crashes>>
storyVars ==
    <<volume, up, file, exists, pod, step, status, story, kept, known, ends>>
goVars == <<program, starts, pc, server, serves, stopped, main, exit, ready>>

C == INSTANCE Collapse
R == INSTANCE Carousel
F == INSTANCE Forms
U == INSTANCE UsersApi WITH
        Requests <- Calls, step <- stage, status <- answer
S == INSTANCE Story WITH Texts <- Stories
G == INSTANCE GoServers

(* Where a program has several initial states, the ones that do not run    *)
(* are in a certain one of them.                                           *)
Init ==
    /\ which \in {"collapse", "carousel", "forms", "users", "story", "go"}
    /\ C!Init /\ (which # "collapse" => \A p \in C!Panels : class[p] = "collapse")
    /\ R!Init /\ (which # "carousel" => made = "none")
    /\ F!Init /\ (which # "forms" => page = "fib")
    /\ U!Init /\ (which # "users" => \A r \in Calls :
                     route[r] = "login" /\ password[r] = "word")
    /\ S!Init /\ (which # "story" => volume = "claim" /\
                     \A q, r \in S!Requests : pod[q] = pod[r] /\
                        pod[q] = CHOOSE p \in Pods : TRUE)
    /\ G!Init /\ (which # "go" => program = "extauthz")

Next ==
    /\ UNCHANGED which
    /\ \/ /\ which = "collapse" /\ C!Next
          /\ UNCHANGED <<carouselVars, formVars, userVars, storyVars, goVars>>
       \/ /\ which = "carousel" /\ R!Next
          /\ UNCHANGED <<collapseVars, formVars, userVars, storyVars, goVars>>
       \/ /\ which = "forms" /\ F!Next
          /\ UNCHANGED <<collapseVars, carouselVars, userVars, storyVars, goVars>>
       \/ /\ which = "users" /\ U!Next
          /\ UNCHANGED <<collapseVars, carouselVars, formVars, storyVars, goVars>>
       \/ /\ which = "story" /\ S!Next
          /\ UNCHANGED <<collapseVars, carouselVars, formVars, userVars,
                         goVars>>
       \/ /\ which = "go" /\ G!Next
          /\ UNCHANGED <<collapseVars, carouselVars, formVars, userVars,
                         storyVars>>

Spec ==
    /\ Init
    /\ [][Next]_<<which, collapseVars, carouselVars, formVars, userVars, storyVars,
                  goVars>>
    /\ R!Fairness
    /\ U!Fairness
    /\ G!Fairness

(* Collapse: until a trigger is clicked for the first time while a panel   *)
(* is on its way, one panel at most is open or opening, and the triggers   *)
(* say of the panels what is so.                                           *)
OneOpen == C!OneOpen

(* Carousel: one interval, none under the mouse, and the right indicator.  *)
Steady == R!Steady

(* Carousel: every position asked for is reached.                          *)
Reached == R!Reached

(* Forms: the form of Fib.js loses no text that was typed in peace.        *)
TakenOrKept == F!TakenOrKept

(* Forms: nothing that is known to be taken is sent again.                 *)
NeverResent == F!NeverResent

(* UsersApi: whoever calls is answered, but for logins auth-api refuses    *)
(* and calls that hang.                                                    *)
CallsAnswered == U!CallsAnswered

(* Story: every text answered with 201 is in the stories answered later.   *)
StoredIsRead == S!StoredIsRead

(* GoServers: once all servers serve, a signal makes no goroutine panic.   *)
ReadyStops == G!ReadyStops

(* GoServers: a signal ends the process.                                   *)
SignalEnds == G!SignalEnds
=============================================================================
