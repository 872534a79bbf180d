---------------------------- MODULE TaskService -----------------------------
(***************************************************************************)
(* What tasks-api promises of the tasks, whichever of its requests         *)
(* overlap: a fetch is given all the tasks that were stored at one moment  *)
(* between its sending and its answer, or nothing; a task whose POST was   *)
(* answered 201 is stored at that moment at the latest.  Tasks are         *)
(* forgotten all at once, with a container that has no volume, and no      *)
(* fetch sees the tasks of two containers.                                 *)
(***************************************************************************)
CONSTANTS
    Tasks,      \* the tasks that can be stored
    Gets,       \* the fetches of the page
    Durable     \* do they outlive the container?

VARIABLES
    stored,     \* the tasks that are stored
    accepted,   \* those whose POST was answered 201
    fetch,      \* fetch[g]: how far fetch g is
    tasks       \* tasks[g]: what it has found

svars == <<stored, accepted, fetch, tasks>>

Init ==
    /\ stored = {}
    /\ accepted = {}
    /\ fetch = [g \in Gets |-> "new"]
    /\ tasks = [g \in Gets |-> {}]

Store(p) ==
    /\ stored' = stored \cup {p}
    /\ UNCHANGED <<accepted, fetch, tasks>>

Accept(p) ==
    /\ p \in stored
    /\ accepted' = accepted \cup {p}
    /\ UNCHANGED <<stored, fetch, tasks>>

Send(g) ==
    /\ fetch[g] = "new"
    /\ fetch' = [fetch EXCEPT ![g] = "sent"]
    /\ UNCHANGED <<stored, accepted, tasks>>

(* The one moment.                                                         *)
Take(g) ==
    /\ fetch[g] = "sent"
    /\ fetch' = [fetch EXCEPT ![g] = "taken"]
    /\ tasks' = [tasks EXCEPT ![g] = stored]
    /\ UNCHANGED <<stored, accepted>>

Give(g) ==
    /\ fetch[g] = "taken"
    /\ fetch' = [fetch EXCEPT ![g] = "given"]
    /\ UNCHANGED <<stored, accepted, tasks>>

UnderWay == {g \in Gets : fetch[g] \in {"sent", "taken"}}

(* Refused, failed, or lost with others when the process ends.             *)
Drop(some) ==
    /\ some \subseteq UnderWay
    /\ fetch' = [g \in Gets |-> IF g \in some THEN "dropped" ELSE fetch[g]]
    /\ tasks' = [g \in Gets |-> IF g \in some THEN {} ELSE tasks[g]]
    /\ UNCHANGED <<stored, accepted>>

Forget ==
    /\ ~Durable
    /\ UnderWay = {}
    /\ stored' = {}
    /\ accepted' = {}
    /\ UNCHANGED <<fetch, tasks>>

Next ==
    \/ \E p \in Tasks : Store(p) \/ Accept(p)
    \/ \E g \in Gets : Send(g) \/ Take(g) \/ Give(g)
    \/ \E some \in SUBSET Gets : Drop(some)
    \/ Forget

Spec == Init /\ [][Next]_svars
=============================================================================
