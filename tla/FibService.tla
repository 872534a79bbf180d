----------------------------- MODULE FibService -----------------------------
(***************************************************************************)
(* What the Fibonacci application promises of the "values" hash the page   *)
(* shows, whichever pod, connection or queue the work goes through: a      *)
(* field exists only for a text some POST had accepted, and it holds the   *)
(* placeholder or the right number.  The hash may be forgotten as a whole  *)
(* (Redis keeps it in memory), never field by field.                       *)
(***************************************************************************)
EXTENDS FibText

VARIABLES
    accepted,   \* the texts POST /values has accepted
    hash        \* the "values" hash

svars == <<accepted, hash>>

Init ==
    /\ accepted = {}
    /\ hash = [k \in Keys |-> Absent]

Accept(k) ==
    /\ k \in Acceptable
    /\ accepted' = accepted \cup {k}
    /\ UNCHANGED hash

ShowPending(k) ==
    /\ k \in accepted
    /\ hash' = [hash EXCEPT ![k] = Pending]
    /\ UNCHANGED accepted

ShowAnswer(k) ==
    /\ k \in accepted \cap Numeric
    /\ hash' = [hash EXCEPT ![k] = Answer(k)]
    /\ UNCHANGED accepted

Forget ==
    /\ hash' = [k \in Keys |-> Absent]
    /\ UNCHANGED accepted

Next ==
    \/ \E k \in Keys : Accept(k) \/ ShowPending(k) \/ ShowAnswer(k)
    \/ Forget

Spec == Init /\ [][Next]_svars
=============================================================================
