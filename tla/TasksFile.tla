----------------------------- MODULE TasksFile -----------------------------
(***************************************************************************)
(* The file of tasks-api (Project-Network/01-nodejs-sample-project): one   *)
(* JSON text after the other, each followed by the separator TASK_SPLIT.   *)
(* The file is a sequence of marks: a task stands for its whole JSON text, *)
(* SPLIT for the separator and HALF for a piece of either.                 *)
(***************************************************************************)
EXTENDS Integers, Sequences

CONSTANTS
    Posts,      \* the tasks clients POST, each by a request of its own
    Poison,     \* those whose title or text contains TASK_SPLIT
    SPLIT, HALF

ASSUME FileAssumption ==
    /\ Poison \subseteq Posts
    /\ SPLIT \notin Posts
    /\ HALF \notin Posts
    /\ SPLIT # HALF

Mark == Posts \cup {SPLIT, HALF}

(* jsonTask.  Nothing escapes the separator.                               *)
Json(p) == IF p \in Poison THEN <<HALF, SPLIT, HALF>> ELSE <<p>>

(* Bug: the separator comes first.                                         *)
LineSplitFirst(p) == <<SPLIT>> \o Json(p)

(* jsonTask + 'TASK_SPLIT'.                                                *)
Line(p) == Json(p) \o <<SPLIT>>

(* What a write that fails may leave: some marks and a piece of the next.  *)
Torn(p) ==
    LET begun == {SubSeq(Line(p), 1, n) : n \in 0..(Len(Line(p)) - 1)}
    IN begun \cup {s \o <<HALF>> : s \in begun}

Ends(f) == {i \in 1..Len(f) : f[i] = SPLIT}

(* The entry before the separator at i is the JSON text of a task.         *)
IsEntry(f, i) ==
    /\ i > 1
    /\ f[i - 1] \in Posts
    /\ i > 2 => f[i - 2] = SPLIT

(* JSON.parse accepts every entry but the last, which pop() has removed.   *)
Readable(f) == \A i \in Ends(f) : IsEntry(f, i)

(* Bug: drop empty entries instead of the last one.                        *)
ListedTail(f) == {p \in Posts : \E i \in 1..Len(f) : f[i] = p}

(* The tasks of the entries.                                               *)
Listed(f) == {p \in Posts : \E i \in Ends(f) : i > 1 /\ f[i - 1] = p}

(* The last entry, the one pop() removes, is empty.                        *)
EndsEmpty(f) == f = <<>> \/ f[Len(f)] = SPLIT
=============================================================================
