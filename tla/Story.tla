-------------------------------- MODULE Story --------------------------------
(***************************************************************************)
(* The Story application (app.js) in the pods of deployment.yaml.  POST    *)
(* appends to one file, GET reads it, GET /error ends the process, and the *)
(* container is started again.  The file is on a claimed volume that all   *)
(* pods share, or (commented out in deployment.yaml) on an emptyDir that   *)
(* each pod has for itself until it is replaced.                           *)
(***************************************************************************)
EXTENDS Naturals

CONSTANTS
    Pods,
    Texts,      \* what is posted, each once
    Reads,      \* the GET requests
    MaxEnds     \* bound: processes that end, appends and reads that fail

Requests == Texts \cup Reads

VARIABLES
    volume,     \* "claim" or "emptyDir"
    up,         \* up[p]: does the process of pod p run?
    file,       \* file[p]: the texts in what p finds as text.txt
    exists,     \* exists[p]: is there such a file?
    pod,        \* pod[r]: where the Service sends r
    step,       \* step[r]: new, sent, done with the file, or ended
    status,     \* status[r]: what the callback answers; 0: nothing
    story,      \* story[g]: what g read
    kept,       \* kept[p], history: answered with 201 since p's file is there
    known,      \* known[g], history: kept of g's pod when g was sent
    ends        \* bound

vars == <<volume, up, file, exists, pod, step, status, story, kept, known, ends>>

files == <<file, exists>>

TypeOK ==
    /\ volume \in {"claim", "emptyDir"}
    /\ up \in [Pods -> BOOLEAN]
    /\ file \in [Pods -> SUBSET Texts]
    /\ exists \in [Pods -> BOOLEAN]
    /\ pod \in [Requests -> Pods]
    /\ step \in [Requests -> {"new", "sent", "done", "ended"}]
    /\ status \in [Requests -> {0, 200, 201, 422, 500}]
    /\ story \in [Reads -> SUBSET Texts]
    /\ kept \in [Pods -> SUBSET Texts]
    /\ known \in [Reads -> SUBSET Texts]
    /\ ends \in 0..MaxEnds

Init ==
    /\ volume \in {"claim", "emptyDir"}
    /\ up = [p \in Pods |-> TRUE]
    /\ file = [p \in Pods |-> {}]
    /\ exists = [p \in Pods |-> FALSE]
    /\ pod \in [Requests -> Pods]
    /\ step = [r \in Requests |-> "new"]
    /\ status = [r \in Requests |-> 0]
    /\ story = [g \in Reads |-> {}]
    /\ kept = [p \in Pods |-> {}]
    /\ known = [g \in Reads |-> {}]
    /\ ends = 0

-----------------------------------------------------------------------------
(* The pods that have p's file.                                            *)
Sharers(p) == IF volume = "claim" THEN Pods ELSE {p}

Goes(r, from, to) ==
    /\ step[r] = from
    /\ step' = [step EXCEPT ![r] = to]

Send(r) ==
    /\ up[pod[r]]
    /\ Goes(r, "new", "sent")
    /\ known' = [g \in Reads |-> IF g = r THEN kept[pod[g]] ELSE known[g]]
    /\ UNCHANGED <<volume, up, files, pod, status, story, kept, ends>>

(* A text that is blank, or none: trim() throws and Express answers 500.   *)
Refuse(t) ==
    /\ Goes(t, "sent", "ended")
    /\ \E s \in {422, 500} : status' = [status EXCEPT ![t] = s]
    /\ UNCHANGED <<volume, up, files, pod, story, kept, known, ends>>

(* Bug: writeFile instead of appendFile.                                   *)
WriteFile(t) ==
    /\ Goes(t, "sent", "done")
    /\ status' = [status EXCEPT ![t] = 201]
    /\ file' = [p \in Pods |-> IF p \in Sharers(pod[t]) THEN {t} ELSE file[p]]
    /\ exists' = [p \in Pods |-> exists[p] \/ p \in Sharers(pod[t])]
    /\ UNCHANGED <<volume, up, pod, story, kept, known, ends>>

(* appendFile, and an appendFile that fails, perhaps half way.             *)
AppendFile(t) ==
    /\ Goes(t, "sent", "done")
    /\ status' = [status EXCEPT ![t] = 201]
    /\ file' = [p \in Pods |-> IF p \in Sharers(pod[t]) THEN file[p] \cup {t}
                                                        ELSE file[p]]
    /\ exists' = [p \in Pods |-> exists[p] \/ p \in Sharers(pod[t])]
    /\ UNCHANGED <<volume, up, pod, story, kept, known, ends>>

AppendFails(t) ==
    /\ ends < MaxEnds
    /\ ends' = ends + 1
    /\ Goes(t, "sent", "done")
    /\ status' = [status EXCEPT ![t] = 500]
    /\ exists' \in {exists,
                    [p \in Pods |-> exists[p] \/ p \in Sharers(pod[t])]}
    /\ UNCHANGED <<volume, up, file, pod, story, kept, known>>

ReadFile(g) ==
    /\ exists[pod[g]]
    /\ Goes(g, "sent", "done")
    /\ story' = [story EXCEPT ![g] = file[pod[g]]]
    /\ status' = [status EXCEPT ![g] = 200]
    /\ UNCHANGED <<volume, up, files, pod, kept, known, ends>>

(* readFile fails: there is no file before the first text, or there is one *)
(* that cannot be opened or read.                                          *)
ReadFails(g) ==
    /\ IF exists[pod[g]] THEN ends < MaxEnds /\ ends' = ends + 1
                         ELSE UNCHANGED ends
    /\ Goes(g, "sent", "done")
    /\ status' = [status EXCEPT ![g] = 500]
    /\ UNCHANGED <<volume, up, files, pod, story, kept, known>>

(* The callback answers.                                                   *)
Answer(r) ==
    /\ Goes(r, "done", "ended")
    /\ kept' = [p \in Pods |-> IF status[r] = 201 /\ p \in Sharers(pod[r])
                               THEN kept[p] \cup {r} ELSE kept[p]]
    /\ UNCHANGED <<volume, up, files, pod, status, story, known, ends>>

(* The process of p ends, by GET /error or otherwise, with its requests.   *)
Exit(p) ==
    LET held == {r \in Requests : pod[r] = p /\ step[r] \in {"sent", "done"}}
    IN /\ up[p]
       /\ ends < MaxEnds
       /\ ends' = ends + 1
       /\ up' = [up EXCEPT ![p] = FALSE]
       /\ step' = [r \in Requests |-> IF r \in held THEN "ended" ELSE step[r]]
       /\ status' = [r \in Requests |-> IF r \in held THEN 0 ELSE status[r]]
       /\ UNCHANGED <<volume, files, pod, story, kept, known>>

(* Its container is started again ...                                      *)
Restart(p) ==
    /\ ~up[p]
    /\ up' = [up EXCEPT ![p] = TRUE]
    /\ UNCHANGED <<volume, files, pod, step, status, story, kept, known, ends>>

(* ... or the pod is replaced, and with it the emptyDir.                   *)
Replace(p) ==
    /\ ~up[p]
    /\ up' = [up EXCEPT ![p] = TRUE]
    /\ IF volume = "claim"
       THEN UNCHANGED <<files, kept>>
       ELSE /\ file' = [file EXCEPT ![p] = {}]
            /\ exists' = [exists EXCEPT ![p] = FALSE]
            /\ kept' = [kept EXCEPT ![p] = {}]
    /\ UNCHANGED <<volume, pod, step, status, story, known, ends>>

Next ==
    \/ \E r \in Requests : Send(r) \/ Answer(r)
    \/ \E t \in Texts : Refuse(t) \/ AppendFile(t) \/ AppendFails(t)
    \/ \E g \in Reads : ReadFile(g) \/ ReadFails(g)
    \/ \E p \in Pods : Exit(p) \/ Restart(p) \/ Replace(p)

-----------------------------------------------------------------------------
(* Properties *)

(* A GET that is answered with a story has in it every text that any pod   *)
(* with the same file had answered with 201 before the GET was sent:       *)
(* appends that overlap or fail and processes that end lose none.          *)
StoredIsRead ==
    \A g \in Reads : status[g] = 200 => known[g] \subseteq story[g]
=============================================================================
