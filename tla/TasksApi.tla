------------------------------ MODULE TasksApi ------------------------------
(***************************************************************************)
(* tasks-api (tasks-app.js), the page that shows its tasks (App.js of the  *)
(* frontend) and the container that restarts it.                           *)
(*                                                                         *)
(* A request is verified by auth-api, then reads or appends to the file,   *)
(* then answers from a callback.  Requests overlap at every await.  An     *)
(* entry JSON.parse refuses throws in the callback of readFile, outside of *)
(* the try: the process ends, and every request it held is lost.           *)
(***************************************************************************)
EXTENDS TasksFile, FiniteSets

CONSTANTS
    Gets,       \* the page's fetches of /api/tasks
    Durable,    \* is the tasks folder a volume, or of the container's image?
    MaxFaults   \* bound: failed writes and reads, and killed processes

ASSUME TasksAssumption ==
    /\ Gets \cap Posts = {}
    /\ Durable \in BOOLEAN
    /\ MaxFaults \in Nat

Requests == Posts \cup Gets

VARIABLES
    up,         \* the process runs
    file,       \* tasks.txt
    exists,     \* has it been created?
    step,       \* step[r]: where the handler of request r is
    answer,     \* answer[r]: the status r got; "lost" if the process ended
    data,       \* data[g]: what readFile read for g
    listing,    \* listing[g]: the tasks answered to g
    page,       \* the page: the tasks it shows, whether it broke
    kept,       \* history: the tasks answered with 201 since the file is new
    known,      \* history: known[g] is kept when g was sent
    had,        \* history: had[g] are the tasks the page showed then
    unread,     \* history: the GETs whose read failed though there is a file
    torn,       \* history: a write has failed half way since the file is new
    faults      \* bound

vars == <<up, file, exists, step, answer, data, listing, page, kept, known,
          had, unread, torn, faults>>

history == <<kept, known, had, unread, torn>>

Steps == {"new", "verify", "io", "written", "failed", "read", "done", "shown"}

TypeOK ==
    /\ up \in BOOLEAN
    /\ file \in Seq(Mark)
    /\ exists \in BOOLEAN
    /\ step \in [Requests -> Steps]
    /\ answer \in [Requests -> {"none", "200", "201", "401", "500", "lost"}]
    /\ \A p \in Posts : answer[p] # "200"
    /\ \A g \in Gets : answer[g] # "201"
    /\ data \in [Gets -> Seq(Mark)]
    /\ listing \in [Gets -> SUBSET Posts]
    /\ page \in [tasks : SUBSET Posts, broken : BOOLEAN]
    /\ kept \in SUBSET Posts
    /\ known \in [Gets -> SUBSET Posts]
    /\ had \in [Gets -> SUBSET Posts]
    /\ unread \in SUBSET Gets
    /\ torn \in BOOLEAN
    /\ faults \in 0..MaxFaults

Init ==
    /\ up = TRUE
    /\ file = <<>>
    /\ exists = FALSE
    /\ step = [r \in Requests |-> "new"]
    /\ answer = [r \in Requests |-> "none"]
    /\ data = [g \in Gets |-> <<>>]
    /\ listing = [g \in Gets |-> {}]
    /\ page = [tasks |-> {}, broken |-> FALSE]
    /\ kept = {}
    /\ known = [g \in Gets |-> {}]
    /\ had = [g \in Gets |-> {}]
    /\ unread = {}
    /\ torn = FALSE
    /\ faults = 0

(* The handler of r goes on from one step to another.                      *)
Goes(r, from, to) ==
    /\ step[r] = from
    /\ step' = [step EXCEPT ![r] = to]

Answers(r, from, status) ==
    /\ Goes(r, from, "done")
    /\ answer' = [answer EXCEPT ![r] = status]

Fault ==
    /\ faults < MaxFaults
    /\ faults' = faults + 1

-----------------------------------------------------------------------------
(* A request is sent: a POST by any client, a GET by the page.             *)
SendPost(p) ==
    /\ up
    /\ Goes(p, "new", "verify")
    /\ UNCHANGED <<up, file, exists, answer, data, listing, page, history,
                   faults>>

Fetch(g) ==
    /\ up
    /\ ~page.broken
    /\ Goes(g, "new", "verify")
    /\ known' = [known EXCEPT ![g] = kept]
    /\ had' = [had EXCEPT ![g] = page.tasks]
    /\ UNCHANGED <<up, file, exists, answer, data, listing, page, kept, unread,
                   torn, faults>>

(* extractAndVerifyToken returns: readFile or appendFile begins.           *)
Verified(r) ==
    /\ Goes(r, "verify", "io")
    /\ UNCHANGED <<up, file, exists, answer, data, listing, page, history,
                   faults>>

(* Bug: nobody catches what extractAndVerifyToken throws.                  *)
RefusedSilently(r) ==
    /\ Goes(r, "verify", "refused")
    /\ UNCHANGED <<up, file, exists, answer, data, listing, page, history,
                   faults>>

(* It throws: no token, a wrong one, or auth-api does not answer.          *)
Refused(r) ==
    /\ Answers(r, "verify", "401")
    /\ UNCHANGED <<up, file, exists, data, listing, page, history,
                   faults>>

-----------------------------------------------------------------------------
(* POST /tasks *)

(* Bug: writeFile instead of appendFile.                                   *)
WriteLine(p) ==
    /\ Goes(p, "io", "written")
    /\ file' = Line(p)
    /\ exists' = TRUE
    /\ UNCHANGED <<up, answer, data, listing, page, history, faults>>

(* appendFile writes the line.                                             *)
AppendLine(p) ==
    /\ Goes(p, "io", "written")
    /\ file' = file \o Line(p)
    /\ exists' = TRUE
    /\ UNCHANGED <<up, answer, data, listing, page, history, faults>>

(* appendFile fails, having written nothing or a part (the disk is full).  *)
AppendFails(p) ==
    /\ Fault
    /\ Goes(p, "io", "failed")
    /\ \E s \in Torn(p) :
          /\ file' = file \o s
          /\ torn' = (torn \/ s # <<>>)
          /\ exists' \in {exists, TRUE}
          /\ s # <<>> => exists'
    /\ UNCHANGED <<up, answer, data, listing, page, kept, known, had, unread>>

(* Bug: the answer does not wait for the write.                            *)
StoredEarly(p) ==
    /\ \/ Answers(p, "written", "201")
       \/ /\ step[p] = "io"
          /\ answer[p] = "none"
          /\ answer' = [answer EXCEPT ![p] = "201"]
          /\ UNCHANGED step
    /\ kept' = kept \cup {p}
    /\ UNCHANGED <<up, file, exists, data, listing, page, known, had, unread,
                   torn, faults>>

(* The callback of appendFile.                                             *)
Stored(p) ==
    /\ Answers(p, "written", "201")
    /\ kept' = kept \cup {p}
    /\ UNCHANGED <<up, file, exists, data, listing, page, known, had, unread,
                   torn, faults>>

NotStored(p) ==
    /\ Answers(p, "failed", "500")
    /\ UNCHANGED <<up, file, exists, data, listing, page, history,
                   faults>>

-----------------------------------------------------------------------------
(* GET /tasks *)

(* readFile reads the file as it is now ...                                *)
Read(g) ==
    /\ exists
    /\ Goes(g, "io", "read")
    /\ data' = [data EXCEPT ![g] = file]
    /\ UNCHANGED <<up, file, exists, answer, listing, page, history,
                   faults>>

(* ... or fails: there is no file yet, or it cannot be read (too many open *)
(* files, a disk error).                                                   *)
ReadFails(g) ==
    /\ Answers(g, "io", "500")
    /\ \/ /\ ~exists
          /\ UNCHANGED <<unread, faults>>
       \/ /\ exists
          /\ Fault
          /\ unread' = unread \cup {g}
    /\ UNCHANGED <<up, file, exists, data, listing, page, kept, known, had, torn>>

(* The callback of readFile.                                               *)
Loaded(g) ==
    /\ Readable(data[g])
    /\ Answers(g, "read", "200")
    /\ listing' = [listing EXCEPT ![g] = Listed(data[g])]
    /\ data' = [data EXCEPT ![g] = <<>>]
    /\ UNCHANGED <<up, file, exists, page, history, faults>>

(* The process ends; nobody gets an answer any more.                       *)
Down ==
    LET held == {r \in Requests : step[r] \notin {"new", "done", "shown"}}
    IN /\ up' = FALSE
       /\ step' = [r \in Requests |->
                     IF r \in held THEN "done" ELSE step[r]]
       /\ answer' = [r \in Requests |->
                       IF r \in held THEN "lost" ELSE answer[r]]

(* The callback of readFile throws.                                        *)
ParseThrows(g) ==
    /\ step[g] = "read"
    /\ ~Readable(data[g])
    /\ Down
    /\ UNCHANGED <<file, exists, data, listing, page, history, faults>>

-----------------------------------------------------------------------------
(* The container: killed, and started again with or without its file.      *)
Kill ==
    /\ up
    /\ Fault
    /\ Down
    /\ UNCHANGED <<file, exists, data, listing, page, history>>

Restart ==
    /\ ~up
    /\ up' = TRUE
    /\ IF Durable
       THEN UNCHANGED <<file, exists, kept, torn>>
       ELSE /\ file' = <<>>
            /\ exists' = FALSE
            /\ kept' = {}
            /\ torn' = FALSE
    /\ UNCHANGED <<step, answer, data, listing, page, known, had, unread, faults>>

-----------------------------------------------------------------------------
(* The page *)

(* An answer reaches the page.  A status other than 200 has no tasks, and  *)
(* TaskList breaks the page over it; without an answer nothing changes.    *)
Show(g) ==
    /\ Goes(g, "done", "shown")
    /\ IF page.broken \/ answer[g] = "lost"
       THEN UNCHANGED page
       ELSE page' = IF answer[g] = "200"
                    THEN [page EXCEPT !.tasks = listing[g]]
                    ELSE [page EXCEPT !.broken = TRUE]
    /\ UNCHANGED <<up, file, exists, answer, data, listing, history,
                   faults>>

PostNext(p) ==
    \/ SendPost(p)
    \/ Verified(p)
    \/ Refused(p)
    \/ AppendLine(p)
    \/ AppendFails(p)
    \/ Stored(p)
    \/ NotStored(p)

GetNext(g) ==
    \/ Fetch(g)
    \/ Verified(g)
    \/ Refused(g)
    \/ Read(g)
    \/ ReadFails(g)
    \/ Loaded(g)
    \/ ParseThrows(g)
    \/ Show(g)

Next ==
    \/ \E p \in Posts : PostNext(p)
    \/ \E g \in Gets : GetNext(g)
    \/ Kill
    \/ Restart

Spec == Init /\ [][Next]_vars

(* Calls of auth-api and of the file system return, callbacks run, and the *)
(* container is started again.                                             *)
Fairness ==
    /\ WF_vars(Restart)
    /\ \A r \in Requests : WF_vars(Verified(r) \/ Refused(r))
    /\ \A p \in Posts : /\ WF_vars(AppendLine(p) \/ AppendFails(p))
                        /\ WF_vars(Stored(p) \/ NotStored(p))
    /\ \A g \in Gets : /\ WF_vars(Read(g) \/ ReadFails(g))
                       /\ WF_vars(Loaded(g) \/ ParseThrows(g))

FairSpec == Spec /\ Fairness

-----------------------------------------------------------------------------
(* Properties *)

(* No update is lost: a list the page is given has every task that was     *)
(* answered with 201 before the page asked for it, however the appends and *)
(* reads of other requests, failed writes and restarts fall in between.    *)
StoredIsListed ==
    \A g \in Gets : answer[g] = "200" => known[g] \subseteq listing[g]

(* A task whose POST was answered "Storing the task failed." is in no      *)
(* list, although a part of it, or all but the separator, may be in the    *)
(* file; nor is one that contains the separator.                           *)
FailedNeverListed ==
    \A g \in Gets : \A p \in listing[g] :
       p \notin Poison /\ answer[p] \notin {"401", "500"}

(* Unless a write failed half way or a task contains the separator, the    *)
(* file can be read at every moment, whatever requests overlap.            *)
OnlyTornOrPoisonSpoils ==
    ~torn /\ (\A p \in Poison : step[p] \in {"new", "verify", "io"}
                                   \/ answer[p] = "401")
       => Readable(file)

(* Nothing but a new container heals a file that cannot be read: until     *)
(* then every GET that reads it ends the process.                          *)
SpoiledForever ==
    [][~Readable(file) => ~Readable(file') \/ (~up /\ up' /\ ~Durable)]_vars

(* While the file is kept, a fetch brings the page at least the tasks it   *)
(* showed when the fetch was sent, those of POSTs still unanswered         *)
(* included.  (Two fetches at once may be answered in either order: the    *)
(* page can lose what the other one brought.)                              *)
FetchKeepsShown ==
    Durable => \A g \in Gets : answer[g] = "200" => had[g] \subseteq listing[g]

(* The page breaks only over a fetch that auth-api refused, one whose read *)
(* failed although there is a file, or one sent when no task was stored    *)
(* (tasks.txt may not exist then): never over a lost answer, and never     *)
(* because a file that a stored task is in seems not to be there.          *)
BreaksOnlyEarly ==
    page.broken => \E g \in Gets :
       /\ step[g] = "shown"
       /\ \/ answer[g] = "401"
          \/ answer[g] = "500" /\ (g \in unread \/ known[g] = {})

(* Every request that is sent is answered, or lost with its process.       *)
EveryRequestEnds ==
    \A r \in Requests : step[r] = "verify" ~> step[r] \in {"done", "shown"}

(* How far a fetch is for TaskService, and what it has found.              *)
Stage(g) ==
    CASE step[g] = "new" -> "new"
      [] step[g] \in {"verify", "io"} -> "sent"
      [] step[g] = "read" -> "taken"
      [] OTHER -> IF answer[g] = "200" THEN "given" ELSE "dropped"
Found(g) == IF step[g] = "read" THEN Listed(data[g]) ELSE listing[g]

(* Tasks-api implements TaskService, whatever appends, reads, failed       *)
(* writes and ends of the process fall between one another: the entries of *)
(* the file are its stored tasks, the read of the file is the one moment.  *)
(* Tasks that contain the separator are never stored.                      *)
Abstract == INSTANCE TaskService
    WITH Tasks <- Posts \ Poison, stored <- Listed(file),
         accepted <- kept \ Poison, fetch <- [g \in Gets |-> Stage(g)],
         tasks <- [g \in Gets |-> Found(g)]
ImplementsTaskService == Abstract!Spec

(* "remove last, empty entry" (tasks-app.js, line 41): the entry that GET  *)
(* removes before it parses the others is the empty one after the last     *)
(* separator.                                                              *)
LastEntryEmpty ==
    \A g \in Gets : step[g] = "read" => EndsEmpty(data[g])
=============================================================================
