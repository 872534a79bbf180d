-------------------------------- MODULE Forms --------------------------------
(***************************************************************************)
(* The forms of the two front ends: Fib.js, whose input is emptied by the  *)
(* answer to its POST, and NewTask.js with addTaskHandler of App.js, which *)
(* are emptied at once and do not look at the answer.                      *)
(*                                                                         *)
(* A text is a number: whoever types makes a new one.  0 is the empty      *)
(* input.  The server may take a text and the answer still be lost.        *)
(***************************************************************************)
EXTENDS Naturals, Sequences

CONSTANTS
    MaxTexts,   \* bound: texts typed in a behaviour
    MaxPosts    \* bound: texts submitted

Empty == 0
Texts == 1..MaxTexts

VARIABLES
    page,       \* "fib" or "tasks"
    entered,    \* is the form's route the present one?
    input,      \* the text in the form
    whole,      \* NewTask: are the title and the text both given?
    posts,      \* the POSTs: text, how it stands, of the present form or not
    taken,      \* the texts the server took
    typed,      \* bound: the texts typed
    wanted,     \* history: the last of them, if the user stayed
    careless    \* history: typed while an answer was still to come

history == <<typed, wanted, careless>>
vars == <<page, entered, input, whole, posts, taken, history>>

Post == [text : Texts \cup {Empty}, own : BOOLEAN,
         state : {"sent", "taken", "refused", "ok", "failed"}]

TypeOK ==
    /\ page \in {"fib", "tasks"} /\ entered \in BOOLEAN
    /\ input \in Texts \cup {Empty} /\ whole \in BOOLEAN
    /\ posts \in Seq(Post)
    /\ taken \subseteq Texts \cup {Empty}
    /\ typed \in 0..MaxTexts
    /\ wanted \in Texts \cup {Empty}
    /\ careless \in BOOLEAN

Init ==
    /\ page \in {"fib", "tasks"} /\ entered = TRUE
    /\ input = Empty /\ whole = FALSE
    /\ posts = <<>>
    /\ taken = {}
    /\ typed = 0
    /\ wanted = Empty
    /\ careless = FALSE

InFlight(i) == posts[i].state \in {"sent", "taken", "refused"}

Typed(complete) ==
    /\ entered
    /\ typed < MaxTexts
    /\ typed' = typed + 1
    /\ input' = typed'
    /\ wanted' = typed'
    /\ whole' = complete
    /\ careless' = \E i \in DOMAIN posts : posts[i].own /\ InFlight(i)
    /\ UNCHANGED <<page, entered, posts, taken>>

(* onChange of the one input of Fib.js, and of the two of NewTask.         *)
Type == page = "fib" /\ Typed(TRUE)

TypeTask == page = "tasks" /\ \E complete \in BOOLEAN : Typed(complete)

Send(text) ==
    /\ Len(posts) < MaxPosts
    /\ posts' = Append(posts, [text |-> text, own |-> TRUE, state |-> "sent"])

(* Bug: the input is emptied at once.                                      *)
HandleSubmitClears ==
    /\ page = "fib" /\ entered
    /\ Send(input)
    /\ input' = Empty
    /\ UNCHANGED <<page, entered, whole, taken, history>>

(* handleSubmit: whatever is in the input, again if need be.               *)
HandleSubmit ==
    /\ page = "fib" /\ entered
    /\ Send(input)
    /\ UNCHANGED <<page, entered, input, whole, taken, history>>

(* addTaskHandler                                                          *)
AddTask(text) == Send(text)

(* Bug: the form is not emptied.                                           *)
SubmitFormKeeps ==
    /\ page = "tasks"
    /\ input # Empty /\ whole
    /\ AddTask(input)
    /\ UNCHANGED <<page, entered, input, whole, taken, history>>

(* submitForm: both fields have to be given.                               *)
SubmitForm ==
    /\ page = "tasks"
    /\ input # Empty /\ whole
    /\ AddTask(input)
    /\ input' = Empty
    /\ whole' = FALSE
    /\ UNCHANGED <<page, entered, taken, history>>

Becomes(i, from, to) ==
    /\ posts[i].state = from
    /\ posts' = [posts EXCEPT ![i].state = to]

(* The server takes the text ...                                           *)
Take(i) ==
    /\ Becomes(i, "sent", "taken")
    /\ taken' = taken \cup {posts[i].text}
    /\ UNCHANGED <<page, entered, input, whole, history>>

(* ... or refuses it (422, 401, 500).                                      *)
Refuse(i) ==
    /\ Becomes(i, "sent", "refused")
    /\ UNCHANGED <<page, entered, input, whole, taken, history>>

(* The answer arrives.  Fib.js then empties the input, whatever is in it;  *)
(* a component that is not mounted any more has none.                      *)
Answered(i) ==
    /\ Becomes(i, "taken", "ok")
    /\ input' = IF page = "fib" /\ posts[i].own THEN Empty ELSE input
    /\ UNCHANGED <<page, entered, whole, taken, history>>

(* Bug: the input is emptied whatever comes of the POST.                   *)
FailedClears(i) ==
    /\ InFlight(i)
    /\ posts' = [posts EXCEPT ![i].state = "failed"]
    /\ input' = IF page = "fib" /\ posts[i].own THEN Empty ELSE input
    /\ UNCHANGED <<page, entered, whole, taken, history>>

(* It is a refusal, or there is none: await throws and nothing follows.    *)
Failed(i) ==
    /\ InFlight(i)
    /\ posts' = [posts EXCEPT ![i].state = "failed"]
    /\ UNCHANGED <<page, entered, input, whole, taken, history>>

(* The route of Fib.js is left, and what is typed in it is gone.           *)
Leave ==
    /\ page = "fib" /\ entered
    /\ entered' = FALSE
    /\ input' = Empty
    /\ wanted' = Empty
    /\ posts' = [i \in DOMAIN posts |-> [posts[i] EXCEPT !.own = FALSE]]
    /\ UNCHANGED <<page, whole, taken, typed, careless>>

(* It is entered again, with an empty input.                               *)
Enter ==
    /\ page = "fib" /\ ~entered
    /\ entered' = TRUE
    /\ UNCHANGED <<page, input, whole, posts, taken, history>>

Next ==
    \/ Type
    \/ TypeTask
    \/ HandleSubmit
    \/ SubmitForm
    \/ \E i \in DOMAIN posts : Take(i) \/ Refuse(i) \/ Answered(i) \/ Failed(i)
    \/ Leave
    \/ Enter

-----------------------------------------------------------------------------
(* Properties *)

(* The last text typed in Fib.js is in its input or the server took it,    *)
(* whatever was refused or lost, however often it was submitted and        *)
(* whatever came of the texts before it, unless it was itself typed while  *)
(* an answer was still to come: that answer empties the input.             *)
TakenOrKept ==
    page = "fib" /\ ~careless => wanted \in taken \cup {input, Empty}

(* NewTask sends no task twice; Fib.js sends a text again only as long as  *)
(* no answer has said that it was taken.                                   *)
Resends ==
    \E i \in DOMAIN posts :
       /\ posts[i].text = posts'[Len(posts')].text
       /\ posts[i].text # Empty
       /\ page = "tasks" \/ posts[i].state = "ok"
NeverResent == [][Len(posts') > Len(posts) => ~Resends]_vars
=============================================================================
