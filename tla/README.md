# TLA+ models of the programs in kubernetes-tuts

The repository is a collection of Kubernetes, Istio, Helm, ArgoCD and EKS
tutorials. Most of its 1575 files are manifests and documents; the programs are
the sample applications the tutorials deploy. This directory models those
programs: what they do when their requests, callbacks, connections, timeouts and
restarts fall in an order nobody tried out. The manifests matter where they
decide how a program runs (no volume, two replicas, a fault that delays an
answer), and the models take that from them.

Contents: [inventory](#1-inventory), [modules](#2-modules-and-the-code),
[runs](#3-runs-and-bounds), [fairness](#4-fairness), [proofs](#5-proofs),
[disagreements with the comments](#6-where-the-code-and-its-comments-disagree),
[what is left out](#7-what-is-not-modelled). To check
a model: `tlc -config BookPage.cfg MCBookPage`; to check proofs:
`tlapm BookPage_proofs.tla`.

## 1. Inventory

### 1.1 Fibonacci application (`src/Project/simple-nodejs`)

| | |
|---|---|
| Parts | Express server (`server/index.js`, several replicas), worker (`worker/index.js`), Redis (`redis.yaml`, no volume), PostgreSQL (`postgres.yaml`, a volume), client page (`client/src/Fib.js`) |
| State | the hash `values` in Redis; the table `values` in PostgreSQL; per process the commands its Redis clients hold and whether they are connected; the worker's subscription |
| Operations | `POST /values` (three calls on three connections, none awaited), `GET /values/all`, `GET /values/current`, the worker's `message` handler, reconnection every second |
| Interaction | pub/sub channel `insert`, shared hash, shared table |
| Hard | the placeholder and the message of one POST travel on different connections; publish is lost without a subscriber; `parseInt` of a text that is no number recurses until the worker dies; the redis client drops some commands and keeps others when a connection breaks; Redis forgets, PostgreSQL does not |
| Correct when | no wrong number is ever shown; a field that stays at "Nothing yet!" has one of the named causes; both lists of the page agree but for restarts; one row per accepted POST |

### 1.2 Bookinfo (`src/Istio/samples/bookinfo/src`)

| | |
|---|---|
| Parts | productpage (Flask, threads), details (WEBrick), reviews v1, v2, v3 (JAX-RS), ratings (node; six variants, three kinds of storage) |
| State | per page: the attempt, whether it is connected, the time it has waited; per call of reviews: its age, connected to ratings or not; in ratings: what was POSTed, the toggles of `v-unavailable` and `v-unhealthy` |
| Operations | `front`, `getProductDetails`, `getProductReviews` (two attempts), `floodReviews`, `bookReviewsById`, `getRatings`, `POST /ratings`, `GET /ratings`, health, login, logout |
| Interaction | synchronous HTTP calls, page to details and reviews, reviews to ratings; timeouts of 3 s on the page's side and 2.5 s or 10 s on reviews' side, each once for connecting and once for the answer |
| Hard | two timeouts in a row that do not know of each other, a retry while the first call still runs, late answers, a flood that runs before the page's own call, ratings anybody may replace |
| Correct when | a page is rendered, within the time its timeouts add up to; it shows reviews if ratings is the only part that fails, provided reviews is done with ratings, connecting included, before the page gives up; it never shows an answer to a question it gave up |

### 1.3 tasks-api, auth-api, users-api, frontend (`src/Project/Project-Network/01-nodejs-sample-project`)

| | |
|---|---|
| Parts | tasks-api (Express, a file), auth-api and users-api (no state but requests that wait), the React page |
| State | `tasks.txt`; per request where its handler is; the list and the form on the page |
| Operations | `POST /tasks` (verify, `appendFile`, answer), `GET /tasks` (verify, `readFile`, parse, answer), `POST /login`, `POST /signup`, the page's `fetchTasks` |
| Interaction | every request of tasks-api first calls auth-api; the page polls nothing and fetches on load and on a button |
| Hard | requests interleave at every await; an append may fail half way; nothing escapes the separator; an exception in a callback ends the process and all requests it holds; the deployment has no volume; what an async handler throws outside of a `try` leaves its request without an answer; a password is part of a path |
| Correct when | no stored task is missing from a later list, no failed one is in it; the file can be read unless one of two known things spoiled it; every request ends, of users-api all but logins that auth-api does not accept and those whose call hangs; no task is sent twice |

### 1.4 Widgets of Bookinfo's pages (`productpage/static/bootstrap/js/bootstrap.js`)

| | |
|---|---|
| Parts | transitions and their emulation (`transition.js`), the login dialog (`Modal`), accordions (`Collapse`), `Carousel` |
| State | per widget the object of the plugin, classes and attributes of the elements, the callbacks that wait for a transition, timers, handlers bound to the document and the window |
| Operations | clicks, keys, drags, the interval, the ends of transitions as the browser or a timer reports them |
| Interaction | events and callbacks on shared DOM nodes; the dialog also changes the body of the page |
| Hard | what is begun is finished by a callback, and the user may reverse it in between; the browser may report no transition; handlers are bound and taken back by one another |
| Correct when | a closed dialog leaves nothing behind; one panel is open; one interval runs; each position asked for is reached |

### 1.5 Programs of one process

| Program | State and operations | Hard | Correct when |
|---|---|---|---|
| ratings (`ratings.js`) | store, `unavailable`, `healthy`; callbacks of two databases | timers against requests, SIGTERM against delayed answers | each request is answered once, ratings never step back, the health check tells the truth |
| Story (`Project-Volume/05-...`) | one file per pod or shared | several pods, two kinds of volume, ends of processes | what was stored is read |
| Fibonacci page (`Fib.js`) | the typed text | answers while the user types, routes that come and go | no text is lost that was typed while no answer was to come |
| extauthz (`extauthz/cmd/extauthz/main.go`) | two servers, started by two goroutines | stop during start; a stopped server reported as a failure | a signal ends the process, and without a panic once both serve |
| jwt-server (`jwt-server/src/main.go`) | one field for two servers | a data race between the two starts | the same |
| tcp-echo, health-check | connections that share nothing | nothing | one answer per line |
| Helm installer (`get_helm.sh`) | temporary directory, installed binary | `set -e` that does not see every failure, interrupted copy | what is installed was verified; success means installed, whatever earlier runs left |
| `cleanup.sh`, `setupkind.sh`, `generate-workload.sh` | cluster resources, files | partial failure, endless waits | running twice is as good as once |

### 1.6 What the runs look for

`PROJECT.json` lists under `hazards` each of these difficulties at its line, with
the properties that would fail if it went wrong, or the reason why there is none.

## 2. Modules and the code

| Module | Models |
|---|---|
| `FibText` | the texts users submit, `parseInt`, the test against 40, `fib` |
| `FibService` | abstract: what the hash promises, whatever happens behind it |
| `FibValues` | server, worker, Redis, PostgreSQL, their connections; implements `FibService` |
| `BookPage` | the threads of productpage, the calls of reviews, the answers of ratings, time |
| `TasksFile` | the text file: lines, torn lines, what GET makes of it |
| `TaskService` | abstract: what a fetch is given and what an answer 201 promises |
| `TasksApi` | tasks-api, its container, and the page; implements `TaskService` |
| `Ratings` | the process of `ratings.js`: all its variants, timers, database callbacks, signals |
| `HelmInstall` | runs of `get_helm.sh`, one after the other, on one machine |
| `Modal` | the login dialog, with its backdrop, transitions, mouse, keys, focus and scrollbar |
| `Collapse`, `Carousel` | the two other plugins of bootstrap that wait for transitions |
| `Forms` | the forms of the two front ends: `Fib.js`, `NewTask.js` with `addTaskHandler` |
| `UsersApi` | users-api and the routes of auth-api it calls |
| `Story` | the Story application in its pods, on either volume |
| `GoServers` | start and end of jwt-server and of extauthz |
| `MCPrograms` | one behaviour per program: `Collapse`, `Carousel`, `Forms`, `UsersApi`, `Story`, `GoServers` side by side |
| other `MC...` | instances for TLC |
| `..._proofs` | theorems |

Operators whose comment begins with "Bug:" are no part of the models. They are
the same operators with a plausible mistake in them, kept beside the right ones
to show that each property notices one.

### 2.1 FibValues

`Post` is the whole handler: one entry in each of `hashOut` (HSET of the
placeholder), `pubOut` (PUBLISH) and `inserts` (INSERT of the pool). `Exec...`
actions are Redis taking the next command of a connection, `InsertRow` and
`InsertRejected` are PostgreSQL's. `WorkerMessage` is the message handler,
`WorkerOverflow` the same handler for a text that is no number, which ends the
process. `Connect...` and `Subscribe` are the clients' reconnections. The four
`...Restart` actions come from outside and count against `MaxFaults`.

A restart of a process is one action: what its sockets had already delivered is
what the other side executes before it. A lost connection drops the commands that
were written and keeps those queued while offline (redis 2.8, as `package.json`
pins it). A field of the hash is a text, not a number: "7" and "07" are two fields
for one number, as in the code. `late`, `lost`, `wiped`, `unrecorded` and `posts`
are history: only properties read them.

### 2.2 BookPage

A page is idle, waiting for details, waiting for reviews, or done. `Ask` begins an
attempt; `Retry` is the end of the body of the loop at `productpage.py:355`;
`EndRound` goes from one flood request to the next and at last to the rendering.
A call of reviews is a record of its own with the version the Service picked and
its age. It goes on after its page has given up on it: `"dialing"` while reviews
connects to ratings, `"asking"` from then on (`asked` is its age at that moment),
`"ready"` with its answer, `"closed"` when it is over.

`timeout=3.0` of `requests` is a limit for connecting and, once connected, another
one for the answer, and so are the two timeouts JAX-RS is given
(`LibertyRestEndpoint.java:148-149`). Both are modelled: `waited` begins anew with
`Connect`, and `Spent` is the time a call of reviews has been connecting or, after
`RatingsConnect`, waiting. `ReviewsTimeout` and `RatingsGiveUp` are either limit.
`mesh.lag` is the longest time a connection takes, chosen in `Init` among `Lags`.
What follows from the two limits is in the properties: a request costs up to
`LongestRequest`, a call of reviews lives up to `LongestLife`, and the 2.5 s of the
red stars are below the 3 s of the page only while connections take less than 0.5 s
(`ReviewsAlwaysShown`). An answer is one read, and no connection is used twice.

Time is in ticks of half a second. 3 s are 6 ticks, 10 s are 20, 2.5 s are 5, the
7 s of `v-delayed` and of the fault `virtual-service-ratings-test-delay.yaml` are
14. `Tick` is enabled only while no timeout is due and no answer is ready: a
timeout fires in time and sending takes none. A status that is not 200 is 500. Pages
share nothing but ratings.

`mesh` is what Istio's VirtualServices make of the network: the versions of reviews
calls are routed to and the delay of ratings. It is chosen in `Init` among `Routes`
and `Delays` and never changes; the version of each call is chosen among the routed
ones when it is sent.

### 2.3 TasksApi

Each request is a task of its own and goes through `verify`, `io`, then `written`,
`failed` or `read`, and `done`; between any two of these steps other requests run.
The file is a sequence of marks (`TasksFile`): a task stands for its JSON text,
`SPLIT` for the separator, `HALF` for a piece of either. A task whose title holds
the separator (`Poison`) is written as two pieces around a separator, as
`JSON.stringify` leaves it. `AppendFails` leaves any part of the line behind: the
full disk the handler's error branch is for. `ReadFails` is any error of `readFile`:
there is no file, or there is one that cannot be read (`unread`). `Read` takes what the file is at
that moment and `Loaded` or `ParseThrows` is the callback. `Down` ends the process
for every request it holds. `Durable` says whether the folder is a volume; the
deployment in `kubernetes/` has none. The folder itself exists (with the image
alone it does not, and then no request can succeed).

`Show` is the page's `setTasks`. An answer other than 200 carries no `tasks`, and
`TaskList` calls `props.tasks.map`, so the page breaks and fetches no more.

`TaskService` is what is left of this when requests are atomic: tasks are stored
and never taken back, accepted when they are stored, a fetch takes all that is
stored at one moment (`Take`) and is given just that, or is dropped. `TasksApi`
implements it with the entries of the file for what is stored and `Read` for
`Take`; a failed write and a line with the separator in its text store nothing.
A new container without a volume forgets everything at once (`Forget`), and only
when no fetch is under way, because the end of the process dropped them all.

### 2.4 Ratings

A behaviour is the life of one process: its `variant` stands for `SERVICE_VERSION`
and `DB_TYPE` and never changes, `Init` is a new container. `BookPage` sees ratings
from outside, as something that answers this or that; `Ratings` is the inside.

A request is `"new"` until it arrives. `Get` is the whole GET handler: it answers
at once, or leaves the request to the timer of `v-delayed` (`Delayed`) or to the
callbacks of a database (`Connected`, `NotConnected`, `Queried`). A POST waits for
its body, which httpdispatcher collects (`PostArrives`, then `PostEnd` or
`PostAborted`). `Math.random` is a choice. `Toggle` is either interval; the two
flags change in one step, as one callback does. `Sigterm` closes the server and
`Exit` is the callback of `server.close`; `Kill` is the end of the process from
outside, and a request it holds counts as `gone`, like one whose client went away.

`store[i]` is the number of POSTs for product `i` and the kind of the last one: what
was POSTed may be any JSON, and reviews can read numbers only. Missing rows of a
database count as 0 stars, which are numbers. Not modelled: a request that comes
over a kept-alive connection after `server.close`, and an error that mysql emits
while no query is running (nobody listens to it).

### 2.5 HelmInstall

`pc` is the function the script is in, and each action is one of its functions or
one external command of it that can fail or be interrupted on its own: the two
downloads, unpacking, the copy, which empties the installed file (`CopyBegins`)
before it fills it (`CopyEnds`). `Exits` is `exit` or what `set -e` makes of a
failure: the EXIT trap runs (`FailTrap`) and its status is the script's. Where the
code hides a failure (`local x=$(...)`, the `if !` around
`checkHelmInstalledVersion`, a pipeline whose last command is `head`), the action
goes on with the empty text `None` instead. `Interrupt` is a signal the trap still
sees, `CutTrap` one during the trap (or an error of its `rm`), which ends it, and
`Kill` one that nothing sees. `mktemp` makes the directory (`MakeTemp`) before the
shell assigns its name (`AssignRoot`); `cleanup` removes it only if it knows the name
(`root`), at the end of a good run (`Cleanup`) and in the trap. `cut` is history: the
runs that were interrupted between the two or in the trap.

A file is `"release"` (what was published under `TAG`), `"empty"`, or `"other"`: an
error page, which curl without `-f` takes for a download, or a damaged or different
archive. `bin` is a release, `Absent` or `Broken`. Checksums and signatures are taken
to tell a release from everything else; a checksum that was accepted because
openssl printed nothing and the checksum file was empty sets `masked`. Such a package
is not `Checked`, and `UntouchedUnlessProved` says nothing of it: the script installs it
although checks are on (see 6).

### 2.6 Modal

`pending[n]` holds the callbacks that wait for the end of node `n`'s transition, in
the order `one(...)` bound them; `TransitionEnd` (the browser) or `EmulatedEnd`
(`emulateTransitionEnd`, after `due[n]` ticks of 150 ms) moves them all to
`running`, and each then runs as an action of its own, with nothing in between:
scripts are not interrupted. `Show` and `Hide` are the two methods up to their
first callback, `Reveal`, `Shown`, `HideModal`, `Remove` and `Closed` the
callbacks. A new backdrop is a new node. `removeBackdrop` takes whatever backdrop
is present, with the callbacks that wait for it, as in the code.

Mouse down in the dialog, up beside it and the click that some browsers send after
it are three actions. When the dialog is shown again before it is hidden,
`hideModal` calls `backdrop`, which binds a second handler for clicks
(`clickTwice`). `clean` is history: the dialog was opened on a page without
remains of an earlier opening, and was not closed before its backdrop had faded in.
Nothing is claimed of the others, since then the code does leave remains (see 6).

### 2.7 Collapse and Carousel

`Collapse`: the object a plugin keeps with its panel is `"none"`, made by the
panel's own trigger (`"child"`, it knows the accordion), or made by another panel's
`show()` (`"alone"`, it does not, and is thrown away at once, its flag with it:
`Orphaned`). `complete()` of a transition belongs to the object that began it, which
may no longer be the panel's (`own`). `hasty` marks behaviours in which a trigger
was first clicked while a panel was on its way.

`Carousel`: `interval` is `this.interval` and `timers` the number of intervals that
really run; `TransitionEnd` ends a slide and `Slid` is the event after the timeout
of 0 ms that follows; `to()` waits for that event (`waiting`).

### 2.8 Forms, UsersApi, Story, GoServers

`Forms`: each text typed is a new number, so that a text that is gone is known to be
gone. `Take` and `Refuse` are the server; `Answered` and `Failed` are the two ends of
`await axios.post`, `Answered` empties the input of Fib.js, whatever is in it then,
while NewTask is emptied by `SubmitForm` at once. `careless` says of the last text
that it was typed while an answer was still to come. What the page shows in its lists
is `FibValues`'.

`UsersApi`: the password is one of six kinds, which differ in what they do as a part
of a path. `Throws` is an exception in an async handler outside of a `try`: with
node 14 (its Dockerfile) a warning, and a request nobody answers. A call of auth-api
ends with a status or an error, or `Hang`s: axios has no timeout.

`Story`: a pod's file is the claim's or its own (`Sharers`). `ReadFails` is any error
of `readFile`, with a file or without. `Exit` ends a process with its requests,
`Restart` starts the container again with the same emptyDir, `Replace` is a new pod
with a new one.

`GoServers`: each start is a goroutine that listens, sets its field (`Make`), and
serves what it reads there (`Serve`), which need not be what it set: both starts of
jwt-server use one field; `ServeTLS` may also fail over its certificate. Field writes and reads are one step each: they are single
words. `exit` is the first of the competing ends of the process.

## 3. Runs and bounds

| Run | Asks | Bounds | Distinct states |
|---|---|---|---|
| `fib_values` | right answers, rows, the placeholder's return, refinement of `FibService` | 2 servers, 5 texts of every kind, 2 POSTs, no outside restart | 83 000 |
| `fib_values_faults` | what can be stuck or missing, and why; pending work ends | 1 server, 2 texts, 2 POSTs, 3 restarts of anything | 57 000 |
| `book_page` | late answers, every page is rendered | 1 page, no flood, v1, v2 and v3, connections of up to 1 or 4 ticks, all kinds of ratings, failing calls, 1 POST; timeouts 4, 6 and 2 ticks | 390 000 |
| `book_timeouts` | deadline, reviews survive ratings; the delay that hides reviews; calls left behind | 1 page, 1 flood round; the six routings of the VirtualServices in `networking`, ratings as fast as it likes or 5 ticks late, connections of up to 1 or 4 ticks; timeouts 4, 6 and 2 ticks; ratings are numbers and no call of reviews fails | 3 289 000 |
| `book_page_flood` | (violated) the flood is asynchronous | 1 page, 2 flood rounds, the code's timeouts, connections that take no time | ends at the violation |
| `tasks_api` | stored, failed, spoiled, the page; refinement of `TaskService` | 3 tasks, one poisonous; 2 fetches; 1 failed write, failed read or kill; a volume | 499 000 |
| `tasks_api_image` | what breaks the page, without a volume; every request ends | 2 tasks, one poisonous, 2 fetches, 2 faults | 273 000 |
| `tasks_api_tail` | (violated) the entry that is removed is empty | 2 tasks, 1 fetch, 1 fault | ends at the violation |
| `ratings` | answers: one each, traced to POSTs, never older; requests end, and the process that was told to | 2 requests of any kind, 2 products, 7 variants, 2 signals or kills | 35 000 |
| `helm_install` | success means installed; nothing unproved installed, of a package that was checked; no temporary files | 3 runs with any settings, 2 releases, 2 interrupts, kills or errors of the trap | 346 000 |
| `login_dialog` | the dialog is in order, survives drags, leaves the page free | 3 openings | 143 000 |
| `small_programs` | one panel open, one interval, positions reached, texts kept and not resent, calls answered, stories read, signals handled | 3 panels and 6 clicks; 3 items, 4 clicks or keys, 3 moves of the mouse or ends of the interval; 3 texts and 3 POSTs; 2 requests with any password, 2 ends of auth-api; 2 pods, 2 texts, 1 read, 2 ends of processes or failed appends and reads; both Go programs | 202 000 |

Why these are enough:

- *Fibonacci.* Each surprise of the two connections needs two POSTs at most: one
  whose placeholder is overtaken and one of the same or another text around it.
  Two servers make two publishers; a third repeats the second. With one server
  three restarts let a loss happen during the recovery from another, and during
  the recovery from that; for more servers the causes of a stuck field are proved.
  In `fib_values` servers are interchangeable (`SYMMETRY`).
- *Bookinfo.* The two runs that pass keep the order of the code's timeouts, red
  below productpage below the delay below black (2, 4, 5, 6 ticks for 5, 6, 14, 20),
  in fewer ticks, since the ages of calls that are open multiply. A connection of
  one tick keeps the red stars' two limits together (2 + 1) below the page's 4, as
  one of less than 0.5 s does in the code; one of 4 ticks reaches every limit and
  lets the red stars' two add up to the page's, as in the code. One flood round is a
  round before the one that is shown: four attempts, of which the calls of all may be
  open at once (`OpenBounded` allows one to three, by the lag and the routing). Pages share nothing but
  ratings, so one is enough. The theorems are about any timeouts in any order, any
  flood, any lag and any number of pages. The routings are the real ones.
- *Tasks.* A line is at most four marks. One torn line and one whole one after it
  show the glue; a poisonous one and a good one the split. Two fetches overlap in
  either order. Tasks and fetches are interchangeable except the poisonous ones.
- *Ratings.* The properties compare two answers, and a POST is answered like a
  GET. A second product shows that a POST stays with its own. The variants share
  no state. What holds for more requests is proved.
- *Helm.* A run can be spoiled by the one before it, which can be spoiled by the
  one before that: three runs. Two releases are the one that is installed and the
  one that is asked for; they are interchangeable.

- *Dialog.* What one opening leaves behind meets the next, and what is left by that
  one, reversed early, a third.
- *Small programs.* Three panels: the one that was open, the one that opens, and
  one that knows of neither; three items: a slide from one to the next with a
  position asked for that is neither. Three texts: one whose answer
  empties the second, and a third after both; two
  requests and auth-api down between their steps and up again; two pods that share
  a file or do not, and the read that follows two texts. The Go programs have no
  bound. They share no state, so that one run holds the behaviours of each.

Deadlock is not checked: the bounds on POSTs, requests, pages and faults are
used up at some point, and then the system rightly does nothing.

The `TypeOK` of each module holds in its run too; where it is not proved, TLC was
asked once.

Every property of a passing run has a mutant: a plausible mistake in one modelled
operator under which TLC finds the property violated in the same run.

## 4. Fairness

- `FibValues`: weak fairness of the event loops of the processes (`WorkerMessage`
  or `WorkerOverflow`, `Exec...`), of PostgreSQL and of the reconnections, which
  `retry_strategy: () => 1000` repeats for ever. None for POSTs and restarts.
- `BookPage`: weak fairness of time, of timeouts once they are due, of connections
  within `mesh.lag` (where a timeout is not sooner), and of answers once reviews has
  them. None for details and ratings: `PageRendered` holds though
  they never answer.
- `TasksApi`: weak fairness of the calls of auth-api (axios gets an answer or an
  error), of the file system's callbacks, and of the restart of the container
  (`restartPolicy` of a Deployment is `Always`). None for sending, failing and
  killing.
- `Modal`: weak fairness of scripts that run, of time, of the timers of
  `emulateTransitionEnd`, and of the end of a mouse event the browser delivers. None
  for what the browser reports of transitions, and none for the user.
- `Carousel`: weak fairness of `TransitionEnd` (by the browser or its emulation) and
  of the timeout of 0 ms. None for the interval and the user.
- `UsersApi`: weak fairness of the handlers, and of `Call` or `Hang`: a call ends or
  it never does. That it ends is not assumed, since axios has no timeout: whoever's
  call hangs is exempt in `CallsAnswered`. None for auth-api, which may stay down.
- `GoServers`: weak fairness of main (`Stop`, `Return`): the Go scheduler runs it.
  None for the goroutines that serve.
- `HelmInstall`: none; nothing bounds how long its downloads take.
- `Ratings`: weak fairness of timers, of the drivers' callbacks and of the callback
  of `server.close`, all of which node runs once they are due; a body that has
  begun is completed or cut off. None for requests, signals and the intervals.

## 5. Proofs

Proved with TLAPS for every value of the constants that the named assumptions
(`TextAssumption`, `FibAssumption`, `BoundAssumption`, `PageAssumption`,
`FileAssumption`, `TasksAssumption`, `RatingsAssumption`, `HelmAssumption`,
`ModalAssumption`, `ProgramsAssumption`) allow: any number of servers, texts, pages,
rounds, timeouts, lags, routings, delays, tasks, requests, products, releases, runs,
openings, panels, items, pods and faults. `PageAssumption` also says that one of the
timeouts of the versions in a routing is the longest, which holds of any finite set
of versions.

| Theorem | Module | Argument |
|---|---|---|
| `TypeCorrect` | `FibValues_proofs` | `TypeOK` is inductive; queues are typed by the texts POST accepts, which makes it say that no refused text ever travels |
| `AnswersAreRight` | `FibValues_proofs` | `RightAnswers` speaks of results in flight as well as of the hash, and is inductive with `TypeOK` |
| `TracedAlways` | `FibValues_proofs` | everything queued, in flight or recorded was POSTed |
| `ServiceImplemented` | `FibValues_proofs` | each step maps to a step of `FibService` or to a stutter; `Traced` and `RightAnswers` supply the guards |
| `QueuesKeepOrder` | `FibValues_proofs` | the two queues of a server agree counted from the end (`Aligned`): POST appends to both, Redis takes from the front of either |
| `PendingIsExplained` | `FibValues_proofs` | from `Aligned`: when a placeholder is executed its PUBLISH is either still queued, or it was executed and the placeholder is late |
| `SeenAlwaysHasEntry` | `FibValues_proofs` | every INSERT in flight too has an entry, a placeholder queued, or a loss |
| `RowsAlwaysMatch` | `FibValues_proofs` | `Booked`: rows and INSERTs in flight add up to the POSTs, or one went wrong; the INSERTs in flight are a finite set that is counted |
| `RegressAlwaysExplained` | `FibValues_proofs` | `Single`: a text that was POSTed once is in one place at a time, a publisher's queue, the worker's inbox, a result or the display, so a placeholder that follows its number is late |
| `TypeCorrect` | `BookPage_proofs` | one lemma per part of an action of the page |
| `PageInTimeAlways` | `BookPage_proofs` | `Deadlines`: the time spent is at most `LongestRequest` for each round and attempt that is over, plus the time of this one, connecting and waiting |
| `ReviewsShown` | `BookPage_proofs` | `Heard`: the call the page waits for is as old as the page has waited since it was connected, and no older than reviews' two limits add up to, so reviews gives up on ratings first, and every answer that is ready is a 200 |
| `DelayHides` | `BookPage_proofs` | `Hidden`: with the same clock, the call the page waits for is never ready: it is too young for ratings to have answered; `Routed`: every call went to a version of the routing |
| `AlwaysFresh` | `BookPage_proofs` | `Fresh`: the call the page waits for was sent with the attempt, so what ratings answered it is as new; only that call's answer is rendered |
| `AlwaysFew` | `BookPage_proofs` | `Spaced`: the ages of open calls lie at least one timeout of the page apart and none is older than the two limits of the routing's longest timeout together; age divided by timeout then maps them one to one into the bound |
| `TypeCorrect` | `TasksApi_proofs` | the type of a file that grows by lines and pieces of lines |
| `NothingHeals` | `TasksApi_proofs` | a separator with a bad entry before it stays one when marks are appended |
| `StoredAlwaysListed` | `TasksApi_proofs` | `KeptInv`: a task answered 201 is an entry of the file, what was known when a fetch was sent is in what the fetch has read, and an entry of a readable text is listed |
| `FetchAlwaysKeeps` | `TasksApi_proofs` | `ShownInv`: what the page shows is an entry of the file, and appends keep entries |
| `BreaksEarly` | `TasksApi_proofs` | `EarlyInv`: without a file no task is stored, so a fetch that is answered 500 was sent when none was, or its read failed although there is a file |
| `FailedIsNeverListed` | `TasksApi_proofs` | `FineInv`: a task listed in the file, in what was read or in an answer is not poisonous and its write is over; a torn line lists no task, alone or with the line after it |
| `OthersNeverSpoil` | `TasksApi_proofs` | `CleanInv`: without a torn or poisonous line the file is readable and ends with a separator, so whole lines can follow |
| `TaskServiceImplemented` | `TasksApi_proofs` | `EntryInv`: a task that was written is an entry before it is answered 201, and only a fetch that is answered 200 has tasks; one lemma each for a POST, a fetch and the end of the process; without a volume (`Forget`) too, which the run leaves out |
| `TypeCorrect` | `Ratings_proofs` | with `Asked`: whoever waits for a timer or a database asked for a product, and has no answer yet |
| `AnsweredOnceAlways` | `Ratings_proofs` | `Effects`: whatever a step of a request is, it comes to a refusal, ratings, a POST or a wait; each ends at most one request, once |
| `AnswersAreTraced`, `NeverStepsBack` | `Ratings_proofs` | `Books`: the store counts the POSTs of each product, an answer holds a number of them, and that number only grows |
| `ConnectionsClosed` | `Ratings_proofs` | inductive as it stands |
| `HealthIsTruthful` | `Ratings_proofs` | inductive as it stands; no run repeats it |
| `TypeCorrect`, `SuccessAlwaysInstalls` | `HelmInstall_proofs` | `Progress`: how far the package is proved at each step; `Told`: what will be reported as success is installed already |
| `UntouchedAlways` | `HelmInstall_proofs` | `Progress` at the two steps of the copy; it says nothing of a package that was not `Checked`, as with a `masked` checksum |
| `TempAlwaysRemoved` | `HelmInstall_proofs` | `Rooted`: a run has no directory before `MakeTemp`, and one whose name it does not know only where it was interrupted before `AssignRoot`; so only runs that were killed or cut leave one |
| `TypeCorrect` | `Modal_proofs` | `Counted`: backdrops on the page, closings under way and the dialog that is shown are two per opening at most, so that there is a node for the next backdrop; `Queues`: the callbacks of one event are of one kind |
| `AlwaysInOrder` | `Modal_proofs` | `Phases`: a dialog opened on a clean page is fading in, opened, fading out, removing its backdrop, or gone, and each phase fixes every callback that waits, every handler and the width of the page |
| `DragsKeepOpen` | `Modal_proofs` | `Mouse`: between the release of the button and its click the flag is set and no callback runs; `Phases`: a clean opening binds one handler, which is the one that uses the flag up |
| `AlwaysSteady` | `Programs_proofs` | `CarouselInv`: the interval that runs is the one `this.interval` has, so each `clearInterval` finds it |
| `AlwaysOneOpen` | `Programs_proofs` | `CollapseInv`: until a trigger is clicked for the first time while a panel is on its way (`hasty`), each panel is shut, wide, opening, closing, or an orphan of another one's `show()`; at most one is wide or opening |
| `AlwaysTakenOrKept` | `Programs_proofs` | `FormInv`: a last text that was typed while no answer was to come is in the input or was taken, and each POST whose answer is to empty the input is that text's, or the text was taken before |
| `NothingResent` | `Programs_proofs` | with `FormSent`: a text of a POST that is still in the input is one of Fib.js that has had no good answer |
| `StoredAlwaysRead` | `Programs_proofs` | `StoryInv`: what was answered 201 is in the file of every pod that shares it, and what was known when a GET was sent is in the story it was given |
| `ReadyAlwaysStops` | `Programs_proofs` | `GoInv`: the field of a goroutine that serves is set, and stays set |

`PageInTime`, `ReviewsAlwaysShown`, `StoredIsListed` and the others are not
inductive as they stand, since they speak of finished pages and answered
fetches only; the invariants named in the table carry what makes them true while
requests are still under way.

Every safety property of a passing run is proved. Only model-checked is liveness
(`PendingEnds`, `PageRendered`, `EveryRequestEnds`, `StopEnds`, `Closes`, `Reached`,
`CallsAnswered`, `SignalEnds`), which is out of the prover's reach. That `fib` of a
number is a number is induction over data, which the prover cannot do with the
library's theorems; it is the assumption `FibAssumption`, and TLC evaluates it for
the numbers of each run.

## 6. Where the code and its comments disagree

- `FloodAsynchronous`, run `book_page_flood`. `productpage.py:248` says that the
  flood is sent "asynchoronously". `getProductReviewsIgnoreResponse` is a coroutine
  that calls the blocking `getProductReviews` and never awaits, so the requests run
  one after the other and the page waits for all of them: with a slow reviews
  each costs it two attempts of 3 s and the time their connections take.
  `PageInTime` gives the bound that the code does keep.
- `LastEntryEmpty`, run `tasks_api_tail`. `tasks-app.js:41` says that the entry it
  removes is the "last, empty entry". After an append that failed half way it is a
  torn entry; GET answers 200 without it, and the next stored task is glued to it,
  after which no GET succeeds (`SpoiledForever`).

Facts the models show that no comment denies:

- Fibonacci: a field can say "Nothing yet!" for good when its placeholder arrives
  late; one poisonous text ends the worker with the messages of others; what is
  typed while an answer is on its way is emptied by that answer.
- Bookinfo: with black stars and slow ratings the page never shows reviews although
  each call of reviews succeeds. With red stars a connection to ratings of more than
  half a second, followed by a slow answer, hides them too: the two limits of 2.5 s
  add up. A login dialog that is closed before its backdrop
  has faded in is shown all the same, by the callback that was waiting; and one that
  is closed that early, or opened again before its closing is over, may end up on the
  page without the backdrop the plugin knows of, or leave a backdrop that nobody
  removes. In an accordion whose trigger is clicked for the first
  time while a panel is on its way, two panels can be open.
- Tasks: a title that holds `TASK_SPLIT` spoils the tasks file; in the deployment
  without a volume each crash empties it. A login is never answered unless auth-api
  answers 200: the line for "Logging in failed!" cannot be reached, since axios
  rejects every other status and nothing catches it.
- Story: with several pods and an emptyDir a story is split over the pods.
- Go servers: both goroutines of jwt-server may serve the same server, and `stop`
  closes the one that set the field last; a signal before the field is set panics; whether a
  clean stop exits with 0 or 1 is a race between the return of main and `log.Fatalf`.
- Helm: a checksum file that is empty and an openssl that fails are taken for a good
  checksum (`masked`), and an unproved package is installed with checks on. A run that
  is interrupted just when `mktemp` has made its directory, or again in the trap,
  leaves it. When the page of Helm's releases cannot be loaded, a broken helm is reported
  to be the latest one (`testVersion` looks for the name on the PATH and does not
  run it).

## 7. What is not modelled

- Wording, styling, logging, headers that are forwarded for tracing.
- Manifests, charts and documents (`Resources_manifest_file`, `ArgoCd`,
  `ArgoRollout`, `Helm`, `jenkins`, `Terraform_Kubernetes_Resources`,
  `Access_Eks`, `MicroService`, `mongo-app-project`, Istio's `networking` and
  `security`): no program logic; the controllers that act on them are elsewhere.
- Vendored and generated code: jQuery, React boilerplate, charts, and of bootstrap
  the plugins no page of Bookinfo uses (alert, button, dropdown, tooltip, popover,
  scrollspy, tab, affix). Of the plugins that are modelled the pages use the dialog;
  their script is loaded whole, the button of a collapsing navigation bar is in an
  HTML comment (`productpage.html:48-71`), and there is no carousel on them.
- Programs without state: details, helloworld, the EKS demo, tcp-echo, health-check,
  the WASM plugin; the decisions of extauthz and the 60000 bytes its headers are cut
  to, functions of one request whose subject is text; login, logout and the
  `/api/v1` routes of productpage.
- Scripts (`cleanup.sh`, `setupkind.sh`, `generate-workload.sh`, `loadgen.sh`):
  lines of kubectl, docker, openssl and curl, whose effects are in a cluster. One of
  the listed hazards is theirs and has no property for that reason.
- Of modelled programs: lengths of texts and of time below a tick, HTTP
  connection reuse, memory and thread limits, more than one pod of tasks-api, a
  modal dialog without a backdrop or with a remote content, a carousel without
  transitions.
