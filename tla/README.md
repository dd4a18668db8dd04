# Shimpz Admin in TLA+

Shimpz Admin is the Rust backend (and the Svelte application it serves) through which a
person signs in to a Space, talks to Teams of assistants and keeps the record of both.
Teams run elsewhere: Admin sends them chat turns over HTTP, keeps what they answer, and
has to get this right while turns queue, sessions end, people press Stop, writes fail and
Admin itself restarts. This directory holds TLA+ modules of that part of Admin, the TLC
configurations that model-check them and the TLAPS proofs about them.

## 1. Inventory

### The parts of the system

| Part (`backend/src/`) | State it keeps | Operations | Correct when | Module |
|---|---|---|---|---|
| Chat gate `chat/gate` | limit, slots in use, one queue, resting and reading counts; one mutex | `slot`, `acquire`, `busy`, release, `set_limit`, drops of its guards | no slot leaks, nobody is stranded, first in first out, bounded | `Gate` |
| Worker lanes `lanes` | two semaphores, an atomic state per job | `submit`, the job's task, `cancel`, `wait` | permits come back, one end per job, cancellation takes effect | `Lane` |
| Durable turns `chat/durable` | `turns.json`, the set of owned turns | `record`, `release`, `remove`, `revoke`, `unowned`, the sweep | no turn is lost, none delivered before it is committed, records go | `DurableTurns` |
| Chat turns of a run `chat/socket`, `chat/delivery` | a run's turn and its task, its pending challenge, Stop and sync tasks | submit, continue, sync, answer, Stop, deliver, end of the run | what is shown belongs to a turn it is kept under; work ends | `DurableTurns`, `Pauses` |
| Run registry and relay `chat/run` | runs by Team, watchers, frames, snapshots | find or create, watch, submit, publish, sweep, end | a page sees its run's steps once and in order; ended sessions stop | `ChatRuns` |
| Assistants of a chat `chat/assistants`, `chat/lifecycle.rs` | the message's route, plan, speculation, proposal | classify, plan, install, propose and decide an uninstall | what a plan names runs before its task; a proposal ends once | `Candidates`, `Assistants` |
| Team's answers and a person's `chat/local`, `chat/human.rs`, `chat/projection.rs` | password failures, the ceremony's permit | project an answer, check an answer | a page is shown only what it can answer; Team is told only what fits | `Answers` |
| Catalog and assets `chat/catalog`, `chat/assets.rs` | a snapshot per language, the icon cache | read, refresh, page, icon | a joined catalog is one publication; the cache is counted | `Catalog` |
| History store `history` | rows per turn, the Team's resumable turn (SQLite) | `append_*`, `finish`, `bind`, notices, pages, `clear_team` | a repeated commit is the same row; every row can be read | `History`, `Rows` |
| Teams and Space `team/{names,order,history}.rs`, `space` | the saved order, two locks, the host's capability | create, rename, delete, reorder, reset | a transcript and a position are of the Team that has them | `Teams` |
| Browser sign-ins `team/sign_ins.rs` | the tracked sign-in of each Team | start, save, cancel, end with its session | one that runs is forgotten only for a late answer about another | `BrowserSignIn` |
| Supervisor key `space/supervisor_key.rs`, `record/identity.rs` | the key, a pending key, a published file | `rotate`, `resolve`, the retry task | Admin holds a key Team accepts, and only that is published | `Keys` |
| Sign-in `signin`, `record` | the record and its factors, tickets, challenges, throttles | ceremonies, factor changes, recovery | a ticket, a code, a challenge is used once | `SignIn` |
| Sessions `signin/sessions.rs`, `session/registry.rs`, `session/socket.rs` | signed sessions, deadlines, sockets, calls, step-up tickets | issue, touch, revoke, expire, handshake, call, reply, close | no socket outlives its session; every call is accounted for | `Sockets` |
| Topics and notices `session/topics.rs`, `session/outbound.rs` | a revision per topic, listeners, a bounded queue | change, subscribe, read, deliver | a page that stays open shows the last state | `Topics` |
| Integrations `integrations` | one-use handoffs, bindings at Team | authorize, start, callback, complete, cancel, sign-out | a binding is given once, to the session it was asked for | `Integrations` |
| Routines `routine` | wake, hint, run slots, open challenges, openings | tick, claim, run, deliver, answer, manage | a due run starts, a notice is kept before it is acknowledged | `Routines` |
| Space pages, HTTP, process, files, vendored code | none that several steps share | relayed calls, parsing, I/O | not a matter of state | - |

`PROJECT.json` lists all of them with their files and status.

### How they interact

A chat operation asks the **gate** for a slot. With it, its run records the turn in
**turns.json**, submits a job to the **turn lane**, and the job sends the turn to Team.
Team answers with a terminal (a reply, an error, a challenge), that it already settled the
turn, that the Space is busy (the operation rests at the gate and asks again), or not at
all (it is sent again). The run commits the ending to the **history**, tells Team it was
delivered, and Team drops what it kept; then the record goes and the turn is released.
Whatever a run leaves behind - because it failed half-way, its session ended or Admin
died - is taken by the **sweep**, a task that wakes on a timer: it sends the turn again
(Team attaches the send to the turn it has) and finishes the same protocol, or revokes a
turn whose grant ended. **Sessions** end on their own and mark their turns revoked
through listeners. Stop works on the lane's job, on the resting operation or on Team,
whichever has the turn.

Before a message becomes a turn, the run classifies it and installs the **Assistants** its
plan names. Team may pause a turn on a **challenge**: the run binds the turn in the history
as the one the Team may resume, shows what a person has to answer (a human request, an
**Integration** to connect) and sends the continuation; the **answers** are checked against
what was shown. Pages watch a Team's **run** over their session **socket** and hear of other
changes through **topics**. **Routines** run without a page: a scheduler claims due runs of
Team, keeps their notices in the same history and their challenges until a person answers.
**Teams** are created, deleted and reset under two locks that also order the clearing of the
history and the admission of messages. Every call to Team is signed under the **Supervisor
key**, whose rotation is settled with Team across failures; the key, the factors and the
session secret are parts of one **record**.

### What is hard

* Operations run on a multi-threaded runtime; sections under a mutex are short, and what
  follows them (waking a waiter, telling a position, taking a second lock) interleaves.
* Any task can be aborted at any await; the guards' drops must then undo exactly what was done.
* Admin may die between any two steps of a protocol that spans a file, a database and Team.
* Team's answers get lost, and a request repeated may meet a turn that ended meanwhile.
* Session ends, grants that lapse, Stop, the run and the sweep all want to end one turn.
* A state is checked under one lock and acted on under the next: a run found idle, a session
  found current, a ticket consumed before the transaction that needs it.
* Ids are used again: a Team of a deleted Team's id, a Routine run leased twice, a Browser
  session after another.

The hazards, each at its line and with the properties that would catch it, are in `PROJECT.json`.


## 2. Modules

| Module | Models | Used by |
|---|---|---|
| `SlotPool` | abstract: a bounded pool whose bound may change | `Gate`, `Lane` implement it |
| `Gate` | `chat/gate/mod.rs` | `MCGate`, `ChatProofs` |
| `Lane` | `lanes/mod.rs` | `Queues` |
| `Topics` | `session/{topics,outbound,calls}.rs`, the pages' `socket.js` and `synced.js` | `Queues` |
| `Queues` | composes `Lane` and `Topics` | `MCQueues`, `QueuesProofs` |
| `DurableTurns` | `chat/durable`, the runs of `chat/socket` and `chat/delivery` that own turns | `MCDurableTurns`, `ChatProofs` |
| `Selections` | what a filter keeps of a sequence | `History`, `Catalog`, `Candidates` |
| `History` | `history/store`: transactions, views and pages as operators | `Teams`, `Routines`, `Pauses`; `HistoryProofs` |
| `Pauses`, `PauseValues` | `chat/socket`, `chat/delivery`, `chat/connection.rs`, `chat/task_resume.rs` over a Team's transcript | `MCPauses` |
| `ChatRuns` | `chat/run`, the chat channels of `session/socket.rs` | `MCChatRuns`, `ChatRunsProofs` |
| `Routines` | `routine` | `MCRoutines`, `RoutinesProofs` |
| `Teams` | `team/{names,order,history,methods}.rs`, `team/bridge`, `space/{reset,host_reset}.rs` | its run, `TeamsProofs` |
| `Sockets` | `signin/sessions.rs`, `session/{registry,socket,calls,stepup}.rs` | its run, `ChatProofs` |
| `Keys` | `space/supervisor_key.rs`, `record/identity.rs`, `supervisor/identity.rs` | `BrowserSignIn` |
| `BrowserSignIn` | `team/sign_ins.rs`, composed with `Keys` | its run, `BrowserSignInProofs` |
| `SignIn` | `signin`, `record/{mod,factors,classify}.rs` | `MCParts`, `PartsProofs` |
| `Candidates`, `Assistants`, `AssistantValues` | `chat/assistants`, `chat/lifecycle.rs`, `chat/delivery/{route,plan,uninstall}.rs` | `MCParts`, `TeamsProofs` |
| `Catalog`, `CatalogValues` | `chat/catalog/store.rs`, `chat/assets.rs`, the pages' `assistants/api.js` | `MCParts`, `PartsProofs` |
| `Integrations`, `IntegrationValues` | `integrations` | `MCParts`, `PartsProofs` |
| `Answers`, `AnswerValues`, `Fields` | `chat/local`, `chat/human.rs`, `chat/projection.rs` | `MCParts`, `ChatRunsProofs` |
| `Rows`, `RowValues`, `Fields` | the writers and the reader of `history` rows | `MCParts`, `PartsProofs` |

`MC*` modules and `*Values` give TLC the instances; `*Proofs` hold theorems. `ChatProofs` is about three modules
at once, so `DurableTurns` and `Sockets` name their specification, its parts and their type invariant after themselves
(`TurnsSpec`, `SocketsSpec`). A definition with a
comment that begins "A bug:" or "deviation:" is not the code. It is a changed form of the
definition after it, the way a plausible bug would change it. The mutants listed in `PROJECT.json`
put one of them in the place of that definition and TLC then finds the property violated: it
depends on the code it is about. In every module Team, the Store and the providers are external:
they are modelled by what Admin may be answered, and by what they are known to have done.

### SlotPool

`held` is who has a slot, `bound` how many may. Work enters only while the pool is within
its bound; a lowered bound evicts nobody.

### Gate

The state is `GateState`, variable by field: `limit` (`NoLimit` is `None`), `running`,
`waiting` (the `VecDeque` of waiters, one per operation), `resting`, `reading`, `asked`
(`limit_read` holds a shared future). `granted` is who was sent its grant and has not
woken: the slot is counted, its owner is not running yet. `pc` is where an operation is
between two locks or awaits; `telling` holds the positions a task computed under the lock
and has yet to tell; `shown` is what the run of each operation was last told.

| Code | Actions |
|---|---|
| `slot`, `read_limit`, the shared read, drop of `Reading` | `Begin`, `ReadLimit`, `ReadRefused`, `TeamAnswers`, `EndReading`, `CancelReading` |
| `acquire` | `AcquireFree`, `AcquireRefused`, `AcquireQueued`, `Start`, `Wake` |
| drop of `Waiting` | `CancelWaiting`, `CancelGranted` |
| `Held::release`, `Held::busy`, drop of `Resting` | `Finish`, `Busy`, `Rest`, `EndRest`, `CancelRest` |
| `set_limit`, `tell` | `SetLimit`, `Tell` |

`busy` takes the lock twice, so it is two actions, and others act in between. A waiter's
remembered place is not a variable: each section that changes the queue ends with `tell`,
so it is the index in the queue the section found (`Moved`).

### Lane

`admitted` and `working` are who holds a permit of either semaphore, `queue` tokio's fair
queue for workers (external: a permit given back goes straight to the head). `state` is the
job's atomic, `task` the spawned task, `canceller` the thread inside `Job::cancel`, `notified`
the stored `notify_one`, `result` what was sent to whoever waits. The task's `select!`
is `TakeWorker`, `QueueForWorker`, `WorkerGiven` and `Notified`; the compare-and-exchange
is `Start` against `Cancel`. `End` sends the result before `DropWorker` and `DropAdmission`
give the permits back, in the order of the source: who is told the end may, on another thread,
find the lane still full.

### DurableTurns

One element of `Turns` is one send: one nonce, one history turn, one session, of a Team of
its own; sends meet in `turns.json` (`kept`, bounded by `MaxTurns`) and in the sweep, which
settles one at a time.

| State | Code |
|---|---|
| `kept`, `ended` | `turns.json`; `ended` joins the revoked mark, passed deadlines, a changed session secret and a withdrawn Origin: `reattach::current` tells none of them apart |
| `reply`, `status`, `bound` | the reply row ("steps" with a receipt of the steps shown, "bare" without), the status row, the Team's resumable turn |
| `owned`, `run`, `answer` | `Turns.owned`, the run's task, what it has to deliver |
| `sweep`, `todo`, `turn`, `resent` | the sweep's task and its local variables |
| `live` | sessions current in this process (a restart ends them all; their grants stay) |
| `inFlight`, `team` | external: requests on their way, Team's journal |

| Code | Actions |
|---|---|
| `submit_team_turn`, `continue_team_turn` | `Record`, `RecordRefused`, `Own`, `Send`, `Refused`, `Answered`, `Unreached`, `SpaceBusy`, `Rested` |
| `deliver_turn`, `settled` | `Deliver`, `Settle`, `Release` |
| `socket/stop.rs`, `end_run`, `close_connection` | `Stop`, `Cancelled`, `Stopped`, `Close`, `Closed` |
| the session listener, time | `SessionEnds`, `GrantLapses` |
| `Turns::unowned`, `reattach` | `SweepReads` to `SweepReleases` |
| the process, Team | `Restart`; `TeamStarts`, `TeamEnds`, `TeamLoses`, `TeamStops` |

A write may always fail, an answer of Team may always be lost after Team acted on it, and
`Restart` may come at any step. `Written` and `WrittenFinish` are the history's transactions:
a commit under a used key succeeds only for the same row, and only a row with `finish`
(or a reply) ends the resumable turn.

Reductions: the mark of `Turns::revoke` is merged with the end of the session as a write
that happens or not; the 15 s `STOP_RESULT_WAIT`, `Turns::forget` (a deleted Team or a
reset Space takes its history along) are not modelled here, and the continuation of a paused
turn after a person's answer is in `Pauses`. `Stop` is not enabled in the pause before a send that did not
reach Team is tried again (`turn.rs:250`): there the source ends the turn and its loop sends it once more.

### Topics

One topic: `state` is what it names (the number of changes made to it), `revision` its counter.
A change is written, counted and told to each listener in steps of its own (`Write`, `Changing`);
a socket subscribes, its bounded `queue` keeps a notice per topic or overflows, which closes
the socket; a `call` takes the revision first and reads the state later; a `page` keeps the
newest revision it was told and reads again when its value does not reach it.

### Sockets

| State | Code |
|---|---|
| `signed`, `tracked`, `idle`, `toTell` | sessions whose token verifies; `Sessions::tracked` in order of activity; the idle ones; ends whose listeners are still to be called |
| `session`, `stage`, `closed`, `registry` | each handshake, how far its service or teardown is, the first close code, the socket registry |
| `slot`, `tickets` | the socket's step-up ticket, the tickets kept |
| `call` | each call: its socket, its place from the frame to the answer, its ticket |

`Admit` checks the session and `Add` registers the socket in two steps, as `End` stops tracking
and `TellEnded` closes: that crossing is what `EndedSessionEnds` is about. `AbortCalls`, `Unregister`,
`Revoke` and `Discard` are the teardown in the order of the source, beside calls on the lanes
that go on; a call that keeps a ticket after the socket's was discarded is the other one. The
byte budgets of a socket are left out.

### SignIn

`rec` is the record in the store's file and `audit` its journal; both survive `Crash`. `limiter`,
`tickets`, `challenges`, `sessions` and `tracked` are memory. `req` holds requests served at the
same time; each ceremony (`Setup`, `Login`, `ConfirmSetup`, `ConfirmLoginTotp`, `ConfirmLoginPasskey`,
`ConfirmLoginRecovery`, `ConfirmRecoveryEnrollment`, `ConfirmOperation`, passkey registration) begins with one of these
actions and goes on by `ReadGeneration`, `Derive`, `CompleteTotp`, `Assert`, `SpendCode`, `EndAll`,
`ReadSecret`, `SetSession` and so on, one per step outside the store's lock. A transaction of the
record (`Mutate` with `VerifyTotp`, `Spend`, `ReplaceCodes`, `AddPasskey`) is one step and writes its
journal entry or fails. A write that fails leaves the record as it was; a replaced file whose directory
could not be synced or whose identity could not be read (`fsio/mod.rs:64-70`, `record/mod.rs:158`), which is reported as
failed although it is in place, is left out. The session secret is read after the transaction that signs in, as in
the source. `seen` is a ghost: what was accepted and how often, the refusals counted and those no acknowledgement
took back. Origins, ticket lifetimes, eviction and sign counters are left out.

### Keys and BrowserSignIn

`Keys` has the record's current and pending key, Team's `pin`, the published `file`, the rotation
lock (`held`) and where each page's request and the retry task are (`task`, `woken`). `Ask`, `Begin`,
`Resolve`, `AskTeam`, `Unanswered`, `Adopt`, `Abandon`, `SettleRefused`, `Publish` are `rotate` and
`resolve` cut at each call, transaction and file; `Restart` drops tasks and lock and publishes again.
Assumed of Team: it switches its pin only for a request signed by the pinned key, answers 403 or
409 to any other signer and confirms the key it pins; a request that was given up on has
reached Team by then or never does.

`BrowserSignIn` extends it with the sign-ins of one Team's Browser: `live` Supervisor sessions,
`starts`, the Tracker's `running` and Team's `browser`. A start is admitted and listed before Team is
asked (`Admit`, `Track`); Team starts the Browser (`TeamStarts`), and Admin handles its answer in a later step
(`Started`) or hears of none (`NotStarted`: refused, or a call lost on either way). `Started` inserts its session
whatever is tracked, as the source does: when the Browser of an earlier start ended and the next start was
answered first, the late answer takes the place of the session that runs, which neither its own
session's end nor the sweep cancels any more. The ghost `displaced` has the sessions this happened to;
`TracksRunning` says that there is none (section 3). `Finish` saves or cancels;
`SessionEnds` tells the listener, `SessionLapses` (age) tells nobody and is found by the `Sweep`;
`Reborn` is a restart. A sign-in whose start's answer was lost, or that a restart forgot,
ends only by Team's own limit. A settlement by the retry task between a page's `Begin`
and its second `Resolve` answers that page with an error although the rotation succeeded.

### History and Rows

`History` has no variable. A store is a record of `rows`, the `last` position and the turns `bound`
as resumable; each transaction of the source is an operator that returns whether it committed and
the store after it (`AppendUser`, `Written`, `Bind`, `Finish`, notices and their acknowledgement), and the
reads are operators too (views of a row, pages bounded in rows and bytes). `origin` is
no column: it records which life of a Team a row was written for. The conversation window sent
along with a turn is left out.

`Rows` is about the shapes of rows: `Write`, `WriteNotice` and `WriteAnswer` shape events into rows,
and `Decoded` is the reader, written apart in the source. One row the reader does not admit
makes its whole transcript unreadable, so every row a writer admits must be readable. Versions
stay within 64 bits.

### Teams

`team` is Team's inventory (external), `saved` is `team-order.json`, `h` the store, `order` and `lifecycle` the
two locks, `req` the requests with where each is, `turns` the runs that may still write,
`capability` the host's. A Team id is used again, so `life` numbers the Teams made. A creation
(`LockOrder`, `Make`, `ClearCreated`), a deletion or reset (`LockLifecycle`, `CallTeam`, `Wipe`, `Forget`, `EndRuns`), a
reorder and the admission of a message (`AdmitCheck`, `AdmitAppend`) go step by step; `Turn...` are what
a run writes later, under neither lock. A creation clears the transcript after its locks: a late
clear may take a message already admitted to the new Team, so `OwnTranscript` says what rows may
be there and not that all are; `EndRuns` may end the run of a Team created again. `Crash` ends every run
but that of a bound turn: that the sweep over `turns.json` may still write the reply of another after a restart is in `DurableTurns` only.

### ChatRuns

`run` is every run created, `current` the one in the registry, `page` each page's channel and the
threads in its start, submit and leave, `seen` the steps it was handed, `valid` the current
sessions, `sweep` the sweep task. Finding a run and watching it, finding it idle and retiring it,
starting work and noting its authority are two actions each, as they are two locks each. The
following are behaviours of the code the model shows and no property forbids: a run found idle is
retired after a page began to watch it, which then loses its frame; the sweep on its way out
is taken for one that runs; a session's end is compared with the authority of the previous work
while a new frame queues; a channel that starts after it left is watched by nobody; a page that attaches
between the start of new work and its note is still shown the steps of the work before (`Live` says which steps
are of the work under way). A run's place in the gate is `Gate`'s; detaching is the closing of a socket.

### Pauses

`team` is Team's one turn of the Team, `calls` the request of each turn, `hist` the transcript, `conn` the
run's `Connection` (challenge, its turn, the receipt), `active` the active turn with its delivery,
`stop`, `sync`, `cont` and `ender` the tasks beside it. A frame's dispatch is one action but where it
starts a task (`SubmitTeamTurn`, `StopChat`, `Sync`, `HumanResponse`, `EndRun`); a task is cut at every await
another can use (`DeliverTurn`, `BindChallenge`, `ShowChallenge`, `StopAsked` to `StopTerminal`, `SyncObserves` to
`SyncTerminal`, `Close...`). `Crash` leaves the transcript and Team. The ghost `crossed` says that
a Stop may have been of another turn (`Crosses`). Merged: the route and the gate are
the stage "gate"; a password check and its task are one step; one Stop task at a time.
`DurableTurns` has the retry of an unreached Team.

### Assistants and Candidates

`Candidates` is the pure part: words folded (`FoldOf`), the scores of an Assistant, the bounded directories
Team chooses from, the offers of a Space. `Assistants` is one run: `turn` the active message, `spec` the
capability plan speculated beside the classification, `conn` the proposal that waits, `rows` and `shown`
what the history keeps and pages were sent, `inv` Team's Assistants, which `Other` pages change
between any two requests. Scripts without spaces are left out, and a terminal's commit and its
sending are one step here. Behaviours of the code worth knowing: the version an uninstall shows was read before a
call that names only the id; a job that panics reports every item as pending.

### Catalog

`store` is how far the Store got in a list of publications, `entries` a snapshot per language,
`refresh` who refreshes, `icons` the cache, `reads` the reads under way: a browser joins pages of a bounded
size and starts again when the catalog's digest changed (`CatalogPage`), an icon comes from the cache or the Store
(`Icon`, `FetchedIcon`). A publication is its identities, sizes and whether its texts are admissible.

### Integrations

`handoffs` in the order issued, `calls` that wait for Team, `held` and `connected` at Team, each browser's
`cookies`, `signedOut` sessions. `Authorize` reserves, `TeamAuthorizes` and `Authorized` answer it, `OauthStart` and
`OauthCallback` are the browser's routes, `Complete` and `Cancel` a page's, `SignOut` and `Expire` take handoffs
out. A Cancel's call to Team may overtake the start it cancels; a lost answer of a completed
callback announces nothing; sign-out cancels the handoffs of the session presented only.

### Answers

`reply` is what Team answered, `event` what the page is shown of it (`Show`), `answers` what pages and
Routine pages answer, `passwords` the failures, the lock and who holds the ceremony, `told` what Team is
told. `Authenticate` waits for the ceremony, `Authenticated` ends the check made on another thread. A
restart, which forgets the failures, is left out, as is what a Stop shows. A required text
with a greatest length of 0 can be shown and not be answered.

### Routines

`team` is what Team holds of each run and each Team's challenge, `store` the transcripts, `sch` the
scheduler's task with its wake, its hint and its free slots, `workers` the segments under way, `kept` the open
challenges, `opening` each Team's lock, `call` a person's calls. `Fetch`, `Write`, `Acknowledge` deliver notices, `Reserve`,
`Claimed`, `Segment` and `RunClaimed` run them, `OpenLocked` to `OpenTold`, `Answer` to `ResumeAsks` open and answer a
challenge, `Routines...` are the calls by which a person manages Routines. Leases belong to workers; reads, which change
nothing, are not modelled; resuming a Routine does not wake the scheduler: the next tick finds it.

## 3. Runs

| Run | Bounds | Distinct states | Shows |
|---|---|---|---|
| `Gate` | 3 operations, limits 1-2 or none, changing at any time, a queue of 2 | 219,684 | `SlotsCounted`, `NoStrandedWaiter`, `Bounded`, `QueueOrder`, `ImplementsPool`, `WaiterServed` |
| `Turns` | 1 send, 1 record, 1 restart | 172,240 | `NothingLost`, `DeliveredAfterCommit`, `ShownStays`, `RecordGoes` |
| `Queues` | a lane of 3 jobs, 1 worker, 2 admissions; or a topic with 1 changer, 1 page, 3 changes, 2 reopened sockets, a queue of 1 | 46,017 | `QueuesCounted`, `OneEnd`, `ImplementsPools`, `CancelledLeaves`, `PagesCatchUp` |
| `Sockets` | 2 sessions of which 1 is tracked, 1 socket, 2 calls, 1 rotation of the secret | 692,000 | `CallsAccounted`, `EndedSessionEnds` |
| `BrowserSignIn` | 1 page that rotates, 2 keys, 2 sessions, 2 sign-ins, 1 fault, 1 restart | 281,676 | `KeysAgree`, `RecordCatchesUp`, `EndedSessionIsCancelled` |
| `Teams` | 2 requests at a time, 4 in all, 2 names with 2 ids each, 1 turn, 1 mishap, pages of 2 rows | 175,670 | `HistoryOfItsTeam`, `ReadsExact`, `EveryRequestEnds` |
| `ChatRuns` | 2 pages of 2 sessions, 2 runs of 1 operation each, a queue of 1 frame, 1 step, 1 session that ends | 1,010,000 | `RunsAsShown`, `EndedSessionStops` |
| `Routines` | 2 Teams with a long and a short run, 2 workers, 1 open challenge, up to 3 calls; the starts ask different questions | 232,400 | `RunsAccounted`, `AnswersOnce`, `DueRunStarts` |
| `Pauses` | up to 2 turns of a Team, 2 steps a turn; the starts' budgets of Stops, syncs, faults and ends | 201,580 | `PauseKept`, `BoundUntilEnded`, `WorkEnds` |
| `Parts` | 3 Assistants, 1 message, 1 fault, 1 change by another page; 2 languages; 2 sessions with 2 challenges; the answers of `AnswerValues`, the events of `RowValues`; 5 sign-in requests, 2 at a time, 1 restart | 1,197,903 | `PlansKept`, `CatalogWhole`, `HandoffsHeld`, `AnswersChecked`, `RowsKept`, `CeremoniesOnce`, `NothingUnrecorded`, `GivenOnce`, `FactorsOfTicket` |

`Queues` and `Parts` put parts that meet the others only by what they answer into one
run: a variable `part` says which one a behaviour is of, and the others stay at one of their
beginnings. `MCParts` extends the modules of its parts, so that the run checks the very properties the theorems name.

Why the bounds are enough to meet the cases:

* Gate: three operations over a limit of one or two give one that runs, one that rests or is granted and
  one that queues behind them, with a full queue and a refused operation; the limit changes
  under all of them. No operation differs from another, so what `WaiterServed` says of one it says of all.
* Lane: one job runs for ever, one waits for its worker, one is refused. Topic: the third change
  overtakes a read that a second one overtook, and a queue of one overflows.
* Turns: sends share only the file and the sweep's order, so one send with its run, the sweep, Stop,
  its session and a restart has every race of one turn; that sends do not disturb each other,
  whatever their number, is what the proofs add. A second restart repeats the first one's recovery.
* Sockets: a second session evicts the first; two calls can offer and take a ticket beside
  the teardown. BrowserSignIn: a second sign-in meets the late answers to the first's start and end; two
  keys are one rotation, which is either adopted or abandoned before another begins.
* Teams: two requests hold and want both locks; four of them create, delete and create again under
  the same id while an old turn writes. One mishap: what a Team keeps after two lost answers is
  not stated.
* ChatRuns: a run is retired or ended while the second page's frame makes another. One operation
  of a run is the bound of the run checked; its safety with two was checked as well, in more time than a run is given,
  and the theorem has no bound.
* Routines: the long run and the short one want one slot each; one challenge kept and a second one evicts it.
* Pauses: a second turn follows one that is paused, stopped, or lost. Each start trades turns
  for Stops, syncs, faults and ends of the session; together they have every pair of them. `PauseKept` and
  `BoundUntilEnded` were checked of 2 turns with 2 Stops, 2 syncs, 2 faults and an end as well, in more time than a run is given.
  What a page is asked and the resumable turn are kept unless turns `crossed`, a ghost that says when (below).
* Parts: a catalog of two pages changes between them; a second authorization of a session replaces the first;
  two requests present the same ticket or code, and a failure limit of two is reached.

`CHECK_DEADLOCK FALSE` is there where the bounds stop the system: all jobs, requests, calls, starts or
budgets are used up. `Gate` and `Turns` never stop: a limit may always be saved, the sweep always wakes.

**Fairness.** In the gate and the lanes: tasks that can go on are polled and timers fire
(weak fairness, the runtime's promise). Team answers the shared read of the limit or its
transport's deadline ends it. Team is not busy for ever to an operation that keeps coming
back (strong fairness of `Finish`). In the lanes nothing is assumed of jobs: one may run
for ever, and `CancelledLeaves` holds nevertheless. In the durable turns: the sweep's loop
goes on, a grant has a deadline, and Team and the disk do not fail every time they are tried
(strong fairness of the four steps of a revocation). Nothing is assumed of runs. Topics: a change,
an answer and a notice on the way go on, and a page opens its socket again. Sockets: listeners are called,
a socket's task goes on, its expiry timer fires. BrowserSignIn: each task's step, the retry task's timer and
the sweep. Teams: a request goes on although another may hold the lock it wants (strong: tokio's mutex
is fair). ChatRuns: the ended run's loop stops, work returns and the sweep's timer fires. Routines: the scheduler's
steps, a segment and its report, and Team's leases end. Pauses: the run's tasks, and Team's steps on a
request or a continuation it has; a person and a session need not do anything.

### Where the code and what it says of itself differ

Two runs state what a comment of the source says; TLC finds a behaviour of
the code that contradicts it. The findings in `PROJECT.json` quote both.

| Run | What TLC shows |
|---|---|
| `TurnsOwnedHasRun` | a turn its saturated lane refuses stays owned by no run: no sweep of this process settles it |
| `TurnsOneEnding` | a turn gets a reply and a status row, when the end of its session crosses its delivery, or when it is cancelled in its lane and then swept |

These are statements of the source that TLC refutes too. They are kept as definitions; name one
in the configuration of its module to see the behaviour.

| Statement | Source | What TLC shows |
|---|---|---|
| `Gate!QueueBounded` | `chat/gate/mod.rs:18`, `:303` | operations back from a busy Space queue beyond `MAX_WAITING`; what holds is `Bounded` |
| `Gate!RunningShowsNoPlace` | `chat/gate/mod.rs:23` | a place told late arrives after the `None` of the start |
| `DurableTurns!SameRow` | `chat/durable/reattach.rs:6` | the sweep commits a reply without the receipt the run kept: another row, refused until the grant lapses |
| `DurableTurns!BusyIsNoEnding` | `chat/durable/mod.rs:2` | a busy Space met by the sweep ends the turn as failed, though Team never ran it |
| `Pauses!StoppedIsStopped` | `chat/socket/stop.rs:1` | a Stop after `continue_team_turn`'s check and before it names its operation ends a turn whose send is under way |
| `Pauses!ShownUnderItsTurn` | `chat/delivery/challenge.rs:1` | a sync reads the resumable turn, then a challenge of an earlier turn that ran after it was shown as stopped |
| `Pauses!ShownAlwaysBound`, `Pauses!BoundAlways` | `chat/delivery/challenge.rs:1`, `chat/socket/stop.rs:1` | a Stop names the Team and no turn: when a message begins a turn beside an earlier one that goes on in Team after a crash or whose Stop is not over, or when Team answers a Stop before the turn's request reaches it, the Stop's answer is not of the turn it ends, and a turn Team paused is given up; what holds is said of turns that did not cross (`Crosses`) |
| `BrowserSignIn!TracksRunning` | `team/sign_ins.rs:12`, `:81`, `:358` | a start's answer heard after its Browser ended and the next start was answered takes that one's place: it runs, untracked, and is not cancelled with its session; what holds is `KnownIsTracked` and, of the others, `EndedSessionIsCancelled` |
| `Topics!PagesCatchUp` with two `Changer`s | `session/outbound.rs:3-4` | the older of two concurrent changes queues its notice last and takes the place of the newer one: the page stays stale until the next change |

## 4. Proofs

| Theorem | Module | Statement |
|---|---|---|
| `GateTyped`, `SlotsConserved`, `NobodyStranded`, `GateImplementsPool` | `ChatProofs` | `TypeOK`, `SlotsCounted`, `NoStrandedWaiter`, `ImplementsPool` of `Gate` |
| `AlwaysBounded`, `FirstInFirstOut` | `ChatProofs` | `Bounded`, `QueueOrder` of `Gate` |
| `TurnsTyped`, `NothingIsLost`, `CommittedBeforeDelivered`, `ShownForGood` | `ChatProofs` | `TurnsTypeOK`, `NothingLost`, `DeliveredAfterCommit`, `ShownStays` of `DurableTurns` |
| `PermitsAlwaysHeld`, `ToldOneEnd`, `LaneImplementsPools` | `QueuesProofs` | `PermitsHeld`, `OneEnd`, `ImplementsPools` of the lane in `Queues` |
| `QueuesAlwaysCounted` | `QueuesProofs` | `QueuesCounted` of `Queues`: the lane's permits, the topic's notices and revisions |
| `CallsAlwaysAccounted`, `NothingStartsOnceTold` | `ChatProofs` | `CallsAccounted` of `Sockets`; the safety part of `EndedSessionEnds` |
| `RunsAlwaysAsShown` | `ChatRunsProofs` | `RunsAsShown` of `ChatRuns` |
| `KeysAlwaysAgree` | `BrowserSignInProofs` | `KeysAgree` of `BrowserSignIn` |
| `RunsAlwaysAccounted`, `AnswersAlwaysOnce` | `RoutinesProofs` | `RunsAccounted`, `AnswersOnce` of `Routines` |
| `HistoryAlwaysOfItsTeam`, `ReadsAlwaysExact` | `TeamsProofs` | `HistoryOfItsTeam`, `ReadsExact` of `Teams` |
| `PlansAlwaysKept` | `TeamsProofs` | `PlansKept` of `Assistants` |
| `HandoffsAlwaysHeld`, `GivenAtMostOnce` | `PartsProofs` | `HandoffsHeld`, `GivenOnce` of `Integrations` |
| `CeremoniesAlwaysOnce`, `NothingEverUnrecorded`, `OnlyUnderItsFactors` | `PartsProofs` | `CeremoniesOnce`, `NothingUnrecorded`, `FactorsOfTicket` of `SignIn` |
| `RowsAlwaysKept` | `PartsProofs` | `RowsKept` of `Rows` |
| `CatalogAlwaysWhole` | `PartsProofs` | `CatalogWhole` of `Catalog` |
| `AnswersAlwaysChecked` | `ChatRunsProofs` | `AnswersChecked` of `Answers` |

All are for every set of operations, jobs, sends, calls, pages, runs or requests and every bound, from named
assumptions of the modules that TLC evaluates in their runs and that ask no more than finiteness, types and
what the source's constants satisfy: `GateAssumption`, `LaneAssumption` (as many admissions as workers at least) with
`QueuesAssumption`, `TurnsAssumption`, `SocketsAssumption` (room for one session, one socket and one call; `None` names
none of them), `ChatRunsAssumption` (every page has a session), `RoutinesAssumption` (finitely many runs, calls are
numbers because an opening lock nobody holds is 0, the types of the starts) and `TeamsAssumption` (the bounds are
numbers, a name has a candidate id at least, and `None` is no request) with `HistoryAssumption` (a page has room for a row),
`KeysAssumption` with `SignInsAssumption`, `IntegrationsAssumption` and `SignInAssumption` (a login limit above zero).
`RowsAssumption` and `AnswersAssumption` say what comes from outside. Of what is kept: an event is of a kind the
writers are given, a notice has its fields, a card that is valid has a name, and a row may be large enough for a status. Of what
is answered: the bounds of a frame are not below a request's, as the source's constants are; the kinds of request are different;
Team's JSON has a number where a number is read; and a page may answer any text and any list of different options.
`AssistantsAssumption` numbers the Assistants, finitely many, with the offers among them, and has texts for what is written or asked.

**Gate.** The inductive invariant `GateInv` adds to `TypeOK`, `SlotsCounted` and `NoStrandedWaiter` what
they need: an operation is in the queue at most once, who is in it or granted is queueing, never
both, and nobody is past reading while there is no limit. Counting is done in a
few lemmas (`CountAfterMove`, `CountAfterGrant`, `CountAfterWake`), and the effect of `grant()`
is stated once (`GrantStep`), so each action's lemma says only what it moves. `Admission`, proved
of every action beside the invariant, is what the refinement needs: slots are taken only
within the limit. `BoundInv` adds that fresh operations and readers are within `MAX_WAITING`: the code
bounds the queue's length when one is admitted, which is more than the fresh ones in it.

**Durable turns.** `NothingLost` alone is not inductive: a request may be on its way, a run
about to send, the sweep about to remove. `TurnsInv` therefore says of every turn (`Sane`) that
whatever may still reach Team is recorded or shown, that a turn settled as delivered is shown
and as revoked is shown or its grant ended, that a run settles only what is shown; and of the
sweep (`SweepSane`) that it tells, removes and revokes only with the same. `WrittenShows`
is the lemma on the history: a row it takes shows its turn and hides none.

**Lanes.** `LaneInv` says which jobs hold a permit by where their task is, that the queue has
each job once and is empty while a worker is free, and what a job's state says of its result. `CountInv` adds
that workers given out are within `Workers`, which the fair queue keeps because a
permit given back goes to its head (`GivenBackCounts`).

**Topics.** A queue is over its limit only once its socket was closed for it, and a notice takes the place of
the one of its topic (`OneNotice`), so none repeats. That no page names a newer value than there is needs the order of
two steps: a change is written before it is counted, so the revision and the changes written and not counted
yet are the state (`ChangesCounted`); a call takes the revision before it reads, so a result's value
reaches the revision it carries (`Results`).

**Sockets.** That a ticket has one place is not inductive, because the teardown takes a socket's things down one by
one beside calls that go on. `TicketsPlaced` says where a ticket of the store is - the slot, the call about to
fill it, the call that took it - and `KeptInTime` that one found in a slot past the teardown's
discard is still held by the job that offered it, which looks at the registry before it answers and takes it
back. `Registered` and `CallsPlaced` relate a call's place to its socket's. `NothingStartsOnceTold` is a
property of steps: a job looks, before it begins, whether its session is tracked, and one that was told its end is
tracked no more, although its socket, registered late, may still be open.

**Chat runs.** A run by itself (`Sound`) is closed only with its loop ended. Beside the registry (`Standing`), one that
is not the Team's any more dispatches nothing, and works only if it was retired, which is the crossing of
the idle look with a page that came back. `Watching` and `Shown` follow a page from `attach` on: it watches before it is
shown, so what is published in between may reach it twice but is not lost.

**Keys and Browser sign-ins.** That Admin holds the key Team pins is not inductive: between Team's
answer and the transaction only the task knows which key won. `HolderKnows` says what the holder of the
rotation lock knows at each step, and `KeysOrdered` that keys are used in the order made. `KnownIsTracked` then needs
only the types of the starts: an end names its own session, and an answer that takes the place of a session that runs
is what `displaced` records (`StartMoved`, one lemma for every step of a start).

**Routines.** `RoutinesInv` has a part for each book the scheduler keeps. `SlotsHeld` and `LongHeld` say who holds a slot
at each step of the task, from the permit taken before the claim to the worker's end. `Noticed` follows a notice from the
fetch to the acknowledgement: what the task is about to acknowledge is written, in that version or a later one, and a
write replaces a run's only row (`NoticeWritten`), so a transcript never goes back. `WokenForDue` looks at a sleeping task
only; `Wakeful` says at every step that it was woken, or has yet to claim, or the call that made the run due has yet to wake it
(`Heard`), and that a lease is a worker's or the answer on its way (`Leased`). That a rejected answer reopens no
challenge a newer one cancelled needs the generations: `IsChecked` counts only the answer of the Team's latest opening, because
another is never reopened, and `Current` says of every challenge open, told of or being answered for it that Team would
take it, unless a newer is on its way. `OnePlace` says that a minted challenge is in one of those places. What `Select` keeps
of a sequence is computed by a recursive function; the lemmas about it (`PicksExist`, `PickedIs` of `HistoryProofs`)
go by the set of places where they hold (`Inductive`, from a least place where they would not), which needs no induction
theorem with an operator parameter.

**Teams.** That a row shown is of its Team is not inductive: rows may outlive their Team until somebody clears
them, and a new Team may have its id by then. `Strays` says of every row that is of no Team there is who clears it:
while nothing went wrong, the request that holds the lifecycle lock and is about to wipe (`Wiping`), so no Team can be made
under that id meanwhile; after one mishap, the creation that made the Team and has yet to clear (`Clearing`), or nobody while no Team has the
id. `Admitting` says that an admission between its check and its row names a Team that is still there, which the lock it holds keeps.
Both rest on `Locked`, which tells from where each request is who holds either lock. A saved position may name no
Team that is there; `Positioned` therefore says of a creation about to call Team that the id it asks for is
taken or has no position, which the order lock it holds since it looked keeps. `StoreShaped` says that
rows stand in the order of their positions and are of the turn they were admitted for; every transaction of the store either adds such a row
(`Grew`) or takes rows and bindings away together (`Leaves`), and one lemma each says what follows (`GrewSound`, `LeftSound`).
`ReadsExact` is about functions of the state. A listing has each Team at one place (`ArrangedParts`, `PlaceIs`). A walk back through
the pages is again a recursive function: `PageSeen` says that a page is the last rows before its cursor and is not empty, and
`PagesCover` that after as many pages as there are rows all were shown, each once, by the rows still ahead of the cursor.

**Assistants.** That what is told as installed ran is decided long before it is told. `AssistantsInv` says it of a plan when it is
made: what its task gets beyond the message's scope is what it installs or what ran already (`Planned`; a speculated plan, made
before anything is known to run, gets only what it installs), and of its execution that what was installed so far ran
(`InstalledSoFar`) - by Team's own answer to the second read, not by the answer to the install. `RanSince` is why a read inventory may be used later: what
runs in it ran since the message was sent, whatever other pages did after. That a proposal ends once rests on `Numbered`: while its
message is active, or its proposal or operation stands, that number has no ending yet, and the three exclude one another. What is about
to be told is in the transcript before `finish` (`EndsKept`). The directories need an order: `Ranked` gives every place to one Assistant
because those before it are counted, and different Assistants have different counts (`PlaceLess`, `PlacesFill`), so whoever is cut off
scores at most what the last one in scores, and less because a tie empties the directory (`PoolFair`).

**Integrations.** `HandoffsInv` adds to the stated parts that whatever was given away - a cookie, a call to complete, a
connection - names a handoff that was shown and used; every step moves handoffs by `Goes`, which puts none back.

**Sign-in.** That a code is accepted once is not inductive: two requests hold it at the same time. The record
decides, because it moves one way (`Onward`): a later seed or a later step, a later recovery set or fewer unused codes.
`Behind` says that what was accepted is behind the record, and one lemma per transaction (`VerifyTotpDoes`,
`SpendDoes`, ...) that it goes on and accepts only what was not. `Apart` says the same of tickets: a number is held by one
ticket, one request or one session. A completed ceremony changed the record in its own transaction, which looked at the
generation; so the late removal of tickets does not matter. These are `IInv`; `DInv` relates the limiter to the request
that derives, and `SInv` has the rest. Every transaction keeps the session secret only with the seed and the passkey
(`Same`), so whoever holds the secret holds what they stood on (`Stood`, `Stands`), although the secret is
read after the transaction that signed in. It counts a refusal or leaves the two counters' sum (`Told`), so
they say what was refused until the first of them reaches its limit (`Counts`).

**Rows.** That the reader admits what a writer shaped (`Decoded`) is proved writer by writer (`InstallRead` and
the lemmas beside it), since both give their own conditions on the same fields. The one thing that is not local is an answer
about a Routine's card: it takes the name of a row already stored, so `RowsInv` also says that a stored card has a name the
reader admits in an answer (`Named`). That an ending is kept (`EndingKept`) is counting: a status has four fields
at most (`StatusSize`), and a reply that had no room beside its receipt is asked about without it (`BareReply`, `ReplySize`).

**Catalog.** What a page joined is not only whole at the end: `Joined` says at every step that it is the beginning
of some catalog the Store has published and that the read's digest is that catalog's. A snapshot taken between two pages may be
of another (`Published`); `Start` compares the digests, so the next page is either of the same catalog, and a longer
beginning of it (`PrefixLonger`), or the read begins again. A page may end anywhere from its first place on (`EndIs`): no bound is needed
for the order, only for the size. `AskedWhenStale` is inductive with nothing beside it. For the icons `CacheSound` leaves the bounds out,
because they do not hold while an icon is put in: eviction takes the least number of oldest keys that restores them, there is one because nothing is
within any bounds (`NothingWithin`), and taking any number keeps the account (`OldestCounted`). That the bytes add up is cardinality:
a key stands for as many pairs as it has bytes, and different keys for different pairs (`BytesApart`). `CatalogShaped`
assumes that the Store's answers are lists with ids, that the bounds are numbers, and that a page asks in a language Admin has.

**Answers.** `TellingInv` relates a page's answer that waits for the ceremony to what the page was shown: what is
checked later is the text of an authorization (`WaitsForCheck`), whose request is the one Team fingerprinted (`ShownIs`), because
the event, once shown, is what the projection of that reply gives and nothing replaces it. `AdmittedFits` and `SomethingFits` are about the bounds alone: each kind of
request against the frame that carries its answer. `CeremonyInv` is needed for the attempts: the failures Admin keeps
are the wrong passwords in a row modulo the attempts of a round (`ModNext`), a lock names the end of the last check of
its round (`Counted`), and whoever checks holds the ceremony and read the failures that are still there (`HeldByChecker`),
without which two checks at once would count one failure.

Only model-checked:

* Liveness (`WaiterServed`, `CancelledLeaves`, `PagesCatchUp`, `RecordGoes`, `RecordCatchesUp`, `EndedSessionIsCancelled`,
  `EveryRequestEnds`, `EndedSessionStops`, the second part of `EndedSessionEnds`, `DueRunStarts`, `WorkEnds`): temporal
  reasoning under fairness is out of the prover's reach.
* `PauseKept` and `BoundUntilEnded` of `Pauses`: checked of turns that did not cross; their invariant would relate ten
  pieces of state at each of the forty steps, and is not written.

## 5. Not modelled

* `Turns::forget`, and the conversation window of a turn: the first removes records together with the Team and
  its history, the second is one more read of the store.
* The order in which Team's answers about its limit arrive (`chat/methods.rs`): the gate is
  correct for whichever limit it has, and what Team committed last is Team's to say.
* Session frames and the method table, request bodies, tokens' and files' encodings, Origins, HTTP parsing and static files:
  each request by itself, no state that several steps share.
* Byte budgets of a socket, sign counters, ticket lifetimes: numbers compared once.
* Team pages that relay a call (files, the Browser's view, summaries, provider keys, releases), Cloudflare's fixed form
  (`integrations/cloudflare.rs`).
* The frontend but for the synced value and the joined catalog; vendored code; the process's configuration and commands.

## 6. What is left to do

1. Proofs about `Pauses` (`PauseKept`, `BoundUntilEnded`), from the lemmas of `HistoryProofs`.
2. Two sends of one Team with one run in `DurableTurns`, so that its sweep meets the pauses of `Pauses`.
3. Larger instances of `Teams` (two mishaps) with what a Team keeps after them.
4. `Gate` composed with `Lane`: whether an operation the gate admits can find its lane full.
