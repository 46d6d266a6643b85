# Kanban board: verification project

TLA+ modules for the event-sourced, multi-user Kanban board of this repository:
what its tasks are, how concurrent requests change them, how the MongoDB view
and the browser pages follow, what TLC has checked of this on small instances
and what TLAPS has proved of it for all.

Paths below are those of the repository. `J` stands for
`java-server/<module>/src/main/java/net/chrisrichardson/eventstore/examples/kanban`,
`FE` for `angularjs-frontend/app/scripts`.

## The system

A task or board is an aggregate whose state is the replay of its events. The
command side turns an HTTP request into a command, a command into an event and
stores the event. The event store delivers events to two subscribers: the query
side, which keeps a MongoDB document per task and board, and the WebSocket
gateway, which turns each event into a STOMP message to every browser. A browser
loads a board's tasks from the query side once and from then on follows the
messages; drags in one browser are requests to the command side.

| Component | State | Operations | Talks to |
|---|---|---|---|
| Task aggregate (`J/commandside/task/TaskAggregate.java`) | `TaskInfo` | `process` of 7 commands, `apply` of 7 events | events |
| Task command side (`TaskService`, `TaskCommandController`) | none of its own; requests under way | POST, PUT (4 moves, edit), DELETE, GET history | event store |
| Event store (Eventuate, external) | events per aggregate, versions, subscriptions | save, update with version check, deliver, acknowledge | all services |
| Task query side (`TaskQueryWorkflow`, `TaskUpdateService`) | collection `task` | 7 event handlers | event store, MongoDB |
| Task queries (`TaskQueryController`) | none; a listing under way | GET /tasks | MongoDB |
| Board command and query side | `BoardInfo`, collection `board` | POST, GET /boards | event store, MongoDB |
| WebSocket gateway (`WebsocketEventsTranslator`) | none; messages under way | 8 event handlers | event store, browsers |
| Board page (`FE/components/Board`, `Column`, `Task`, `FE/services`) | `$scope.tasks`, load, connection | load, message handler, drop, create, delete | REST, STOMP |
| Board list (`FE/components/BoardList`) | `$scope.boards` | load, message handler, create | REST, STOMP |
| API gateway (`GatewayController`, `URLRequestTransformer`) | endpoint table | proxy a request | services |
| Drag and drop (`kbnTask`, `KanbanTaskController`, `kbnColumn`, `kbnBoard`) | handlers on the document, clones, columns on alert | press, move, release, end of an animation | board page |
| Dialogs of the board page | locks, what is to be deleted, history shown | create, delete, show history | REST, session |
| Authentication (`TokenAuthenticationService`, `AuthController`, `FE/services/authentication.js`) | user, cached promise of a token, session storage | login, logout, reload, ask for a token, check one | all requests |

Where the behaviour is hard:

- **Concurrent requests on one task.** Each is a read, a replay and a write; the
  store refuses a write over a stale read, the repository class retries.
- **Crashes between an effect and its confirmation**: an event stored and not
  answered, a document deleted and the event not acknowledged.
- **Redelivery** of events over newer documents.
- **Commands on deleted tasks**, which nothing refuses.
- **Two queries for one answer**, while documents change.
- **Two ways for a change to reach a page**, the loaded answer and the messages,
  with no order between them, and a third, the page's own optimistic drops.
- **A promise of a token shared by all who ask for one**, while users log in and
  out, authentications fail and are repeated, and tokens get old.
- **Mouse handlers that outlive the card they belong to**, as messages destroy
  cards that are being dragged, and releases that the page never hears of.
- **Refusals that look like successes**, because the gateway drops statuses.

What makes each component correct:

- aggregate: replaying a history is defined and gives what was answered;
- command side: linearizable tasks, each command carried out at most once,
  deletion permanent, every request ended;
- query side: a caught-up document is the aggregate's state, whatever was
  redelivered; it gets there once things are quiet;
- queries: a task left alone is listed once or not, as its state says;
- board page: the column shown is the column stored, once per task;
- drag and drop: a drop moves the dropped card, once, to the column under the
  pointer; marks, alerts and clones do not outlive the drag;
- session: the user in memory is the stored one; a token used came after the
  last logout and is its user's, as far as the code relates the two;
- dialogs: locked exactly while their request is under way, which ends;
- board list: a board is listed once, as it was created; what a load found and what
  the page was told of is listed.

## Modules

| Module | What it is |
|---|---|
| `TaskAggregate` | commands, events, `process`, `apply`, replay; pure |
| `TaskCommandSide` | concurrent requests over the event store |
| `AtomicTasks` | what the command side promises: each command at one moment |
| `TaskQuerySide` | the workflow and its documents, redelivery, restarts |
| `TaskListing` | GET /tasks on top of `TaskQuerySide` |
| `BoardPage` | a board page on top of `TaskListing`, with the translator's messages |
| `BoardList` | boards, their documents and messages, and the page that lists them |
| `DragAndDrop` | the mouse on a board page: cards, columns on alert, clones |
| `Session` | one tab's user and tokens, the cached promise, the gateway's check |
| `BoardDialogs` | the board page's dialogs on top of `Session`; its `Next` is the one that is run |
| `SequenceLemmas` | facts about sequences that the proofs share |
| `TaskAggregate_proofs`, `TaskCommandSide_proofs` | proofs about histories, the command side and its refinement of `AtomicTasks` |
| `TaskQuerySide_proofs` | of `TaskQuerySide` and `TaskListing` |
| `BoardPage_proofs`, `BoardList_proofs`, `DragAndDrop_proofs` | of these modules |
| `BoardDialogs_proofs` | of `Session` and `BoardDialogs` |
| `MC...` | instances for TLC: symmetry sets; the constants are in the `.cfg` files |

Operators whose comment begins with "A mutant" are plausible bugs. No
specification uses them; replacing the definition they stand before by one makes
TLC find the property violated that is meant to catch it (`PROJECT.json`,
"mutants").

### From code to model

*`TaskAggregate`.* A `TaskInfo` is a record; a command or event is a record with
its type. `process` has no guard in the code and none here. An `AuditEntry` is
stamped once per request and is represented by the request, so that an event
names the request it comes from; that is what lets properties speak of a command
being carried out twice. Titles and descriptions are one value. `AfterApply` is
the effect of `apply(TaskCreatedEvent)` on the event itself: the aggregate keeps
the event's `TaskInfo` and sets the status on it, and the store serializes the
event afterwards. A replay is a recursive function, not a RECURSIVE operator,
because theorems are proved about it.

*`TaskCommandSide`.* `log[t]` is the store. A request goes through `Submit`,
then `Save` for a creation, or `Load`, `Update` or `Conflict` for the others
(`AggregateRepository.update`: read, process and apply, write with the version
read, retry on `OptimisticLockingException`), then `Respond`; `NotFound` and
exhausted retries end in an error. `Crash` stops the service at any moment:
events survive and requests do not. An event that is stored although the store
answers with an error is modelled only as such a crash. That `process` and `apply` run between the
read and the write is part of `Update`, since they touch only the request's own
aggregate. The retry, the version check and their bound are Eventuate's and are
modelled from how `TaskService` uses them.

*`TaskQuerySide`.* `Publish` appends any event the command side can write: its
guard (a creation first and once, an event per request) is not taken on trust:
`TaskCommandSide` instantiates the module for the histories it shares with it, and
`PublishesHistories` says that they grow by `Publish` alone. `Handle` is a handler of
the workflow together with the `TaskUpdateService` call it makes; `HandleFails` is the same
where the code throws. `update` merges the fields that are not null, as the code
does. Assumed of Eventuate: the events of one task come in order and at least
once, to one handler at a time; an event is acknowledged after its handler ended
well and not when it threw; after a restart, delivery goes on after the last
acknowledged event. Whether later events of a task are delivered after one
threw is left open.

*`TaskListing`.* `listAllTasks` is two actions with the workflow's in between.

*`BoardPage`.* One page for one board, for its whole life. `TasksLoaded` is the
`then` of `loadTasks`, which replaces `$scope.tasks`; `Receive` is the STOMP
callback with `taskUpdatedEventHandler`; `LoadTasksRefused` is a refusal behind
the gateway, whose empty body `getTasks` takes for a board without tasks; `Miss` is
a message sent while the client is not subscribed. `MoveTask` is a drop: `tryAcceptTask` changes the card,
`task_moved_updated` sends the PUT, which is stored (`MoveStored`) or fails
(`MoveFails`) later. Messages are not kept in a channel: as the messages about
one task come in their order and those of several tasks are independent, a
message under way is an event beyond `sent[t]`. The page has its board's id
throughout: the digest that makes `KanbanBoardController` runs its watch of `board`,
before any message can come. `raced` and `missed` are history
variables for the properties. Commands of other users are `Publish`; that the
query service restarts is left to `TaskListing`.

*`BoardList`.* The whole of the boards in one module, as a board has one command
and one event. A `BoardInfo` becomes a document, a message and an answer in three
places of the code, with constructors and setters of their own, hence three
operators. The page may be left and opened again; what is under way for a page
that was left is dropped by it and carried on by the server (`OthersSave`). An
event may be handled again, as a message may be sent again: both are left
enabled. Three history variables last as long as the page is open: `told`, the
boards that messages and answers told it of, `indexed`, those with a document when
its load was answered on the server, and `overtaken`, those it was told of before
the answer came and that had no document when it was found. Behind the API gateway a refused request comes back as an empty answer
with status 200 (`GatewayController` returns the body only), which `createBoard`
and `loadBoards` take for a success: `EmptyAnswer`, and a load of no boards
(`"refused"`). The
description typed for a board is posted as `boardDetails`, which `BoardInfo`
does not have: it is not stored and not modelled.

*`DragAndDrop`.* A card stands for the scope and element Angular keeps for a task
object. `Press` is `mousedown`, which puts handlers on the document; `Move` is
the pointer entering a column (`mouseenter`, `mouseleave`, delegated on the
document while a board is on alert) and then `mousemove`; `Release` is `mouseup`,
where `onStill` of every held card runs, the board heeds the first and broadcasts
`go_off_alert`, and each column on alert tries to take the card. The events are
synchronous, so a handler and all it emits are one action. A release may be lost
(it happens outside the window), so several cards can be held. `ShowTask`,
`ShowTasks` and `OpenBoard` are messages, loads and navigation: new objects, so
new scopes; those destroyed keep their handlers on the document (`ghosts`), where
they do nothing but perhaps throw. `timers` counts jQuery animations, those of
clones that were replaced included, as each ends by removing the clone there is
(`killAnimatedClone`). Coordinates are abstracted to the column under the
pointer. A second set of handlers of the same card, pressed again after a lost
release, adds nothing to the first. `puts` counts the PUTs of the last step, so that one
sent twice is seen. The server's side of a drop is
`BoardPage!MoveTask`.

*`Session`.* `auth` returns the promise there is, the user's token, or a new
authentication; who waits for an authentication holds its number
(`[auth |-> i]`). `AuthSucceeds` and `AuthFails` are the last `then` of `auth`
with the callbacks of all that waited, a login's among them; a failure is caught,
so they go on without a token. `AuthRetries` is the one repetition that
`auth(null, true)` asks for. `Ask` is `auth().then(makeRequestFor(..))`, the first
line of every method of `ApiService`; `Answer` is the end of the request.
`Outcomes` is the gateway: a request without a valid token is redirected to
`index.html` by Spring's form login, one that a service refuses loses its status;
both are a success to `$http`, and hollow. `Logout` includes the reload of the
route, which the guard of `KanbanAppRoutes` turns into the login page. A token is
the email it was issued for and its number; `expired` counts those a day old.
What becomes of the calls of a page that was left is not followed, as their
callbacks act on a scope that is gone. What `OneUser` needs of the past is in three
history variables: `loggedOut`, how many tokens had come at the last logout;
`crossed`, the POSTs under way that may not be answered for the tab's user, because
a call asked for them and the user changed since (or was none), or because a login
for another email waits for them; and `strays`, the tokens those gave, with those
that a login found and took over for another email.

*`BoardDialogs`.* The board page's calls are those of its three dialogs, over all
of `Session`. `createTask` looks at its lock; `deleteTask` does not, but its
button is disabled by it (`KanbanBoard.tpl.html:94`). That a page that opens has
a controller of its own is `NewPage`. Which task a dialog is about is left out:
no property depends on it.

## What TLC checks

| Run | Instance | Question | States |
|---|---|---|---|
| `command_side` | 3 requests, 1 id, 2 attempts | do racing, retried, failing and crashing requests keep histories and answers right, implement `AtomicTasks`, feed the query side as `Publish` says, and end? | 175 k |
| `query_side` | 3 events, 2 titles, 2 boards, 2 restarts | is a caught-up document right, whatever was redelivered, and does it get there? who throws? | 162 k |
| `move_without_board` | 3 events, moves without a board | violated: finding 1 | |
| `listing` | 3 events, 2 tasks, 2 boards, 1 restart | is every task left alone listed once? | 535 k |
| `board_page` | 3 events, 1 task, 2 boards, a move under way | does a settled page show the right columns? | 2.3 M |
| `board_page_load_race` | the same, 2 titles | violated: finding 2 | |
| `board_page_deleted` | the same | violated: finding 3 | |
| `board_page_titles` | the same | violated: finding 4 | |
| `drag_and_drop` | 2 cards, 4 columns, 2 animations a card | does a drop do what it shows, and does anything outlive a drag? | 166 k |
| `session` | 2 users, a token, 2 authentications and 2 calls under way | whose are user and token, do the dialogs' locks follow their requests, and are they released? | 278 k |
| `session_other_user` | 2 users, 2 tokens | violated: finding 5 | |
| `board_list` | 2 boards, 2 users, 2 times | is every board listed once and as created, with all that was loaded or told? | 57 k |

Deadlock is checked in `drag_and_drop` and `session`, whose users can always do
something. In the other runs it is not: requests and events are finite there, so
every instance comes to a state where all are used up.

**Bounds.** Three requests are a creation and two that race, enough for a
conflict followed by a retry, which succeeds as no third writer is left: giving
up after the last attempt does not happen in this instance (a fourth request
makes it too large, and with one attempt nothing would be retried). That
histories and answers stay right then too is part of what is proved, for any
number of ids, requests and attempts. The run has one id because liveness is
checked in it.
On the query side, what a redelivered event does depends on the field it sets
and on which later events set the same: with three events, two boards and two
titles every field can be set, set again or deleted, and replayed over, and two
restarts allow a redelivery of a redelivery. Two tasks on two boards show every
combination of the two queries of a listing. On a page the handlers of one card
do not look at others, so one task is enough; two boards let it leave and come
back. On the list two boards
are enough to lose one and double one; two users and times tell its fields
apart. Two cards are enough for a drag to meet handlers of another one, and two
animations of a card for one to end under the next press. Two users, one with a
capital in the email, tell whose a token is; two authentications and calls overlap
and overtake, and cross logins and logouts. One token is enough to survive a logout,
to come after one and to be taken over; that nothing else happens with more of them
is part of what is proved (with two TLC finds no error in the invariants either, in
1.3 M states, but the liveness property takes too long). `MaxTimers`, `MaxTokens`, `MaxAuths`, `MaxCalls`, `MaxAttempts`, `MaxRestarts` and `MaxMoves` bound counters and sets;
finite `Requests` bound histories.

**Symmetry** is used in safety runs only: over requests in `listing` and
`board_page`, over boards and users in `board_list`, over cards in
`drag_and_drop`.

**Fairness.** `command_side` assumes `WF_vars(Handle(r))`: the service keeps
working on a request it has. No fairness on users (`Submit`) nor on `Crash`.
A request cannot be kept from ending by others, as each of them writes at most
once. `query_side` assumes `WF_vars(~failed[t] /\ Handle(t))`: the
store delivers what is not delivered to a workflow that has not thrown. Nothing
is assumed of acknowledgements, restarts and a workflow that has thrown.
`session` assumes `WF_vars(Ended(i))` and `WF_vars(Len(calls) > 0 /\ Answered(1))`:
the browser ends every request it sent, with an answer or an error, here the oldest
one, which is enough. Nothing is assumed of users, nor that authentications
succeed; an answer without data, which is not repeated, is possible and never
counted on. The other runs have no fairness: they check safety.

## Findings

1. **A move without a board splits aggregate and view**
   (`TaskUpdateService.java:45`). PUT `/tasks/{id}/start` with a body without
   `boardId` makes the aggregate's board null; the view's merge takes null for
   "no change" and the task stays listed on its old board.
2. **loadTasks may undo messages** (`KanbanBoardController.js:240`). The answer
   replaces the page's tasks although it comes from a view that may lag behind
   messages already shown or missed; nothing corrects the page later. In the
   other order, a creation's message doubles a card the answer had.
3. **A deleted task comes back** (`KanbanBoardController.js:95`). A move stored
   after the deletion makes every page add a card again.
4. **Edits do not reach open pages** (`KanbanBoardController.js:71`):
   `TaskUpdatedEvent` has no case, while `README.md:6` promises changes are
   immediately visible.
5. **A login gets another user's token** (`authentication.js:36`). `auth(email)`
   returns the token or the promise it has without a look at the email, so that
   whoever logs in while another user's token is there, or on its way, acts under
   the other's name on the server, which takes the user of a command from the
   token, and under their own on the page.

The corresponding properties are violated in runs of their own;
`SettledPageShowsColumns` states what holds when 2 and 3 and lost messages do
not interfere, and `OneUser` what holds of tokens but for 5 and for the answer of a
POST that a logout crossed, which sets the promise again (`authentication.js:78`). Not a run, but seen while modelling: a card added by a move
(a task put in the backlog of another board) has no title, as the message has
none; a failed authentication logs the user in without a token, and requests
are then sent without one (`authentication.js:82`); a user's new tasks are
created by the email in lower case and changed by the email as it was typed; a
card taken away while it is dragged leaves its clone on the screen and the board
on alert; and `loadBoards` (`KanbanBoardList.js:83`) takes a board off the list that
was shown meanwhile, whose document was not written when its answer was found:
`LoadedListIsComplete` leaves out just those (`overtaken`).

## What TLAPS proves

Every safety property the passing runs check is also proved, for any values of
the constants that their assumptions allow. Each specification has one
inductive invariant, a conjunction of named parts in the component's own module;
a theorem states it, and the properties follow from it. The runs check it too where
it says more than their properties (all but `ListIInv`).
The assumptions on constants are: null (in JSON and Java), `None` and the empty
`boardId` are none of the values they stand for the lack of (`NullAssumption`,
`DocumentAssumption`, `EventAssumption`, `ListAssumption`, `MarkupAssumption`,
`NoneAssumption`, part of `BoardAssumption`); the page's board is a board that
moves may name (`BoardAssumption`); bounds are numbers, and an update is tried
at least once. Nothing is assumed finite that the code does not make so.

`SequenceLemmas` has the facts about sequences the proofs share: removing an
element, the sequence of a set's elements, the least of some numbers.

**Task aggregate** (`TaskAggregate_proofs`). `StatesAppend`: an event added to a
history changes no earlier version and adds its effect as the latest. `States` is
a recursive function, so its defining equation has to be established first: a
function satisfying it exists for every length, by a least counterexample
(`LeastNatural`, from well-founded minimality; the library's induction theorem
has an operator parameter the provers here cannot instantiate).

**Command side** (`TaskCommandSide_proofs`).

- `Invariance`: `Spec => []IInv`. The properties are not inductive by themselves.
  `ResponsesMatchHistory` needs to know that what a request has read is a version
  of its task (`ReadsMatchHistory`), so that with an up-to-date version number it
  is the latest; `AtMostOnce` needs that an event's author is past writing and
  remembers where it wrote (`EventsHaveAuthors`, `CommandsAreOwn`); type
  correctness needs that replayed states are whole `TaskInfo`s
  (`VersionsAreTasks`) and that a request that may still fail has an attempt left
  (`AttemptsLeft`). The proof has a lemma for each kind of action; `Save` and
  `Update` share one (`StoreIInv`), as both append one event to the latest version.
- `TypeCorrectness`, `CreationFirst`, `ResponsesAreDurable`,
  `CommandsApplyAtMostOnce`, `DeletionHolds`: the properties, from `IInv`.
- `Refinement`: `Spec => ImplementsAtomicTasks`. Under the mapping a task is the
  replay of its history, `Store` is the moment its command is carried out, reads
  and retries are stutters, and errors and crashes are failures. It uses `IInv`
  for the one point that matters: the state a writer applied its command to is
  the replay of the whole history.
- `Publication`: `Spec => PublishesHistories`. The histories, on their own, behave
  as `TaskQuerySide!Publish` lets them. It needs from `IInv` that a request which
  still writes is the author of no event (`EventsHaveAuthors`) and that its
  command is one of its own (`CommandsAreOwn`). So the theorems about the query
  side hold of the events this command side writes.

**Query side** (`TaskQuerySide_proofs`).

- `QueryInvariance`. While an event is handled again over later ones, a document
  is not any version of its task. What holds (`FieldsFollow`) is said of each
  field: it is as after the last delivered event, or one of the events still to
  be delivered, or to be again, sets it. A restart takes the delivered count
  back to the acknowledged one; the invariant survives because a field that is not
  set in between is the same at both points (`FieldsAreSet`). The existence of a
  document is followed by `DocumentsExist`: a deletion that is delivered again
  finds none, which is where the workflow throws (`FailuresFollowDeletions`).
- `CaughtUpDocuments` assumes `Null \notin MoveBoards`, that moves name boards, as
  those of the board page do; run `move_without_board` shows that it is false
  otherwise (finding 1). Type correctness and failures need no such assumption.
- `ListingInvariance`, `ListedOnce`: what the first query found is still so of the
  tasks not touched since (`BacklogFollows`). That an answer is finite, which the
  page needs to make a list of it, is part of the invariant too.

**Board page** (`BoardPage_proofs`).

- `OnlyItsBoard` and type correctness: each handler of the controller keeps them.
- `SettledPages`, with moves that name boards. Three facts carry it. As the query
  service is not restarted here, each document is a version of its task
  (`ViewIsVersion`), and so is what an unraced answer has of it, the version of
  the moment it was asked for (`AnswerIsVersionAsked`). Histories only grow, which
  leaves all versions as they are (`GrowthKeeps`). And a message that names a
  column makes a card right from whatever it is (`MessageShows`), so that a page
  need not follow every event: a task is shown as its last message left it, or a
  message or a move of this page that decides anew is to come (`Follows`,
  `Correctable`). A drop makes a card wrong by intent; its own move is what
  corrects it. A settled task has nothing to come.
- `Filter` is defined in `BoardPage` by a recursive function, as the provers have
  no facts about `SelectSeq`; `FilterProperties` says what it keeps.

**Board list** (`BoardList_proofs`). `BoardsListedOnce` and `NothingToldIsLost`, from
`ListInvariance`. A document, a message and the answer
to a creation are made of the event in three places of the code; `BoardsAgree`
shows that they make the same board, so documents, answers on their way and list
entries are all as created (`DocumentsAsCreated`, `AnswerAsCreated`), and
`processBoardCreation` replaces an entry by its equal. An answer has all boards that
had a document when it was found (`AnswerIsComplete`).

**Drag and drop** (`DragAndDrop_proofs`). `DragInvariance`, for any number of
cards. On top of the properties it needs that a card is held once and shown
(`HeldOnce`, `HeldIsShown`), that a dragged card is held (`MovingIsHeld`), and that
columns are on alert only while the board listens (`AlertWhileListening`).
`DropsMoveOneCard` is about steps: the first held card's `onStill` moves it, and
the others find no column on alert.

**Session and dialogs** (`BoardDialogs_proofs`). `DialogInvariance`. `TokensOfOneUser`
holds of every session, also of those in which logins, logouts and authentications
cross: `OneUser` has no precondition, and names the tokens that may be another user's
(`strays`). When an authentication ends, its token is the user's because a POST that
is not crossed is for the tab's user, or for the email of the login that waits for
it (`AuthsAreOfUser`); what a reload brings back is as good as what was in memory
(`StoredIsOneUser`); and a POST that is crossed is one under way (`HistoryAgrees`), so
that a number used again starts afresh. The dialogs need that there is one request
of a kind under way (`OneRequest`).

**Model-checked only.** Liveness under fairness is beyond these provers:
`RequestsEnd`, `EventuallyConsistent`, `LocksAreReleased`. The five runs that expect
a violation are counterexamples, not statements to prove.

## Not modelled

- `prebuilt-angularjs-client/js/app.js`, 61 thousand lines and nearly all of the
  repository's code by length, is the bundle gulp makes of
  `angularjs-frontend/app/scripts` and of AngularJS, jQuery, Bootstrap and STOMP.
  The modules are translated from `app/scripts`; what the libraries do is taken
  from how those scripts use them. `gulpfile.babel.js` is its build.
- Which board a route opens (`KanbanWorkFlow.js`): `BoardPage` has one board,
  `BoardList`, `BoardDialogs` and `DragAndDrop` let pages be left and opened.
- Sizes and coordinates of elements (`KanbanContainers.js`, `viewport.js`), the
  visibility of dialogs, formatting, logging, Swagger, Spring and Mongo
  configuration.
- The gateway's table of paths, which is constant and has every path the pages
  use; a request it does not have ends like any other that fails.
- The page of a board without an id, which an empty answer of the gateway can put
  on the list: it loads nothing.
- GET history and GET /boards/{id}, which change nothing. Request bodies no
  client of the repository sends (a creation without audit entries).
- Redelivery of task events to the WebSocket gateway: it sends the same messages
  again, and after a creation sent twice no property of the page holds that
  `LoadedPageShowsColumns` does not already show lost. For boards it is modelled.

## Plan

Done: all modules with their runs; proofs of every safety property of a passing
run, of the refinement of `AtomicTasks`, and that the query side's events are the
command side's. Left:

1. What an answer of GET /tasks to several pages says together.
2. `BoardPage` with a query service that restarts, and its messages then.
