----------------------------- MODULE BoardPage -----------------------------
(***************************************************************************)
(* A board page in a browser: KanbanBoardController loads the board's      *)
(* tasks once and keeps them up to date from the WebSocket messages that   *)
(* WebsocketEventsTranslator makes of the task events, while its user      *)
(* drags tasks between columns.                                            *)
(*                                                                         *)
(* The translator subscribes to the events on its own, so messages run     *)
(* ahead of the task view or behind it.  There is one page, for its whole  *)
(* life; other users are the environment (TaskQuerySide!Publish).          *)
(***************************************************************************)
EXTENDS TaskListing, SequencesExt

CONSTANTS
    Board,    \* the board the page shows
    MaxMoves  \* bound on the page's moves under way

ASSUME BoardAssumption ==
    /\ Board \in Boards \cap MoveBoards
    /\ "" \notin Boards
    /\ MaxMoves \in Nat

VARIABLES
    tasks,       \* $scope.tasks
    loading,     \* how far loadTasks got
    connection,  \* of the STOMP client
    sent,        \* sent[t]: how many events of t were sent to the browsers
    moves,       \* PUT requests of this page under way
    asked,       \* asked[t]: how many events of t its document had when loaded
    raced,       \* tasks whose loading and messages crossed (see TasksLoaded)
    missed       \* tasks the load, a message or a move failed for since then

pageVars == <<tasks, loading, connection, sent, moves, asked, raced, missed>>
allVars == <<listingVars, pageVars>>

\* The boardId of a message about the backlog.
NoBoard == ""

Card == [id: Tasks, boardId: BoardRefs \cup {NoBoard}, status: TaskStatus,
         title: Details \cup {Null}]

Move == [task: Tasks, status: TaskStatus]

PageTypeOK ==
    /\ ListingTypeOK
    /\ tasks \in Seq(Card)
    /\ loading \in {"not asked", "asked", "loaded", "failed"}
    /\ connection \in {"connecting", "open", "closed"}
    /\ sent \in [Tasks -> Nat]
    /\ moves \in SUBSET Move
    /\ asked \in [Tasks -> Nat]
    /\ raced \in SUBSET Tasks
    /\ missed \in SUBSET Tasks

PageInit ==
    /\ ListingInit
    /\ tasks = <<>>
    /\ loading = "not asked"
    /\ connection = "connecting"
    /\ sent = [t \in Tasks |-> 0]
    /\ moves = {}
    /\ asked = [t \in Tasks |-> 0]
    /\ raced = {}
    /\ missed = {}

-----------------------------------------------------------------------------
(* loadTasks: one GET /tasks?boardId, its answer shown when it arrives.    *)

LoadTasks ==
    /\ loading = "not asked"
    /\ FindByStatusBacklog(Board)
    /\ loading' = "asked"
    /\ asked' = delivered
    /\ UNCHANGED <<tasks, connection, sent, moves, raced, missed>>

LoadTasksContinues == FindByBoardIdAndStatusNot /\ UNCHANGED pageVars

CardOf(entry) ==
    [id |-> entry.id, boardId |-> entry.task.boardId,
     status |-> entry.task.status, title |-> entry.task.details]

Cards(entries) == SetToSeq({CardOf(e) : e \in entries})

\* What is shown so far is thrown away.  The answer has raced with messages
\* if the task changed between the queries, if it is older than a message
\* sent already, or if it has a task whose creation is yet to be announced.
TasksLoaded ==
    /\ loading = "asked"
    /\ listing.step = "done"
    /\ tasks' = Cards(listing.backlog) \o Cards(listing.tasks)
    /\ loading' = "loaded"
    /\ raced' = touched
          \cup {t \in Tasks : asked[t] < sent[t] \/ (sent[t] = 0 /\ asked[t] > 0)}
    /\ missed' = {}
    /\ listing' = NoListing
    /\ touched' = {}
    /\ asked' = [t \in Tasks |-> 0]
    /\ UNCHANGED <<vars, connection, sent, moves>>

\* No answer comes, or an error: there is no second try.
LoadTasksFails ==
    /\ loading = "asked"
    /\ loading' = "failed"
    /\ listing' = NoListing
    /\ touched' = {}
    /\ asked' = [t \in Tasks |-> 0]
    /\ UNCHANGED <<vars, tasks, connection, sent, moves, raced, missed>>

\* The gateway passes a refusal on as an empty body with status 200, which
\* getTasks takes for a board without tasks.
LoadTasksRefused ==
    /\ loading = "asked"
    /\ tasks' = <<>>
    /\ loading' = "loaded"
    /\ missed' = Tasks
    /\ listing' = NoListing
    /\ touched' = {}
    /\ asked' = [t \in Tasks |-> 0]
    /\ UNCHANGED <<vars, connection, sent, moves, raced>>

-----------------------------------------------------------------------------
(* The translator's messages and taskUpdatedEventHandler.                  *)

\* A message's fields; a null field is left out of the JSON.
Message(t, event) ==
    CASE event.type = "TaskCreatedEvent" ->
            CardOf([id |-> t, task |-> transform(event.taskInfo)])
      [] event.type = "TaskBacklogEvent" ->
            [id |-> t, boardId |-> NoBoard, status |-> "backlog", title |-> Null]
      [] event.type \in MoveEvents ->
            [id |-> t, boardId |-> event.boardId, status |-> StatusOf[event.type], title |-> Null]

\* shown.filter(..): the cards that are in keep.
Filter(shown, keep) ==
    LET first[n \in 0..Len(shown)] ==
            IF n = 0 THEN <<>>
            ELSE IF shown[n] \in keep THEN Append(first[n - 1], shown[n]) ELSE first[n - 1]
    IN  first[Len(shown)]

Without(shown, id) == Filter(shown, {card \in ToSet(shown) : card.id # id})

\* {...card, ...task}
Merge(card, message) ==
    [card EXCEPT !.boardId = OrElse(message.boardId, @),
                 !.status = OrElse(message.status, @),
                 !.title = OrElse(message.title, @)]

\* A mutant: tasks moved to another board are not taken off the page.
UpdateWithoutFilter(shown, message) ==
    LET idx == SelectInSeq(shown, LAMBDA card : card.id = message.id)
    IN  IF idx = 0 THEN Append(shown, message) ELSE [shown EXCEPT ![idx] = Merge(@, message)]

\* $scope.boardId is Board: the digest that makes the controller runs its watch
\* of the board as well, before any message can come.
updateTask(shown, message) ==
    LET isValidRef == message.boardId \notin {Null, NoBoard} \/ message.status = "backlog"
        idx == SelectInSeq(shown, LAMBDA card : card.id = message.id)
        updated ==
            IF ~isValidRef THEN Without(shown, message.id)
            ELSE IF idx = 0 THEN Append(shown, message)
            ELSE [shown EXCEPT ![idx] = Merge(@, message)]
    IN  Filter(updated, {card \in ToSet(updated) : card.status = "backlog" \/ card.boardId = Board})

\* The page shows a creation without a look at what it has, and has no case
\* for TaskUpdatedEvent.
taskUpdatedEventHandler(shown, t, event) ==
    CASE event.type = "TaskCreatedEvent" -> Append(shown, Message(t, event))
      [] event.type = "TaskDeletedEvent" -> Without(shown, t)
      [] event.type = "TaskUpdatedEvent" -> shown
      [] OTHER -> updateTask(shown, Message(t, event))

NextSent(t) == log[t][sent[t] + 1]

\* A deletion clears whatever the page shows of the task.
Receive(t) ==
    /\ connection = "open"
    /\ sent[t] < Len(log[t])
    /\ tasks' = taskUpdatedEventHandler(tasks, t, NextSent(t))
    /\ sent' = [sent EXCEPT ![t] = @ + 1]
    /\ LET cleared == IF NextSent(t).type = "TaskDeletedEvent" THEN {t} ELSE {}
       IN  raced' = raced \ cleared /\ missed' = missed \ cleared
    /\ UNCHANGED <<listingVars, loading, connection, moves, asked>>

\* Messages sent before the subscription or after the connection broke are
\* not kept for the page; it does not connect again.
Miss(t) ==
    /\ connection # "open"
    /\ sent[t] < Len(log[t])
    /\ sent' = [sent EXCEPT ![t] = @ + 1]
    /\ missed' = missed \cup {t}
    /\ UNCHANGED <<listingVars, tasks, loading, connection, moves, asked, raced>>

Connect ==
    /\ connection = "connecting"
    /\ connection' = "open"
    /\ UNCHANGED <<listingVars, tasks, loading, sent, moves, asked, raced, missed>>

Disconnect ==
    /\ connection = "open"
    /\ connection' = "closed"
    /\ UNCHANGED <<listingVars, tasks, loading, sent, moves, asked, raced, missed>>

-----------------------------------------------------------------------------
(* Dragging a task to another column: tryAcceptTask changes the card at    *)
(* once, task_moved_updated puts it on the page's board and sends the PUT. *)

verb == [backlog |-> "backlog", scheduled |-> "schedule",
         started |-> "start", completed |-> "complete"]

MoveTask(i, status) ==
    /\ Cardinality(moves) < MaxMoves
    /\ tasks[i].status # status
    /\ tasks' = [tasks EXCEPT ![i].status = status, ![i].boardId = Board]
    /\ moves' = moves \cup {[task |-> tasks[i].id, status |-> status]}
    /\ UNCHANGED <<listingVars, loading, connection, sent, asked, raced, missed>>

\* TaskCommandSide carries the command out.
MoveStored(move) ==
    /\ \E r \in {q \in Requests : Unused(q)} :
         \E c \in UpdateCommands(r, {Board}) :
            /\ c.type = verb[move.status]
            /\ log' = [log EXCEPT ![move.task] = Append(@, AfterApply(process(c)))]
    /\ moves' = moves \ {move}
    /\ UNCHANGED <<delivered, acked, failed, view, restarts, listing, touched>>
    /\ UNCHANGED <<tasks, loading, connection, sent, asked, raced, missed>>

\* The PUT fails: the page logs it and leaves the card where it was dropped.
MoveFails(move) ==
    /\ moves' = moves \ {move}
    /\ missed' = missed \cup {move.task}
    /\ UNCHANGED <<listingVars, tasks, loading, connection, sent, asked, raced>>

\* Other users, and the workflow behind the task view.  The query service is
\* not restarted here (see TaskQuerySide, TaskListing).
TasksChange ==
    /\ \E t \in Tasks : Publish(t) \/ Handle(t) \/ HandleFails(t)
    /\ Touch
    /\ UNCHANGED pageVars

PageNext ==
    \/ TasksChange
    \/ LoadTasks \/ LoadTasksContinues \/ TasksLoaded \/ LoadTasksFails \/ LoadTasksRefused
    \/ \E t \in Tasks : Receive(t) \/ Miss(t)
    \/ Connect \/ Disconnect
    \/ \E i \in DOMAIN tasks, status \in TaskStatus : MoveTask(i, status)
    \/ \E move \in moves : MoveStored(move) \/ MoveFails(move)

PageSpec == PageInit /\ [][PageNext]_allVars

-----------------------------------------------------------------------------
\* The page has loaded its tasks and had every message about t, and its user
\* has no move of t under way.
Settled(t) ==
    /\ loading = "loaded"
    /\ connection = "open"
    /\ sent[t] = Len(log[t])
    /\ \A move \in moves : move.task # t

CardsOf(t) == Filter(tasks, {card \in ToSet(tasks) : card.id = t})

\* The columns t should be shown in, with the number of its cards.
Shown(t) == IF Exists(t) /\ Visible(transform(Replay(log[t])), Board)
            THEN <<Replay(log[t]).status>> ELSE <<>>

\* Moved or edited after it was deleted.
TouchedAfterDeletion(t) ==
    \E i, j \in DOMAIN log[t] : i < j /\ log[t][i].type = "TaskDeletedEvent"

Columns(cards) == [i \in DOMAIN cards |-> cards[i].status]

(* The page shows only the backlog and its board's tasks, whatever users   *)
(* and messages do: the handlers of KanbanBoardController each keep this.  *)
ShowsOnlyItsBoard ==
    \A i \in DOMAIN tasks : tasks[i].status = "backlog" \/ tasks[i].boardId = Board

(* A settled page shows a task in the column the command side has it in,   *)
(* once, and no task that is deleted or elsewhere: drags of this user and  *)
(* moves of others have come to the same end.  Left out are the tasks for  *)
(* which loading raced, or the load, a message or a move was lost, and     *)
(* those used after their deletion.                                        *)
SettledPageShowsColumns ==
    \A t \in Tasks :
        Settled(t) /\ t \notin missed \cup raced /\ ~TouchedAfterDeletion(t)
            => Columns(CardsOf(t)) = Shown(t)

(* The same of a task for which the page missed nothing and no move failed *)
(* (README.md:6).  Not so: loadTasks may answer with an older state than   *)
(* the messages it replaces, or a newer one than the next.                 *)
LoadedPageShowsColumns ==
    \A t \in Tasks :
        Settled(t) /\ t \notin missed /\ Exists(t) => Columns(CardsOf(t)) = Shown(t)

(* A settled page shows no deleted task.  Not so: a move of a task deleted *)
(* meanwhile is stored, and its message makes updateTask add the card.     *)
NoDeletedTaskShown ==
    \A t \in Tasks :
        Settled(t) /\ t \notin missed \cup raced /\ ~Exists(t) => CardsOf(t) = <<>>

(* A settled page shows the titles tasks have.  Not so: TaskUpdatedEvent   *)
(* messages are ignored.                                                   *)
SettledPageShowsTitles ==
    \A t \in Tasks : Settled(t) /\ t \notin missed \cup raced /\ Exists(t) =>
        \A i \in DOMAIN CardsOf(t) : CardsOf(t)[i].title = Replay(log[t]).taskDetails

-----------------------------------------------------------------------------
(* The inductive invariant, proved in BoardPage_proofs.                    *)

\* The document of a task after the first n events of its history.
DocumentAt(history, n) ==
    IF n = 0 \/ \E k \in 1..n : history[k].type = "TaskDeletedEvent"
    THEN Null
    ELSE transform(States(history)[n])

\* The query service is not restarted, so no document is ahead of delivery.
ViewIsVersion == \A t \in Tasks : view[t] = DocumentAt(log[t], delivered[t])

\* A command for a task that was never created would begin its history.
CardsAreOfTasks ==
    /\ \A i \in DOMAIN tasks : log[tasks[i].id] # <<>>
    /\ \A move \in moves : log[move.task] # <<>>

CountsAreInHistories == \A t \in Tasks : sent[t] <= Len(log[t]) /\ asked[t] <= Len(log[t])

AnswerIsOwn ==
    loading = "asked" => listing.step \in {"half", "done"} /\ listing.boardId = Board

\* The answer to loadTasks has the tasks left alone as they were when it was
\* asked for.
AnswerIsVersionAsked ==
    loading = "asked" =>
        \A t \in Tasks \ touched :
            LET doc == DocumentAt(log[t], asked[t])
            IN  /\ listing.step = "half" => view[t] = doc
                /\ listing.step = "done" =>
                      /\ \A e \in listing.backlog \cup listing.tasks :
                            e.id = t => e.task = doc
                      /\ Visible(doc, Board) =>
                            [id |-> t, task |-> doc] \in listing.backlog \cup listing.tasks

AtMostOnce(cards, t) ==
    \A i, j \in DOMAIN cards : cards[i].id = t /\ cards[j].id = t => i = j

\* The cards show t in the column doc has it in, or not at all.
ShowAs(cards, t, doc) ==
    /\ \A i \in DOMAIN cards :
          cards[i].id = t => Visible(doc, Board) /\ cards[i].status = doc.status
    /\ Visible(doc, Board) => \E i \in DOMAIN cards : cards[i].id = t

\* A message about t that is to come puts its card right.
Correctable(t) ==
    \/ \E k \in (sent[t] + 1)..Len(log[t]) : log[t][k].type # "TaskUpdatedEvent"
    \/ \E move \in moves : move.task = t

\* The page shows t once and as the last message left it, unless a message
\* or a move of its own is to come that decides anew.
Follows(t) ==
    /\ AtMostOnce(tasks, t)
    /\ sent[t] = 0 => \A i \in DOMAIN tasks : tasks[i].id # t
    /\ ShowAs(tasks, t, DocumentAt(log[t], sent[t])) \/ Correctable(t)

PageFollows ==
    loading = "loaded" =>
        \A t \in Tasks \ (missed \cup raced) : TouchedAfterDeletion(t) \/ Follows(t)

(* What holds of view, answer, messages and page at any time, on top of    *)
(* ListingIInv.  If moves name boards, the answer is the state at one      *)
(* moment, and a message with a column takes the card from whatever it is  *)
(* to that event's state.                                                  *)
PageIInv ==
    /\ PageTypeOK
    /\ ShowsOnlyItsBoard
    /\ CardsAreOfTasks
    /\ CountsAreInHistories
    /\ AnswerIsOwn
    /\ Null \notin MoveBoards => ViewIsVersion /\ AnswerIsVersionAsked /\ PageFollows
=============================================================================
