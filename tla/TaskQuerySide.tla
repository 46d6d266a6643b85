--------------------------- MODULE TaskQuerySide ---------------------------
(***************************************************************************)
(* The task query side: TaskQueryWorkflow handles the events of the tasks  *)
(* and keeps one MongoDB document per task.                                *)
(*                                                                         *)
(* The event store is external.  It delivers a task's events to the        *)
(* workflow in their order and at least once: an event whose handler ended *)
(* well is acknowledged later, and a restarted service gets every event    *)
(* again that was not.  An event whose handler threw is not acknowledged,  *)
(* nor is a later one of its task; whether later ones are delivered before *)
(* the next restart is left open.                                          *)
(***************************************************************************)
EXTENDS TaskAggregate, FiniteSets

CONSTANTS
    Tasks,        \* task ids
    MoveBoards,   \* the boards move requests name, a subset of BoardRefs
    MaxRestarts   \* bound on the restarts of the query service

ASSUME QueryAssumption ==
    /\ MoveBoards \subseteq BoardRefs
    /\ MaxRestarts \in Nat

VARIABLES
    log,        \* log[t]: the events of t in the store
    delivered,  \* delivered[t]: how many were handed to the workflow
    acked,      \* acked[t]: how many it acknowledged
    failed,     \* failed[t]: a handler threw since the service was started
    view,       \* view[t]: the document of t, Null if there is none
    restarts

vars == <<log, delivered, acked, failed, view, restarts>>

\* A document of the tasks collection.
Task == [boardId: BoardRefs, details: Details, created: Requests,
         updated: Requests, status: TaskStatus, deleted: BOOLEAN]

ASSUME DocumentAssumption == Null \notin Task

TypeOK ==
    /\ log \in [Tasks -> Seq(TaskEvent)]
    /\ delivered \in [Tasks -> Nat]
    /\ acked \in [Tasks -> Nat]
    /\ failed \in [Tasks -> BOOLEAN]
    /\ view \in [Tasks -> Task \cup {Null}]
    /\ restarts \in 0..MaxRestarts

Init ==
    /\ log = [t \in Tasks |-> <<>>]
    /\ delivered = [t \in Tasks |-> 0]
    /\ acked = [t \in Tasks |-> 0]
    /\ failed = [t \in Tasks |-> FALSE]
    /\ view = [t \in Tasks |-> Null]
    /\ restarts = 0

-----------------------------------------------------------------------------
(* The command side, as far as its events go (see TaskCommandSide: a       *)
(* history starts with its creation, a request writes at most one event).  *)

Unused(r) == \A t \in Tasks : \A i \in 1..Len(log[t]) : Author(log[t][i]) # r

Publish(t) ==
    /\ \E r \in {q \in Requests : Unused(q)} :
         \E c \in IF log[t] = <<>> THEN CreateCommands(r)
                                   ELSE UpdateCommands(r, MoveBoards) :
            log' = [log EXCEPT ![t] = Append(@, AfterApply(process(c)))]
    /\ UNCHANGED <<delivered, acked, failed, view, restarts>>

-----------------------------------------------------------------------------
(* TaskQueryWorkflow and TaskUpdateService.                                *)

\* Task.transform
transform(info) ==
    [boardId |-> info.boardId, details |-> info.taskDetails,
     created |-> info.creation, updated |-> info.update,
     status |-> info.status, deleted |-> info.deleted]

\* The TaskInfo a handler builds to update a document, null where the event
\* has nothing to say.
Changes(event) ==
    [taskDetails |-> IF event.type = "TaskUpdatedEvent" THEN event.taskDetails ELSE Null,
     boardId     |-> IF event.type \in MoveEvents THEN event.boardId ELSE Null,
     status      |-> IF event.type \in MoveEvents THEN StatusOf[event.type]
                     ELSE IF event.type = "TaskBacklogEvent" THEN "backlog" ELSE Null,
     update      |-> event.update]

\* A mutant: a field the event says nothing of is overwritten with null.
Overwrite(value, default) == value

OrElse(value, default) == IF value # Null THEN value ELSE default

\* A mutant: the board is set once, by the first event that names one.
UpdateKeepsBoard(doc, changes) ==
    [doc EXCEPT !.details = OrElse(changes.taskDetails, @),
                !.updated = OrElse(changes.update, @),
                !.boardId = OrElse(@, changes.boardId),
                !.status  = OrElse(changes.status, @)]

\* TaskUpdateService.update on a document that exists.
update(doc, changes) ==
    [doc EXCEPT !.details = OrElse(changes.taskDetails, @),
                !.updated = OrElse(changes.update, @),
                !.boardId = OrElse(changes.boardId, @),
                !.status  = OrElse(changes.status, @)]

\* A mutant: a creation inserts a document, which must not be there yet.
CanInsert(doc, event) == (event.type = "TaskCreatedEvent") <=> (doc = Null)

\* A creation overwrites; a deletion or an update throws without a document.
CanHandle(doc, event) == event.type = "TaskCreatedEvent" \/ doc # Null

handle(doc, event) ==
    CASE event.type = "TaskCreatedEvent" -> transform(event.taskInfo)
      [] event.type = "TaskDeletedEvent" -> Null
      [] OTHER -> update(doc, Changes(event))

Upcoming(t) == log[t][delivered[t] + 1]

Handle(t) ==
    /\ delivered[t] < Len(log[t])
    /\ CanHandle(view[t], Upcoming(t))
    /\ view' = [view EXCEPT ![t] = handle(@, Upcoming(t))]
    /\ delivered' = [delivered EXCEPT ![t] = @ + 1]
    /\ UNCHANGED <<log, acked, failed, restarts>>

HandleFails(t) ==
    /\ delivered[t] < Len(log[t])
    /\ ~CanHandle(view[t], Upcoming(t))
    /\ delivered' = [delivered EXCEPT ![t] = @ + 1]
    /\ failed' = [failed EXCEPT ![t] = TRUE]
    /\ UNCHANGED <<log, acked, view, restarts>>

Acknowledge(t) ==
    /\ acked[t] < delivered[t]
    /\ ~failed[t]
    /\ acked' = [acked EXCEPT ![t] = @ + 1]
    /\ UNCHANGED <<log, delivered, failed, view, restarts>>

\* The documents survive; events not acknowledged come again.
Restart ==
    /\ restarts < MaxRestarts
    /\ restarts' = restarts + 1
    /\ delivered' = acked
    /\ failed' = [t \in Tasks |-> FALSE]
    /\ UNCHANGED <<log, acked, view>>

Next ==
    \/ \E t \in Tasks : Publish(t) \/ Handle(t) \/ HandleFails(t) \/ Acknowledge(t)
    \/ Restart

\* The store keeps delivering to a workflow that has not thrown.
Fairness == \A t \in Tasks : WF_vars(~failed[t] /\ Handle(t))

Spec == Init /\ [][Next]_vars /\ Fairness

-----------------------------------------------------------------------------
(* The document a task should have: the aggregate, or none when it is not  *)
(* there or deleted.  It is computed by TaskAggregate.apply on the command *)
(* side, the view by TaskUpdateService from changes.                       *)
Exists(t) == log[t] # <<>> /\ ~Replay(log[t]).deleted

Projection(t) == IF Exists(t) THEN transform(Replay(log[t])) ELSE Null

(* Whenever the workflow has been given all events of a task, its document *)
(* is the aggregate's state, although restarts made it handle some events  *)
(* twice, on top of later ones (TaskUpdateService.update merges fields).   *)
CaughtUpViewIsProjection ==
    \A t \in Tasks : delivered[t] = Len(log[t]) => view[t] = Projection(t)

(* A handler throws only for a task that has been deleted: the document of *)
(* any other is there when an event needs it, redelivered events included  *)
(* (NoSuchElementException in TaskUpdateService.update).                   *)
OnlyDeletedTasksFail == \A t \in Tasks : failed[t] => ~Exists(t)

(* Once users and restarts leave a task alone, its document becomes the    *)
(* aggregate's state and stays it; a deleted task's is gone for good, even *)
(* when its events can no longer be acknowledged.                          *)
EventuallyConsistent == \A t \in Tasks : <>[](view[t] = Projection(t))

-----------------------------------------------------------------------------
(* The inductive invariant, proved in TaskQuerySide_proofs.                *)

\* The types of the events that set a field of a task, in the aggregate and
\* in a document alike.
Setters ==
    [created |-> {"TaskCreatedEvent"},
     details |-> {"TaskCreatedEvent", "TaskUpdatedEvent"},
     boardId |-> {"TaskCreatedEvent"} \cup MoveEvents,
     status  |-> {"TaskCreatedEvent", "TaskBacklogEvent"} \cup MoveEvents,
     updated |-> {"TaskCreatedEvent", "TaskUpdatedEvent", "TaskDeletedEvent",
                  "TaskBacklogEvent"} \cup MoveEvents]

Fields == {"created", "details", "boardId", "status", "updated"}

\* An event of t that comes after version i and leads up to version j sets
\* the field.
SetAfter(t, i, j, field) == \E k \in (i + 1)..j : log[t][k].type \in Setters[field]

\* The first i events of t have a deletion.
DeletedBy(t, i) == \E k \in 1..i : log[t][k].type = "TaskDeletedEvent"

\* The events are as the command side writes them.
HistoriesAreWritten ==
    \A t \in Tasks : \A i \in 1..Len(log[t]) :
        LET event == log[t][i]
        IN  /\ event.type = "TaskCreatedEvent" <=> i = 1
            /\ i = 1 => event.taskInfo.status = "backlog" /\ ~event.taskInfo.deleted
            /\ event.type \in MoveEvents => event.boardId \in MoveBoards

\* A version is a whole task, deleted if a deletion came before.
VersionsAreTasks ==
    \A t \in Tasks : \A i \in 1..Len(log[t]) :
        LET task == States(log[t])[i]
        IN  /\ task \in TaskInfo
            /\ task.status \in TaskStatus
            /\ task.deleted <=> DeletedBy(t, i)

\* A field of the aggregate stays as it is until it is set again.
FieldsAreSet ==
    \A t \in Tasks : \A j \in 1..Len(log[t]) : \A i \in 1..j : \A field \in Fields :
        \/ SetAfter(t, i, j, field)
        \/ transform(States(log[t])[i])[field] = transform(States(log[t])[j])[field]

DeliveryInOrder ==
    \A t \in Tasks : acked[t] <= delivered[t] /\ delivered[t] <= Len(log[t])

\* Once delivery is past the creation, only a deletion takes a document away,
\* one that may be delivered again later; it does not come back by itself.
DocumentsExist ==
    \A t \in Tasks :
        /\ view[t] = Null => delivered[t] = 0 \/ DeletedBy(t, Len(log[t]))
        /\ view[t] # Null => /\ log[t] # <<>>
                             /\ ~view[t].deleted
                             /\ ~DeletedBy(t, delivered[t])

\* A field of a document is as it was when the last delivered event was
\* written, or an event that is yet to be delivered, or to be again, sets it.
FieldsFollow ==
    Null \notin MoveBoards =>
        \A t \in Tasks : view[t] # Null =>
            \A field \in Fields :
                \/ SetAfter(t, delivered[t], Len(log[t]), field)
                \/ view[t][field] = transform(States(log[t])[delivered[t]])[field]

FailedAreDeleted == \A t \in Tasks : failed[t] => DeletedBy(t, Len(log[t]))

(* What holds of histories, delivery and documents together at any time,   *)
(* and is kept by every event, redelivery and restart: in particular, no   *)
(* field of a document is wrong but those that are still to be set.        *)
QueryIInv ==
    /\ TypeOK
    /\ HistoriesAreWritten
    /\ VersionsAreTasks
    /\ FieldsAreSet
    /\ DeliveryInOrder
    /\ DocumentsExist
    /\ FieldsFollow
    /\ FailedAreDeleted
=============================================================================
