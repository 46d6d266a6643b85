--------------------------- MODULE TaskAggregate ---------------------------
(***************************************************************************)
(* The task aggregate of the command side: what a command makes of it and  *)
(* how its state is rebuilt from its events.  Pure definitions, no state.  *)
(*                                                                         *)
(* An AuditEntry (who, when) is stamped once per HTTP request; it is       *)
(* represented by the request itself, so an event names the request that   *)
(* caused it.  Titles and descriptions are one value of Details.           *)
(***************************************************************************)
EXTENDS Naturals, Sequences

CONSTANTS
    Boards,    \* board ids
    Details,   \* the values of a TaskDetails (title and description)
    Requests,  \* HTTP requests, standing for the audit entries they stamp
    Null       \* Java's null, an absent JSON field

TaskStatus == {"backlog", "scheduled", "started", "completed"}

BoardRefs == Boards \cup {Null}

TaskInfo ==
    [boardId: BoardRefs, taskDetails: Details, creation: Requests,
     update: Requests, status: TaskStatus \cup {Null}, deleted: BOOLEAN]

ASSUME NullAssumption ==
    Null \notin Boards \cup Details \cup Requests \cup TaskStatus \cup TaskInfo

-----------------------------------------------------------------------------
(* Commands and the event each one is turned into.                         *)

\* The commands that move a task to a column of a board.
Moves == {"schedule", "start", "complete"}

TaskCommand ==
    [type: {"create"}, taskInfo: TaskInfo]
        \cup [type: {"update"}, taskDetails: Details, update: Requests]
        \cup [type: {"delete", "backlog"}, update: Requests]
        \cup [type: Moves, boardId: BoardRefs, update: Requests]

EventType ==
    [create   |-> "TaskCreatedEvent",   update  |-> "TaskUpdatedEvent",
     delete   |-> "TaskDeletedEvent",   backlog |-> "TaskBacklogEvent",
     schedule |-> "TaskScheduledEvent", start   |-> "TaskStartedEvent",
     complete |-> "TaskCompletedEvent"]

MoveEvents == {"TaskScheduledEvent", "TaskStartedEvent", "TaskCompletedEvent"}

TaskEvent ==
    [type: {"TaskCreatedEvent"}, taskInfo: TaskInfo]
        \cup [type: {"TaskUpdatedEvent"}, taskDetails: Details, update: Requests]
        \cup [type: {"TaskDeletedEvent", "TaskBacklogEvent"}, update: Requests]
        \cup [type: MoveEvents, boardId: BoardRefs, update: Requests]

\* The commands request r can carry.  The body of a creation is written by
\* the client, audit entries included; it names no status.
CreateCommands(r) ==
    {[type |-> "create",
      taskInfo |-> [boardId |-> b, taskDetails |-> d, creation |-> r,
                    update |-> r, status |-> Null, deleted |-> FALSE]] :
        b \in BoardRefs, d \in Details}

\* A move names a board in its body, or none.
UpdateCommands(r, boards) ==
    [type: {"update"}, taskDetails: Details, update: {r}]
        \cup [type: {"delete", "backlog"}, update: {r}]
        \cup [type: Moves, boardId: boards, update: {r}]

\* No handler looks at the aggregate: every command yields its one event,
\* with the command's payload, whatever the task's state.
process(cmd) == [cmd EXCEPT !.type = EventType[cmd.type]]

-----------------------------------------------------------------------------
(* The effect of an event on the aggregate.                                *)

StatusOf ==
    [TaskScheduledEvent |-> "scheduled", TaskStartedEvent |-> "started",
     TaskCompletedEvent |-> "completed"]

\* A mutant: every event but a deletion marks the task not deleted.
ApplyUndeleting(task, event) ==
    IF event.type = "TaskCreatedEvent"
    THEN [event.taskInfo EXCEPT !.status = "backlog"]
    ELSE [task EXCEPT !.deleted = (event.type = "TaskDeletedEvent")]

apply(task, event) ==
    CASE event.type = "TaskCreatedEvent" ->
            [event.taskInfo EXCEPT !.status = "backlog"]
      [] event.type = "TaskDeletedEvent" ->
            [task EXCEPT !.update = event.update, !.deleted = TRUE]
      [] event.type = "TaskUpdatedEvent" ->
            [task EXCEPT !.taskDetails = event.taskDetails, !.update = event.update]
      [] event.type = "TaskBacklogEvent" ->
            [task EXCEPT !.status = "backlog", !.update = event.update]
      [] event.type \in MoveEvents ->
            [task EXCEPT !.status = StatusOf[event.type],
                         !.boardId = event.boardId, !.update = event.update]

\* A mutant: apply works on a copy of the event's TaskInfo.
AfterApplyToCopy(event) == event

\* apply(TaskCreatedEvent) keeps the event's TaskInfo as the aggregate's own
\* and sets the status on that shared object, so the event, stored after it
\* was applied, carries the status too.
AfterApply(event) ==
    IF event.type = "TaskCreatedEvent"
    THEN [event EXCEPT !.taskInfo.status = "backlog"]
    ELSE event

\* The request an event was written for.
Author(event) ==
    IF event.type = "TaskCreatedEvent" THEN event.taskInfo.update ELSE event.update

\* The aggregate after each prefix of a history; it does not exist before
\* the first event.
States(history) ==
    LET state[n \in 0..Len(history)] ==
            IF n = 0 THEN Null ELSE apply(state[n - 1], history[n])
    IN  state

Replay(history) == States(history)[Len(history)]
=============================================================================
