------------------------ MODULE TaskQuerySide_proofs ------------------------
(***************************************************************************)
(* Safety of the task query side for any number of tasks, events, boards   *)
(* and restarts: QueryIInv is inductive, so a document that has caught up  *)
(* is the aggregate, whatever was delivered again.  ListingIInv builds on  *)
(* it: GET /tasks lists a task left alone between its queries once.        *)
(***************************************************************************)
EXTENDS TaskListing, TaskAggregate_proofs

-----------------------------------------------------------------------------
(* The events the command side writes for the commands of a request.       *)
LEMMA CreationEvent ==
    ASSUME NEW r \in Requests, NEW c \in CreateCommands(r),
           NEW event, event = AfterApply(process(c))
    PROVE  /\ event \in TaskEvent
           /\ event.type = "TaskCreatedEvent"
           /\ event.taskInfo.status = "backlog"
           /\ ~event.taskInfo.deleted
<1>1. PICK b \in BoardRefs, d \in Details :
         c = [type |-> "create",
              taskInfo |-> [boardId |-> b, taskDetails |-> d, creation |-> r,
                            update |-> r, status |-> Null, deleted |-> FALSE]]
    BY DEF CreateCommands
<1> DEFINE info == c.taskInfo
<1>2. info \in TaskInfo /\ ~info.deleted /\ c.type = "create"
    BY <1>1 DEF TaskInfo
<1>3. c \in TaskCommand
    BY <1>1, <1>2 DEF TaskCommand
<1>4. /\ process(c) \in TaskEvent
      /\ process(c).type = "TaskCreatedEvent"
      /\ process(c).taskInfo = info
    BY <1>2, <1>3, ProcessType
<1>5. event \in TaskEvent /\ event.type = "TaskCreatedEvent"
    BY <1>4, AfterApplyType
<1>6. process(c) \in [type: {"TaskCreatedEvent"}, taskInfo: TaskInfo]
    BY <1>4 DEF TaskEvent, MoveEvents
<1>7. event.taskInfo = [info EXCEPT !.status = "backlog"]
    BY <1>4, <1>6 DEF AfterApply
<1>8. event.taskInfo.status = "backlog" /\ event.taskInfo.deleted = info.deleted
    BY <1>2, <1>7 DEF TaskInfo
<1>9. QED
    BY <1>2, <1>5, <1>8

\* An update's event is no creation and names a board moves may name.
LEMMA UpdateEvent ==
    ASSUME NEW r \in Requests, NEW c \in UpdateCommands(r, MoveBoards),
           NEW event, event = AfterApply(process(c))
    PROVE  /\ event \in TaskEvent
           /\ event.type # "TaskCreatedEvent"
           /\ event.type \in MoveEvents => event.boardId \in MoveBoards
<1>1. c \in TaskCommand /\ c.type # "create"
    BY QueryAssumption DEF UpdateCommands, TaskCommand, Moves
<1>2. process(c) \in TaskEvent /\ process(c).type # "TaskCreatedEvent"
    BY <1>1, ProcessType
<1>3. event = process(c)
    BY <1>2 DEF AfterApply
<1>4. event.type \in MoveEvents => event.boardId \in MoveBoards
    <2>1. CASE c.type \in Moves
        BY <1>3, <2>1 DEF UpdateCommands, process, Moves
    <2>2. CASE c.type \notin Moves
        BY <1>1, <1>3, <2>2 DEF UpdateCommands, process, EventType, Moves, MoveEvents
    <2>3. QED
        BY <2>1, <2>2
<1>5. QED
    BY <1>2, <1>3, <1>4

-----------------------------------------------------------------------------
(* Field by field, TaskAggregate.apply and TaskUpdateService do the same.  *)

(* An event leaves the fields of the aggregate alone that it does not set. *)
LEMMA UnsetFieldStays ==
    ASSUME NEW event \in TaskEvent, NEW task \in TaskInfo, NEW field \in Fields,
           event.type \notin Setters[field]
    PROVE  transform(apply(task, event))[field] = transform(task)[field]
<1>1. event.type \in {"TaskUpdatedEvent", "TaskDeletedEvent", "TaskBacklogEvent"} \cup MoveEvents
    BY DEF TaskEvent, Setters, Fields
<1>2. field # "updated"
    BY <1>1 DEF Setters
<1>3. CASE event.type = "TaskUpdatedEvent"
    <2>1. apply(task, event) = [task EXCEPT !.taskDetails = event.taskDetails, !.update = event.update]
        BY <1>3 DEF apply, MoveEvents
    <2>2. QED
        BY <1>2, <1>3, <2>1 DEF Setters, Fields, transform, TaskInfo, MoveEvents
<1>4. CASE event.type = "TaskDeletedEvent"
    <2>1. apply(task, event) = [task EXCEPT !.update = event.update, !.deleted = TRUE]
        BY <1>4 DEF apply, MoveEvents
    <2>2. QED
        BY <1>2, <1>4, <2>1 DEF Setters, Fields, transform, TaskInfo, MoveEvents
<1>5. CASE event.type = "TaskBacklogEvent"
    <2>1. apply(task, event) = [task EXCEPT !.status = "backlog", !.update = event.update]
        BY <1>5 DEF apply, MoveEvents
    <2>2. QED
        BY <1>2, <1>5, <2>1 DEF Setters, Fields, transform, TaskInfo, MoveEvents
<1>6. CASE event.type \in MoveEvents
    BY <1>2, <1>6 DEF Setters, Fields, transform, apply, TaskInfo, MoveEvents
<1>7. QED
    BY <1>1, <1>3, <1>4, <1>5, <1>6

(* Whether a task is deleted is changed by creations and deletions only.   *)
LEMMA DeletedIsSet ==
    ASSUME NEW event \in TaskEvent, NEW task,
           event.type # "TaskCreatedEvent" => task \in TaskInfo
    PROVE  /\ apply(task, event).deleted <=>
                 CASE event.type = "TaskCreatedEvent" -> event.taskInfo.deleted
                   [] event.type = "TaskDeletedEvent" -> TRUE
                   [] OTHER -> task.deleted
           /\ (event.type = "TaskCreatedEvent" \/ task.status \in TaskStatus)
                 => apply(task, event).status \in TaskStatus
<1>1. CASE event.type = "TaskCreatedEvent"
    BY <1>1 DEF TaskEvent, apply, MoveEvents, TaskInfo, TaskStatus
<1>2. CASE event.type = "TaskDeletedEvent"
    BY <1>2 DEF apply, MoveEvents, TaskInfo
<1>3. CASE event.type = "TaskUpdatedEvent"
    BY <1>3 DEF apply, MoveEvents, TaskInfo
<1>4. CASE event.type = "TaskBacklogEvent"
    BY <1>4 DEF apply, MoveEvents, TaskInfo, TaskStatus
<1>5. CASE event.type \in MoveEvents
    BY <1>5 DEF apply, MoveEvents, TaskInfo, TaskStatus, StatusOf
<1>6. QED
    BY <1>1, <1>2, <1>3, <1>4, <1>5 DEF TaskEvent

(* A document is made of a created task as it is.                          *)
LEMMA CreateDocument ==
    ASSUME NEW event \in TaskEvent, event.type = "TaskCreatedEvent",
           event.taskInfo.status = "backlog", ~event.taskInfo.deleted,
           NEW doc, NEW task
    PROVE  /\ handle(doc, event) \in Task
           /\ ~handle(doc, event).deleted
           /\ handle(doc, event) = transform(apply(task, event))
<1>1. handle(doc, event) = transform(event.taskInfo) /\ event.taskInfo \in TaskInfo
    BY DEF handle, TaskEvent, MoveEvents
<1>2. apply(task, event) = event.taskInfo
    <2>1. CASE event.type = "TaskCreatedEvent"
        BY <1>1, <2>1 DEF apply, TaskInfo, MoveEvents
    <2>2. QED
        BY <2>1
<1>3. QED
    BY <1>1, <1>2 DEF transform, Task, TaskInfo, TaskStatus

(* An update takes the fields the event sets, as apply does, and keeps the *)
(* others.  A move without a board keeps the board instead.                *)
LEMMA UpdateDocument ==
    ASSUME NEW event \in TaskEvent,
           event.type \notin {"TaskCreatedEvent", "TaskDeletedEvent"},
           NEW doc \in Task, NEW task \in TaskInfo
    PROVE  /\ handle(doc, event) \in Task
           /\ handle(doc, event).deleted = doc.deleted
           /\ (event.type \in MoveEvents => event.boardId # Null) =>
                 \A field \in Fields :
                     handle(doc, event)[field]
                         = IF event.type \in Setters[field]
                           THEN transform(apply(task, event))[field] ELSE doc[field]
<1> DEFINE changes == Changes(event)
           details == OrElse(changes.taskDetails, doc.details)
           updated == OrElse(changes.update, doc.updated)
           boardId == OrElse(changes.boardId, doc.boardId)
           status == OrElse(changes.status, doc.status)
<1>1. /\ handle(doc, event) = update(doc, changes)
      /\ event.type \in {"TaskUpdatedEvent", "TaskBacklogEvent"} \cup MoveEvents
      /\ event.update \in Requests
    BY DEF handle, TaskEvent
<1>2. Null \notin Requests /\ Null \notin Details /\ Null \notin TaskStatus
    BY NullAssumption
<1>3. /\ changes.update = event.update
      /\ changes.taskDetails = IF event.type = "TaskUpdatedEvent" THEN event.taskDetails ELSE Null
      /\ changes.boardId = IF event.type \in MoveEvents THEN event.boardId ELSE Null
      /\ changes.status = IF event.type \in MoveEvents THEN StatusOf[event.type]
                          ELSE IF event.type = "TaskBacklogEvent" THEN "backlog" ELSE Null
    BY DEF Changes
<1>4. /\ event.type = "TaskUpdatedEvent" => event.taskDetails \in Details
      /\ event.type \in MoveEvents => event.boardId \in BoardRefs /\ StatusOf[event.type] \in TaskStatus
    BY DEF TaskEvent, MoveEvents, StatusOf, TaskStatus
<1>5. update(doc, changes) = [doc EXCEPT !.details = details, !.updated = updated,
                                         !.boardId = boardId, !.status = status]
    BY DEF update
<1> HIDE DEF changes
<1>6. /\ details = IF changes.taskDetails # Null THEN changes.taskDetails ELSE doc.details
      /\ updated = IF changes.update # Null THEN changes.update ELSE doc.updated
      /\ boardId = IF changes.boardId # Null THEN changes.boardId ELSE doc.boardId
      /\ status = IF changes.status # Null THEN changes.status ELSE doc.status
    BY DEF OrElse
<1> HIDE DEF details, updated, boardId, status
<1>7. /\ update(doc, changes).created = doc.created
      /\ update(doc, changes).deleted = doc.deleted
      /\ update(doc, changes).details = details
      /\ update(doc, changes).updated = updated
      /\ update(doc, changes).boardId = boardId
      /\ update(doc, changes).status = status
    BY <1>5 DEF Task
<1>8. update(doc, changes) \in Task
    <2>1. details \in Details /\ updated \in Requests /\ boardId \in BoardRefs
        BY <1>1, <1>3, <1>4, <1>6 DEF Task
    <2>2. status \in TaskStatus
        <3>1. changes.status \in TaskStatus \cup {Null}
            BY <1>3, <1>4 DEF TaskStatus
        <3>2. QED
            BY <1>6, <3>1 DEF Task
    <2>3. QED
        BY <1>5, <2>1, <2>2 DEF Task
<1>9. ASSUME event.type \in MoveEvents => event.boardId # Null, NEW field \in Fields
      PROVE  update(doc, changes)[field]
                 = IF event.type \in Setters[field]
                   THEN transform(apply(task, event))[field] ELSE doc[field]
    <2>1. CASE event.type = "TaskUpdatedEvent"
        <3>1. apply(task, event) = [task EXCEPT !.taskDetails = event.taskDetails,
                                                !.update = event.update]
            BY <2>1 DEF apply, MoveEvents
        <3>2. QED
            BY <1>1, <1>2, <1>3, <1>4, <1>6, <1>7, <2>1, <3>1
            DEF Setters, Fields, transform, TaskInfo, MoveEvents
    <2>2. CASE event.type = "TaskBacklogEvent"
        <3>1. Null # "backlog"
            BY <1>2 DEF TaskStatus
        <3>2. apply(task, event) = [task EXCEPT !.status = "backlog", !.update = event.update]
            BY <2>2 DEF apply, MoveEvents
        <3>3. QED
            BY <1>1, <1>2, <1>3, <1>4, <1>6, <1>7, <2>2, <3>1, <3>2
            DEF Setters, Fields, transform, TaskInfo, MoveEvents
    <2>3. CASE event.type \in MoveEvents
        <3>1. StatusOf[event.type] # Null
            BY <1>2, <1>4, <2>3
        <3>2. apply(task, event)
                 = [task EXCEPT !.status = StatusOf[event.type],
                                !.boardId = event.boardId, !.update = event.update]
            BY <2>3 DEF apply, MoveEvents
        <3>3. QED
            BY <1>1, <1>2, <1>3, <1>4, <1>6, <1>7, <1>9, <2>3, <3>1, <3>2
            DEF Setters, Fields, transform, TaskInfo, MoveEvents
    <2>4. QED
        BY <1>1, <2>1, <2>2, <2>3
<1>10. QED
    BY <1>1, <1>7, <1>8, <1>9

-----------------------------------------------------------------------------
(* The command side adds an event to a history.                            *)
Writes(t, event) ==
    /\ log' = [log EXCEPT ![t] = Append(@, event)]
    /\ event.type = "TaskCreatedEvent" <=> log[t] = <<>>
    /\ event.type = "TaskCreatedEvent" =>
          event.taskInfo.status = "backlog" /\ ~event.taskInfo.deleted
    /\ event.type \in MoveEvents => event.boardId \in MoveBoards

\* An event is published as the command side writes it.
LEMMA PublishWrites ==
    ASSUME NEW t \in Tasks, Publish(t)
    PROVE  \E event \in TaskEvent : Writes(t, event)
<1> USE DEF Writes
<1>1. CASE log[t] = <<>>
    <2>1. PICK r \in Requests : \E c \in CreateCommands(r) :
             log' = [log EXCEPT ![t] = Append(@, AfterApply(process(c)))]
        BY <1>1 DEF Publish
    <2>2. QED
        BY <1>1, <2>1, CreationEvent DEF MoveEvents
<1>2. CASE log[t] # <<>>
    <2>1. PICK r \in Requests : \E c \in UpdateCommands(r, MoveBoards) :
             log' = [log EXCEPT ![t] = Append(@, AfterApply(process(c)))]
        BY <1>2 DEF Publish
    <2>2. QED
        BY <1>2, <2>1, UpdateEvent
<1>3. QED
    BY <1>1, <1>2

(* It changes no version of any task, and makes one.                       *)
LEMMA WriteKeepsVersions ==
    ASSUME QueryIInv, NEW t \in Tasks, NEW event \in TaskEvent, Writes(t, event)
    PROVE  LET n == Len(log[t])
           IN  /\ Len(log'[t]) = n + 1 /\ log'[t] # <<>>
               /\ log'[t][n + 1] = event
               /\ \A u \in Tasks \ {t} : log'[u] = log[u]
               /\ \A u \in Tasks : \A i \in 1..Len(log[u]) :
                     log'[u][i] = log[u][i] /\ States(log'[u])[i] = States(log[u])[i]
               /\ \A i \in 0..n : States(log'[t])[i] = States(log[t])[i]
               /\ States(log'[t])[n + 1] = apply(States(log[t])[n], event)
<1> DEFINE n == Len(log[t])
<1>1. /\ log' = [log EXCEPT ![t] = Append(@, event)]
      /\ log \in [Tasks -> Seq(TaskEvent)]
      /\ log[t] \in Seq(TaskEvent) /\ n \in Nat
    BY DEF Writes, QueryIInv, TypeOK
<1>2. /\ Len(log'[t]) = n + 1 /\ log'[t] # <<>>
      /\ log'[t][n + 1] = event
      /\ \A i \in 1..n : log'[t][i] = log[t][i]
      /\ \A u \in Tasks \ {t} : log'[u] = log[u]
    BY <1>1
<1>3. /\ \A i \in 0..n : States(log'[t])[i] = States(log[t])[i]
      /\ States(log'[t])[n + 1] = apply(States(log[t])[n], event)
    BY <1>1, StatesAppend DEF Replay
<1>4. QED
    BY <1>1, <1>2, <1>3

\* QueryIInv is kept by an event that is written: it is yet to be delivered.
LEMMA WriteIInv ==
    ASSUME QueryIInv, NEW t \in Tasks, NEW event \in TaskEvent, Writes(t, event),
           UNCHANGED <<delivered, acked, failed, view, restarts>>
    PROVE  QueryIInv'
<1> DEFINE n == Len(log[t])
<1>1. /\ log' = [log EXCEPT ![t] = Append(@, event)]
      /\ event.type = "TaskCreatedEvent" <=> log[t] = <<>>
      /\ event.type = "TaskCreatedEvent" =>
            event.taskInfo.status = "backlog" /\ ~event.taskInfo.deleted
      /\ event.type \in MoveEvents => event.boardId \in MoveBoards
    BY DEF Writes
<1>2. UNCHANGED <<delivered, acked, failed, view, restarts>>
    OBVIOUS
<1>3. /\ log \in [Tasks -> Seq(TaskEvent)]
      /\ log[t] \in Seq(TaskEvent) /\ n \in Nat /\ (log[t] = <<>> <=> n = 0)
      /\ delivered[t] \in Nat /\ delivered[t] <= n
    BY DEF QueryIInv, TypeOK, DeliveryInOrder
<1>4. /\ Len(log'[t]) = n + 1
      /\ log'[t][n + 1] = event
      /\ \A i \in 1..n : log'[t][i] = log[t][i]
      /\ \A u \in Tasks \ {t} : log'[u] = log[u]
      /\ log'[t] # <<>>
    BY WriteKeepsVersions
<1>5. /\ \A i \in 0..n : States(log'[t])[i] = States(log[t])[i]
      /\ States(log'[t])[n + 1] = apply(States(log[t])[n], event)
    BY WriteKeepsVersions
<1>6. n # 0 => /\ n \in 1..n
              /\ States(log[t])[n] \in TaskInfo
              /\ States(log[t])[n].status \in TaskStatus
    BY <1>3 DEF QueryIInv, VersionsAreTasks
<1>7. n # 0 => (States(log[t])[n].deleted <=> DeletedBy(t, n))
    BY <1>3 DEF QueryIInv, VersionsAreTasks
<1>8. TypeOK'
    BY <1>1, <1>2 DEF QueryIInv, TypeOK
<1>9. \A u \in Tasks : \A i \in 1..Len(log'[u]) : i \in 1..Len(log[u]) \/ (u = t /\ i = n + 1)
    BY <1>3, <1>4
<1>10. \A u \in Tasks : \A i \in 1..Len(log[u]) :
          log'[u][i] = log[u][i] /\ States(log'[u])[i] = States(log[u])[i]
    BY WriteKeepsVersions
<1>11. HistoriesAreWritten'
    <2> SUFFICES ASSUME NEW u \in Tasks, NEW i \in 1..Len(log'[u])
                 PROVE  /\ log'[u][i].type = "TaskCreatedEvent" <=> i = 1
                        /\ i = 1 => /\ log'[u][i].taskInfo.status = "backlog"
                                    /\ ~log'[u][i].taskInfo.deleted
                        /\ log'[u][i].type \in MoveEvents => log'[u][i].boardId \in MoveBoards
        BY DEF HistoriesAreWritten
    <2>1. CASE u = t /\ i = n + 1
        BY <1>1, <1>3, <1>4, <2>1
    <2>2. CASE i \in 1..Len(log[u])
        BY <1>10, <2>2 DEF QueryIInv, HistoriesAreWritten
    <2>3. QED
        BY <1>9, <2>1, <2>2
<1>12. VersionsAreTasks'
    <2> SUFFICES ASSUME NEW u \in Tasks, NEW i \in 1..Len(log'[u])
                 PROVE  /\ States(log'[u])[i] \in TaskInfo
                        /\ States(log'[u])[i].status \in TaskStatus
                        /\ States(log'[u])[i].deleted <=>
                              \E k \in 1..i : log'[u][k].type = "TaskDeletedEvent"
        BY DEF VersionsAreTasks, DeletedBy
    <2>1. CASE u = t /\ i = n + 1
        <3>1. event.type # "TaskCreatedEvent" => States(log[t])[n] \in TaskInfo
            BY <1>1, <1>3, <1>6
        <3>2. apply(States(log[t])[n], event) \in TaskInfo
            BY <3>1, ApplyType
        <3>3. apply(States(log[t])[n], event).status \in TaskStatus
            BY <1>1, <1>3, <1>6, <3>1, DeletedIsSet
        <3>4. apply(States(log[t])[n], event).deleted <=>
                 event.type = "TaskDeletedEvent" \/ DeletedBy(t, n)
            <4>1. CASE event.type = "TaskCreatedEvent"
                <5>1. ~DeletedBy(t, n)
                    BY <1>1, <1>3, <4>1 DEF DeletedBy
                <5>2. QED
                    BY <1>1, <3>1, <4>1, <5>1, DeletedIsSet
            <4>2. CASE event.type # "TaskCreatedEvent"
                BY <1>1, <1>3, <1>7, <3>1, <4>2, DeletedIsSet
            <4>3. QED
                BY <4>1, <4>2
        <3>5. (\E k \in 1..(n + 1) : log'[t][k].type = "TaskDeletedEvent") <=>
                 event.type = "TaskDeletedEvent" \/ DeletedBy(t, n)
            <4>1. /\ \A k \in 1..(n + 1) : k \in 1..n \/ k = n + 1
                  /\ \A k \in 1..n : k \in 1..(n + 1)
                  /\ n + 1 \in 1..(n + 1)
                <5>1. n \in Nat
                    BY <1>3
                <5> HIDE DEF n
                <5>2. QED
                    BY <5>1
            <4>2. QED
                BY <1>4, <4>1 DEF DeletedBy
        <3>6. QED
            BY <1>5, <2>1, <3>2, <3>3, <3>4, <3>5
    <2>2. CASE i \in 1..Len(log[u])
        <3>1. (\E k \in 1..i : log'[u][k].type = "TaskDeletedEvent") <=> DeletedBy(u, i)
            <4>1. Len(log[u]) \in Nat
                BY <1>3
            <4>2. \A k \in 1..i : k \in 1..Len(log[u])
                BY <2>2, <4>1
            <4>3. QED
                BY <1>10, <4>2 DEF DeletedBy
        <3>2. QED
            BY <1>10, <2>2, <3>1 DEF QueryIInv, VersionsAreTasks
    <2>3. QED
        BY <1>9, <2>1, <2>2
<1>13. FieldsAreSet'
    <2> SUFFICES ASSUME NEW u \in Tasks, NEW j \in 1..Len(log'[u]), NEW i \in 1..j,
                        NEW field \in Fields,
                        \A k \in (i + 1)..j : log'[u][k].type \notin Setters[field]
                 PROVE  transform(States(log'[u])[i])[field]
                            = transform(States(log'[u])[j])[field]
        BY DEF FieldsAreSet, SetAfter
    <2>1. CASE j \in 1..Len(log[u])
        <3>1. i \in 1..Len(log[u]) /\ ~SetAfter(u, i, j, field)
            BY <1>10, <2>1 DEF SetAfter
        <3>2. transform(States(log[u])[i])[field] = transform(States(log[u])[j])[field]
            BY <2>1, <3>1 DEF QueryIInv, FieldsAreSet
        <3>3. QED
            BY <1>10, <2>1, <3>1, <3>2
    <2>2. CASE u = t /\ j = n + 1 /\ i # j
        <3>1. i \in 1..n /\ n \in 1..n
            BY <1>3, <2>2
        <3>2. ~SetAfter(t, i, n, field) /\ event.type \notin Setters[field]
            <4>1. n + 1 \in (i + 1)..j /\ \A k \in (i + 1)..n : k \in 1..n /\ k \in (i + 1)..j
                BY <1>3, <2>2, <3>1
            <4>2. event.type \notin Setters[field]
                BY <1>4, <2>2, <4>1
            <4>3. \A k \in (i + 1)..n : log[t][k].type \notin Setters[field]
                BY <1>4, <2>2, <4>1
            <4>4. QED
                BY <4>2, <4>3 DEF SetAfter
        <3>3. transform(States(log[t])[i])[field] = transform(States(log[t])[n])[field]
            BY <3>1, <3>2 DEF QueryIInv, FieldsAreSet
        <3>4. transform(apply(States(log[t])[n], event))[field]
                 = transform(States(log[t])[n])[field]
            BY <1>6, <3>1, <3>2, UnsetFieldStays
        <3>5. QED
            BY <1>5, <2>2, <3>1, <3>3, <3>4
    <2>3. QED
        BY <1>9, <2>1, <2>2
<1>14. DeliveryInOrder'
    BY <1>2, <1>3, <1>4 DEF QueryIInv, DeliveryInOrder
<1>15. \A u \in Tasks : /\ delivered[u] \in 0..Len(log[u])
                       /\ Len(log[u]) \in Nat
                       /\ Len(log'[u]) \in Nat
                       /\ Len(log[u]) <= Len(log'[u])
    BY <1>3, <1>4 DEF QueryIInv, TypeOK, DeliveryInOrder
<1>16. DocumentsExist'
    <2> SUFFICES ASSUME NEW u \in Tasks
                 PROVE  /\ view[u] = Null =>
                              \/ delivered[u] = 0
                              \/ \E k \in 1..Len(log'[u]) : log'[u][k].type = "TaskDeletedEvent"
                        /\ view[u] # Null =>
                              /\ log'[u] # <<>>
                              /\ ~view[u].deleted
                              /\ \A k \in 1..delivered[u] : log'[u][k].type # "TaskDeletedEvent"
        BY <1>2 DEF DocumentsExist, DeletedBy
    <2>1. log[u] # <<>> => log'[u] # <<>>
        BY <1>4
    <2>2. /\ \A k \in 1..Len(log[u]) : k \in 1..Len(log'[u]) /\ log'[u][k] = log[u][k]
          /\ \A k \in 1..delivered[u] : k \in 1..Len(log[u])
        BY <1>10, <1>15
    <2>3. /\ view[u] = Null =>
                delivered[u] = 0 \/ \E k \in 1..Len(log[u]) : log[u][k].type = "TaskDeletedEvent"
          /\ view[u] # Null =>
                /\ log[u] # <<>>
                /\ ~view[u].deleted
                /\ \A k \in 1..delivered[u] : log[u][k].type # "TaskDeletedEvent"
        BY DEF QueryIInv, DocumentsExist, DeletedBy
    <2>4. QED
        BY <2>1, <2>2, <2>3
<1>17. FieldsFollow'
    <2> SUFFICES ASSUME Null \notin MoveBoards, NEW u \in Tasks, view[u] # Null,
                        NEW field \in Fields,
                        \A k \in (delivered[u] + 1)..Len(log'[u]) :
                            log'[u][k].type \notin Setters[field]
                 PROVE  view[u][field] = transform(States(log'[u])[delivered[u]])[field]
        BY <1>2 DEF FieldsFollow, SetAfter
    <2>1. ~SetAfter(u, delivered[u], Len(log[u]), field)
        BY <1>10, <1>15 DEF SetAfter
    <2>2. view[u][field] = transform(States(log[u])[delivered[u]])[field]
        BY <2>1 DEF QueryIInv, FieldsFollow
    <2>3. States(log'[u])[delivered[u]] = States(log[u])[delivered[u]]
        BY <1>4, <1>5, <1>15
    <2>4. QED
        BY <2>2, <2>3
<1>18. FailedAreDeleted'
    BY <1>2, <1>10, <1>15 DEF QueryIInv, FailedAreDeleted, DeletedBy
<1>19. QED
    BY <1>8, <1>11, <1>12, <1>13, <1>14, <1>16, <1>17, <1>18 DEF QueryIInv

-----------------------------------------------------------------------------
(* The workflow handles an event, throws, acknowledges one or starts again. *)
LEMMA HandleIInv ==
    ASSUME QueryIInv, NEW t \in Tasks, Handle(t)
    PROVE  QueryIInv'
<1> DEFINE n == delivered[t] + 1
           event == log[t][n]
           version == States(log[t])[n]
<1>1. /\ log[t] \in Seq(TaskEvent) /\ Len(log[t]) \in Nat
      /\ delivered[t] \in Nat /\ n \in 1..Len(log[t])
      /\ event \in TaskEvent
      /\ event.type = "TaskCreatedEvent" <=> n = 1
    BY DEF Handle, QueryIInv, TypeOK, HistoriesAreWritten
<1>2. /\ view' = [view EXCEPT ![t] = handle(view[t], event)]
      /\ delivered' = [delivered EXCEPT ![t] = n]
      /\ UNCHANGED <<log, acked, failed, restarts>>
      /\ event.type = "TaskCreatedEvent" \/ view[t] # Null
    BY DEF Handle, Upcoming, CanHandle
<1>3. /\ view'[t] = handle(view[t], event) /\ delivered'[t] = n
      /\ \A u \in Tasks \ {t} : view'[u] = view[u] /\ delivered'[u] = delivered[u]
    BY <1>2 DEF QueryIInv, TypeOK
<1>4. version = apply(States(log[t])[n - 1], event)
    BY <1>1, StatesStep
<1>5. n # 1 => n - 1 \in 1..Len(log[t]) /\ States(log[t])[n - 1] \in TaskInfo
    BY <1>1 DEF QueryIInv, VersionsAreTasks
<1>6. /\ event.type # "TaskCreatedEvent" => view[t] \in Task
      /\ event.type = "TaskCreatedEvent" =>
            event.taskInfo.status = "backlog" /\ ~event.taskInfo.deleted
      /\ Null \notin MoveBoards /\ event.type \in MoveEvents => event.boardId # Null
    BY <1>1, <1>2 DEF QueryIInv, TypeOK, HistoriesAreWritten
<1> HIDE DEF n, event, version
<1>7. /\ event.type = "TaskDeletedEvent" => view'[t] = Null
      /\ event.type # "TaskDeletedEvent" =>
            /\ view'[t] \in Task
            /\ event.type = "TaskCreatedEvent" \/ view'[t].deleted = view[t].deleted
            /\ event.type = "TaskCreatedEvent" => ~view'[t].deleted
    <2>1. CASE event.type = "TaskCreatedEvent"
        BY <1>1, <1>3, <1>6, <2>1, CreateDocument
    <2>2. CASE event.type = "TaskDeletedEvent"
        BY <1>3, <2>2 DEF handle
    <2>3. CASE event.type \notin {"TaskCreatedEvent", "TaskDeletedEvent"}
        BY <1>1, <1>3, <1>5, <1>6, <2>3, UpdateDocument
    <2>4. QED
        BY <2>1, <2>2, <2>3
<1>8. TypeOK'
    <2>1. view' \in [Tasks -> Task \cup {Null}]
        BY <1>2, <1>3, <1>7 DEF QueryIInv, TypeOK
    <2>2. delivered' \in [Tasks -> Nat]
        BY <1>1, <1>2 DEF QueryIInv, TypeOK
    <2>3. QED
        BY <1>2, <2>1, <2>2 DEF QueryIInv, TypeOK
<1>9. HistoriesAreWritten' /\ VersionsAreTasks' /\ FieldsAreSet'
    <2>1. log' = log
        BY <1>2
    <2>2. QED
        BY <2>1
        DEF QueryIInv, HistoriesAreWritten, VersionsAreTasks, FieldsAreSet, DeletedBy, SetAfter
<1>10. DeliveryInOrder' /\ FailedAreDeleted'
    <2>1. log' = log /\ failed' = failed /\ acked' = acked
        BY <1>2
    <2>2. FailedAreDeleted'
        BY <2>1 DEF QueryIInv, FailedAreDeleted, DeletedBy
    <2>3. acked[t] <= n /\ n <= Len(log[t])
        BY <1>1 DEF n, QueryIInv, TypeOK, DeliveryInOrder
    <2>4. DeliveryInOrder'
        BY <1>3, <2>1, <2>3 DEF QueryIInv, DeliveryInOrder
    <2>5. QED
        BY <2>2, <2>4
<1>11. \A k \in 1..n : k \in 1..delivered[t] \/ k = n
    BY <1>1 DEF n
<1>12. DocumentsExist'
    <2> SUFFICES ASSUME NEW u \in Tasks
                 PROVE  /\ view'[u] = Null => delivered'[u] = 0 \/ DeletedBy(u, Len(log[u]))
                        /\ view'[u] # Null => /\ log[u] # <<>>
                                              /\ ~view'[u].deleted
                                              /\ ~DeletedBy(u, delivered'[u])
        BY <1>2 DEF DocumentsExist, DeletedBy
    <2>1. CASE u = t /\ event.type = "TaskDeletedEvent"
        <3>1. DeletedBy(t, Len(log[t]))
            BY <1>1, <2>1 DEF DeletedBy, event
        <3>2. QED
            BY <1>7, <2>1, <3>1
    <2>2. CASE u = t /\ event.type # "TaskDeletedEvent"
        <3>1. view'[t] # Null /\ log[t] # <<>>
            BY <1>1, <1>7, <2>2, DocumentAssumption
        <3>2. event.type = "TaskCreatedEvent" => ~DeletedBy(t, n)
            BY <1>1, <2>2 DEF DeletedBy, event
        <3>3. event.type # "TaskCreatedEvent" => ~view[t].deleted /\ ~DeletedBy(t, n)
            <4>1. ASSUME event.type # "TaskCreatedEvent"
                  PROVE  ~view[t].deleted /\ ~DeletedBy(t, delivered[t])
                BY <1>2, <4>1 DEF QueryIInv, DocumentsExist
            <4>2. QED
                BY <1>11, <2>2, <4>1 DEF DeletedBy, event
        <3>4. QED
            BY <1>3, <1>7, <2>2, <3>1, <3>2, <3>3
    <2>3. CASE u # t
        BY <1>3, <2>3 DEF QueryIInv, DocumentsExist
    <2>4. QED
        BY <2>1, <2>2, <2>3
<1>13. FieldsFollow'
    <2> SUFFICES ASSUME Null \notin MoveBoards, NEW u \in Tasks, view'[u] # Null,
                        NEW field \in Fields,
                        ~SetAfter(u, delivered'[u], Len(log[u]), field)
                 PROVE  view'[u][field] = transform(States(log[u])[delivered'[u]])[field]
        BY <1>2 DEF FieldsFollow, SetAfter
    <2>1. CASE u # t
        BY <1>3, <2>1 DEF QueryIInv, FieldsFollow
    <2>2. CASE u = t /\ event.type = "TaskCreatedEvent"
        BY <1>1, <1>3, <1>4, <1>6, <2>2, CreateDocument DEF version
    <2>3. CASE u = t /\ event.type \in Setters[field] /\ event.type # "TaskCreatedEvent"
        <3>1. event.type # "TaskDeletedEvent"
            BY <1>7, <2>3
        <3>2. QED
            BY <1>1, <1>3, <1>4, <1>5, <1>6, <2>3, <3>1, UpdateDocument DEF version
    <2>4. CASE u = t /\ event.type \notin Setters[field] /\ event.type # "TaskCreatedEvent"
        <3>1. event.type # "TaskDeletedEvent"
            BY <1>7, <2>4
        <3>2. view'[t][field] = view[t][field]
            BY <1>1, <1>3, <1>5, <1>6, <2>4, <3>1, UpdateDocument
        <3>3. ~SetAfter(t, delivered[t], Len(log[t]), field)
            <4>1. \A k \in (delivered[t] + 1)..Len(log[t]) : k = n \/ k \in (n + 1)..Len(log[t])
                BY <1>1 DEF n
            <4>2. QED
                BY <1>3, <2>4, <4>1 DEF SetAfter, event
        <3>4. view[t][field] = transform(States(log[t])[delivered[t]])[field]
            BY <1>2, <2>4, <3>3 DEF QueryIInv, FieldsFollow
        <3>5. transform(version)[field] = transform(States(log[t])[n - 1])[field]
            BY <1>1, <1>4, <1>5, <2>4, UnsetFieldStays
        <3>6. n - 1 = delivered[t]
            BY <1>1 DEF n
        <3>7. QED
            BY <1>3, <2>4, <3>2, <3>4, <3>5, <3>6 DEF version
    <2>5. QED
        BY <2>1, <2>2, <2>3, <2>4
<1>14. QED
    BY <1>8, <1>9, <1>10, <1>12, <1>13 DEF QueryIInv

\* A handler that throws does so after a deletion.
LEMMA HandleFailsIInv ==
    ASSUME QueryIInv, NEW t \in Tasks, HandleFails(t)
    PROVE  QueryIInv'
<1> DEFINE n == delivered[t] + 1
<1>1. /\ delivered[t] \in Nat /\ Len(log[t]) \in Nat /\ n \in 1..Len(log[t])
      /\ log[t][n].type # "TaskCreatedEvent" /\ view[t] = Null
      /\ log[t][n].type = "TaskCreatedEvent" <=> n = 1
    BY DEF HandleFails, Upcoming, CanHandle, QueryIInv, TypeOK, HistoriesAreWritten
<1>2. /\ delivered' = [delivered EXCEPT ![t] = n]
      /\ failed' = [failed EXCEPT ![t] = TRUE]
      /\ UNCHANGED <<log, acked, view, restarts>>
    BY DEF HandleFails
<1>3. delivered'[t] = n /\ \A u \in Tasks \ {t} : delivered'[u] = delivered[u] /\ failed'[u] = failed[u]
    BY <1>2 DEF QueryIInv, TypeOK
<1>4. DeletedBy(t, Len(log[t]))
    BY <1>1 DEF QueryIInv, DocumentsExist
<1>5. TypeOK' /\ DeliveryInOrder'
    BY <1>1, <1>2, <1>3 DEF QueryIInv, TypeOK, DeliveryInOrder
<1>6. HistoriesAreWritten' /\ VersionsAreTasks' /\ FieldsAreSet'
    BY <1>2
    DEF QueryIInv, HistoriesAreWritten, VersionsAreTasks, FieldsAreSet, DeletedBy, SetAfter
<1>7. DocumentsExist'
    BY <1>1, <1>2, <1>3, <1>4 DEF QueryIInv, DocumentsExist, DeletedBy
<1>8. FieldsFollow'
    BY <1>1, <1>2, <1>3 DEF QueryIInv, FieldsFollow, SetAfter
<1>9. FailedAreDeleted'
    BY <1>2, <1>3, <1>4 DEF QueryIInv, FailedAreDeleted, DeletedBy
<1>10. QED
    BY <1>5, <1>6, <1>7, <1>8, <1>9 DEF QueryIInv

\* An acknowledgement changes nothing else.
LEMMA AcknowledgeIInv ==
    ASSUME QueryIInv, NEW t \in Tasks, Acknowledge(t)
    PROVE  QueryIInv'
<1>1. /\ acked' = [acked EXCEPT ![t] = @ + 1]
      /\ acked[t] < delivered[t]
      /\ UNCHANGED <<log, delivered, failed, view, restarts>>
    BY DEF Acknowledge
<1>2. TypeOK' /\ DeliveryInOrder'
    BY <1>1 DEF QueryIInv, TypeOK, DeliveryInOrder
<1>3. /\ HistoriesAreWritten' /\ VersionsAreTasks' /\ FieldsAreSet'
      /\ DocumentsExist' /\ FieldsFollow' /\ FailedAreDeleted'
    <2>1. log' = log /\ delivered' = delivered /\ failed' = failed /\ view' = view
        BY <1>1
    <2>2. HistoriesAreWritten' /\ VersionsAreTasks'
        BY <2>1 DEF QueryIInv, HistoriesAreWritten, VersionsAreTasks, DeletedBy
    <2>3. FieldsAreSet'
        <3>1. FieldsAreSet
            BY DEF QueryIInv
        <3>2. QED
            BY <2>1, <3>1 DEF FieldsAreSet, SetAfter
    <2>4. DocumentsExist'
        BY <2>1 DEF QueryIInv, DocumentsExist, DeletedBy
    <2>5. FieldsFollow'
        BY <2>1 DEF QueryIInv, FieldsFollow, SetAfter
    <2>6. FailedAreDeleted'
        BY <2>1 DEF QueryIInv, FailedAreDeleted, DeletedBy
    <2>7. QED
        BY <2>2, <2>3, <2>4, <2>5, <2>6
<1>4. QED
    BY <1>2, <1>3 DEF QueryIInv

(* Delivery goes back, and fewer fields are settled: one that is not set   *)
(* by what comes again is as it was then.                                  *)
LEMMA RestartIInv ==
    ASSUME QueryIInv, Restart
    PROVE  QueryIInv'
<1>1. /\ delivered' = acked /\ failed' = [u \in Tasks |-> FALSE]
      /\ restarts' = restarts + 1 /\ restarts < MaxRestarts
      /\ UNCHANGED <<log, acked, view>>
    BY DEF Restart
<1>2. \A u \in Tasks : /\ acked[u] \in Nat /\ delivered[u] \in Nat /\ Len(log[u]) \in Nat
                      /\ acked[u] <= delivered[u] /\ delivered[u] <= Len(log[u])
    BY DEF QueryIInv, TypeOK, DeliveryInOrder
<1>3. TypeOK' /\ DeliveryInOrder' /\ FailedAreDeleted'
    BY <1>1, <1>2, QueryAssumption
    DEF QueryIInv, TypeOK, DeliveryInOrder, FailedAreDeleted
<1>4. HistoriesAreWritten' /\ VersionsAreTasks' /\ FieldsAreSet'
    BY <1>1
    DEF QueryIInv, HistoriesAreWritten, VersionsAreTasks, FieldsAreSet, DeletedBy, SetAfter
<1>5. DocumentsExist'
    BY <1>1, <1>2 DEF QueryIInv, DocumentsExist, DeletedBy
<1>6. FieldsFollow'
    <2> SUFFICES ASSUME Null \notin MoveBoards, NEW u \in Tasks, view[u] # Null,
                        NEW field \in Fields, ~SetAfter(u, acked[u], Len(log[u]), field)
                 PROVE  view[u][field] = transform(States(log[u])[acked[u]])[field]
        BY <1>1 DEF FieldsFollow, SetAfter
    <2>1. acked[u] # 0
        <3>1. CASE log[u] = <<>>
            BY <3>1 DEF QueryIInv, DocumentsExist
        <3>2. CASE Len(log[u]) # 0
            <4>1. log[u][1].type = "TaskCreatedEvent"
                BY <1>2, <3>2 DEF QueryIInv, HistoriesAreWritten
            <4>2. "TaskCreatedEvent" \in Setters[field]
                BY DEF Setters, Fields
            <4>3. QED
                BY <1>2, <3>2, <4>1, <4>2 DEF SetAfter
        <3>3. QED
            BY <3>1, <3>2 DEF QueryIInv, TypeOK
    <2>2. ~SetAfter(u, delivered[u], Len(log[u]), field)
        BY <1>2 DEF SetAfter
    <2>3. view[u][field] = transform(States(log[u])[delivered[u]])[field]
        BY <2>2 DEF QueryIInv, FieldsFollow
    <2>4. ~SetAfter(u, acked[u], delivered[u], field)
        BY <1>2 DEF SetAfter
    <2>5. acked[u] \in 1..delivered[u] /\ delivered[u] \in 1..Len(log[u])
        BY <1>2, <2>1
    <2>6. transform(States(log[u])[acked[u]])[field]
             = transform(States(log[u])[delivered[u]])[field]
        BY <2>4, <2>5 DEF QueryIInv, FieldsAreSet
    <2>7. QED
        BY <2>3, <2>6
<1>7. QED
    BY <1>3, <1>4, <1>5, <1>6 DEF QueryIInv

-----------------------------------------------------------------------------
\* Without events and documents it holds.
LEMMA InitQueryIInv == Init => QueryIInv
<1> SUFFICES ASSUME Init PROVE QueryIInv
    OBVIOUS
<1>1. \A t \in Tasks : log[t] = <<>> /\ Len(log[t]) = 0
    BY DEF Init
<1>2. TypeOK
    BY QueryAssumption DEF Init, TypeOK
<1>3. HistoriesAreWritten /\ VersionsAreTasks /\ FieldsAreSet
    BY <1>1 DEF HistoriesAreWritten, VersionsAreTasks, FieldsAreSet
<1>4. DeliveryInOrder /\ DocumentsExist /\ FieldsFollow /\ FailedAreDeleted
    BY <1>1 DEF Init, DeliveryInOrder, DocumentsExist, FieldsFollow, FailedAreDeleted
<1>5. QED
    BY <1>2, <1>3, <1>4 DEF QueryIInv

\* Every step keeps it.
LEMMA NextQueryIInv == QueryIInv /\ [Next]_vars => QueryIInv'
<1> SUFFICES ASSUME QueryIInv, [Next]_vars PROVE QueryIInv'
    OBVIOUS
<1>1. ASSUME NEW t \in Tasks, Publish(t) PROVE QueryIInv'
    BY <1>1, PublishWrites, WriteIInv DEF Publish
<1>2. ASSUME NEW t \in Tasks, Handle(t) PROVE QueryIInv'
    BY <1>2, HandleIInv
<1>3. ASSUME NEW t \in Tasks, HandleFails(t) PROVE QueryIInv'
    BY <1>3, HandleFailsIInv
<1>4. ASSUME NEW t \in Tasks, Acknowledge(t) PROVE QueryIInv'
    BY <1>4, AcknowledgeIInv
<1>5. CASE Restart
    BY <1>5, RestartIInv
<1>6. CASE UNCHANGED vars
    BY <1>6
    DEF vars, QueryIInv, TypeOK, HistoriesAreWritten, VersionsAreTasks, FieldsAreSet,
        DeliveryInOrder, DocumentsExist, FieldsFollow, FailedAreDeleted, DeletedBy, SetAfter
<1>7. QED
    BY <1>1, <1>2, <1>3, <1>4, <1>5, <1>6 DEF Next

(* The inductive invariant, and the safety properties it implies.          *)
THEOREM QueryInvariance == Spec => []QueryIInv
<1>1. Init => QueryIInv
    BY InitQueryIInv
<1>2. QueryIInv /\ [Next]_vars => QueryIInv'
    BY NextQueryIInv
<1>3. QED
    BY <1>1, <1>2, PTL DEF Spec

(* Type correctness of the query side's state: in particular no document   *)
(* has a null where a handler found nothing to say of a field.             *)
THEOREM QueryTypeCorrectness == Spec => []TypeOK
<1>1. QueryIInv => TypeOK
    BY DEF QueryIInv
<1>2. QED
    BY <1>1, QueryInvariance, PTL

(* For any number of events, restarts and redeliveries, a handler of the   *)
(* workflow throws only for deleted tasks, also if moves name no board.    *)
THEOREM FailuresFollowDeletions == Spec => []OnlyDeletedTasksFail
<1>1. QueryIInv => OnlyDeletedTasksFail
    <2> SUFFICES ASSUME QueryIInv, NEW t \in Tasks, failed[t] PROVE ~Exists(t)
        BY DEF OnlyDeletedTasksFail
    <2>1. DeletedBy(t, Len(log[t]))
        BY DEF QueryIInv, FailedAreDeleted
    <2>2. Len(log[t]) \in 1..Len(log[t])
        BY <2>1 DEF QueryIInv, TypeOK, DeletedBy
    <2>3. Replay(log[t]).deleted
        BY <2>1, <2>2 DEF QueryIInv, VersionsAreTasks, Replay
    <2>4. QED
        BY <2>3 DEF Exists
<1>2. QED
    BY <1>1, QueryInvariance, PTL

(* A document that has caught up is the aggregate's state, for any number  *)
(* of events, restarts and redeliveries, provided that moves name a board: *)
(* one that does not leaves the document on the board it was on.           *)
THEOREM CaughtUpDocuments ==
    ASSUME Null \notin MoveBoards
    PROVE  Spec => []CaughtUpViewIsProjection
<1>1. QueryIInv => CaughtUpViewIsProjection
    <2> SUFFICES ASSUME QueryIInv, NEW t \in Tasks, delivered[t] = Len(log[t])
                 PROVE  view[t] = Projection(t)
        BY DEF CaughtUpViewIsProjection
    <2> DEFINE n == Len(log[t])
    <2>1. n \in Nat /\ (log[t] = <<>> <=> n = 0) /\ view[t] \in Task \cup {Null}
        BY DEF QueryIInv, TypeOK
    <2>2. n # 0 => Replay(log[t]) \in TaskInfo
        BY <2>1 DEF QueryIInv, VersionsAreTasks, Replay
    <2>3. n # 0 => (Replay(log[t]).deleted <=> DeletedBy(t, n))
        BY <2>1 DEF QueryIInv, VersionsAreTasks, Replay
    <2>4. CASE view[t] = Null
        <3>1. n = 0 \/ DeletedBy(t, n)
            BY <2>4 DEF QueryIInv, DocumentsExist
        <3>2. ~Exists(t)
            BY <2>1, <2>3, <3>1 DEF Exists
        <3>3. QED
            BY <2>4, <3>2 DEF Projection
    <2>5. CASE view[t] # Null
        <3>1. n # 0 /\ ~view[t].deleted /\ ~DeletedBy(t, n)
            BY <2>1, <2>5 DEF QueryIInv, DocumentsExist
        <3>2. Exists(t)
            BY <2>1, <2>3, <3>1 DEF Exists
        <3>3. ASSUME NEW field \in Fields
              PROVE  view[t][field] = transform(Replay(log[t]))[field]
            <4>1. ~SetAfter(t, n, n, field)
                BY <2>1 DEF SetAfter
            <4>2. QED
                BY <2>5, <4>1 DEF QueryIInv, FieldsFollow, Replay
        <3>4. view[t].deleted = transform(Replay(log[t])).deleted
            <4>1. view[t].deleted = FALSE
                BY <2>1, <2>5, <3>1 DEF Task
            <4>2. Replay(log[t]).deleted = FALSE
                BY <2>2, <2>3, <3>1 DEF TaskInfo
            <4>3. QED
                BY <4>1, <4>2 DEF transform
        <3>5. transform(Replay(log[t])) \in [boardId: BoardRefs, details: Details,
                 created: Requests, updated: Requests, status: TaskStatus \cup {Null},
                 deleted: BOOLEAN]
            BY <2>2, <3>1 DEF transform, TaskInfo
        <3>6. view[t] = transform(Replay(log[t]))
            BY <2>1, <2>5, <3>3, <3>4, <3>5 DEF Task, Fields
        <3>7. QED
            BY <3>2, <3>6 DEF Projection
    <2>6. QED
        BY <2>4, <2>5
<1>2. QED
    BY <1>1, QueryInvariance, PTL

-----------------------------------------------------------------------------
(* GET /tasks.                                                             *)

\* A query finds the documents as they are, finitely many.
LEMMA FoundEntries ==
    ASSUME QueryIInv, IsFiniteSet({t \in Tasks : log[t] # <<>>}),
           NEW ids, ids \subseteq Stored
    PROVE  /\ Found(ids) \in SUBSET Entry
           /\ IsFiniteSet(Found(ids))
           /\ \A e \in Found(ids) : e.id \in ids /\ e.task = view[e.id] /\ log[e.id] # <<>>
<1>1. \A t \in ids : t \in Tasks /\ view[t] \in Task /\ log[t] # <<>>
    BY DEF Stored, QueryIInv, TypeOK, DocumentsExist
<1>2. IsFiniteSet(ids)
    <2>1. ids \subseteq {t \in Tasks : log[t] # <<>>}
        BY <1>1
    <2>2. QED
        BY <2>1, FS_Subset
<1> DEFINE entry == [t \in ids |-> [id |-> t, task |-> view[t]]]
<1>3. entry \in Surjection(ids, Found(ids))
    BY DEF Found, Surjection
<1> HIDE DEF entry
<1>4. IsFiniteSet(Found(ids))
    BY <1>2, <1>3, FS_Surjection
<1>5. \A e \in Found(ids) : \E t \in ids : e = [id |-> t, task |-> view[t]]
    BY DEF Found
<1>6. QED
    BY <1>1, <1>4, <1>5 DEF Entry

\* Histories only grow, and only that of u.
OnlyGrows(u) ==
    /\ \A t \in Tasks : log[t] # <<>> => log'[t] # <<>>
    /\ \A t \in Tasks \ {u} : log'[t] = log[t]

\* An event is of one task, so finitely many tasks exist at any time.
LEMMA TasksStayFinite ==
    ASSUME IsFiniteSet({t \in Tasks : log[t] # <<>>}), NEW u, OnlyGrows(u)
    PROVE  IsFiniteSet({t \in Tasks : log[t] # <<>>})'
<1>1. IsFiniteSet({t \in Tasks : log[t] # <<>>} \cup {u})
    BY FS_AddElement
<1>2. {t \in Tasks : log'[t] # <<>>} \subseteq {t \in Tasks : log[t] # <<>>} \cup {u}
    BY DEF OnlyGrows
<1>3. QED
    BY <1>1, <1>2, FS_Subset

(* A listing goes on while documents it knows to have changed change.      *)
LEMMA ListingGoesOn ==
    ASSUME ListingIInv, QueryIInv', NEW u, OnlyGrows(u), listing' = listing,
           touched \subseteq touched', touched' \subseteq Tasks,
           listing.step = "half" => \A t \in Tasks \ touched' : view'[t] = view[t]
    PROVE  ListingIInv'
<1>1. ListingTypeOK'
    BY DEF ListingIInv, ListingTypeOK, QueryIInv
<1>2. BacklogFollows'
    <2>1. \A e \in listing.backlog : e.id \in Tasks
        BY DEF ListingIInv, ListingTypeOK, Listing, Entry
    <2>2. QED
        BY <2>1 DEF ListingIInv, BacklogFollows, Stored
<1>3. ListedAsAsked'
    BY DEF ListingIInv, ListedAsAsked
<1>4. ListedTasksExist'
    <2>1. \A e \in listing.backlog \cup listing.tasks : e.id \in Tasks
        BY DEF ListingIInv, ListingTypeOK, Listing, Entry
    <2>2. QED
        BY <2>1 DEF ListingIInv, ListedTasksExist, OnlyGrows
<1>5. AnswersAreFinite'
    BY TasksStayFinite DEF ListingIInv, AnswersAreFinite
<1>6. QED
    BY <1>1, <1>2, <1>3, <1>4, <1>5 DEF ListingIInv

\* An answer that is given up leaves nothing behind.
LEMMA ListingEnds ==
    ASSUME ListingIInv, QueryIInv', NEW u, OnlyGrows(u),
           listing' = NoListing, touched' = {}
    PROVE  ListingIInv'
<1>1. ListingTypeOK'
    BY DEF QueryIInv, ListingTypeOK, Listing, NoListing, BoardRefs
<1>2. BacklogFollows' /\ ListedAsAsked' /\ ListedTasksExist'
    BY DEF BacklogFollows, ListedAsAsked, ListedTasksExist, NoListing
<1>3. AnswersAreFinite'
    BY TasksStayFinite, FS_EmptySet DEF ListingIInv, AnswersAreFinite, NoListing
<1>4. QED
    BY <1>1, <1>2, <1>3 DEF ListingIInv

\* A step of the workflow or an event concerns one task.
LEMMA QueryStepGrows ==
    ASSUME QueryIInv, NEW t \in Tasks,
           Publish(t) \/ Handle(t) \/ HandleFails(t) \/ Acknowledge(t)
    PROVE  OnlyGrows(t) /\ QueryIInv'
<1>1. CASE Publish(t)
    <2>1. PICK event \in TaskEvent : Writes(t, event)
        BY <1>1, PublishWrites
    <2>2. OnlyGrows(t)
        BY <2>1, WriteKeepsVersions DEF OnlyGrows
    <2>3. QED
        BY <1>1, <2>1, <2>2, WriteIInv DEF Publish
<1>2. CASE Handle(t) \/ HandleFails(t) \/ Acknowledge(t)
    <2>1. OnlyGrows(t)
        BY <1>2 DEF Handle, HandleFails, Acknowledge, OnlyGrows
    <2>2. QED
        BY <1>2, <2>1, HandleIInv, HandleFailsIInv, AcknowledgeIInv
<1>3. QED
    BY <1>1, <1>2

\* A document that changes between the queries is touched.
LEMMA ViewChangesListing ==
    ASSUME ListingIInv, NEW t \in Tasks,
           Publish(t) \/ Handle(t) \/ HandleFails(t) \/ Acknowledge(t), Touch
    PROVE  ListingIInv'
<1>1. OnlyGrows(t) /\ QueryIInv'
    BY QueryStepGrows DEF ListingIInv
<1>2. /\ listing' = listing
      /\ touched \subseteq touched' /\ touched' \subseteq Tasks
      /\ listing.step = "half" => \A u \in Tasks \ touched' : view'[u] = view[u]
    BY DEF Touch, ListingIInv, ListingTypeOK
<1>3. QED
    BY <1>1, <1>2, ListingGoesOn

\* The queries change no document.
LEMMA SameVars ==
    ASSUME QueryIInv, UNCHANGED vars
    PROVE  QueryIInv' /\ \A u : OnlyGrows(u)
<1>1. QueryIInv'
    BY NextQueryIInv
<1>2. QED
    BY <1>1 DEF vars, OnlyGrows

\* The first query finds the backlog as it is.
LEMMA FirstQuery ==
    ASSUME ListingIInv, NEW b \in BoardRefs, FindByStatusBacklog(b)
    PROVE  ListingIInv'
<1> DEFINE ids == {t \in Stored : view[t].status = "backlog"}
<1>1. QueryIInv /\ IsFiniteSet({t \in Tasks : log[t] # <<>>})
    BY DEF ListingIInv, AnswersAreFinite
<1>2. /\ QueryIInv'
      /\ log' = log /\ view' = view /\ touched' = {}
      /\ listing' = [step |-> "half", boardId |-> b, tasks |-> {}, backlog |-> Found(ids)]
    BY <1>1, SameVars DEF FindByStatusBacklog, vars
<1>3. /\ Found(ids) \in SUBSET Entry /\ IsFiniteSet(Found(ids))
      /\ \A e \in Found(ids) : e.id \in ids /\ e.task = view[e.id] /\ log[e.id] # <<>>
    BY <1>1, FoundEntries
<1>4. ListingTypeOK'
    BY <1>2, <1>3 DEF QueryIInv, ListingTypeOK, Listing
<1>5. BacklogFollows'
    <2>1. \A t \in ids : [id |-> t, task |-> view[t]] \in Found(ids)
        BY DEF Found
    <2>2. Stored' = Stored
        BY <1>2 DEF Stored
    <2>3. QED
        BY <1>2, <1>3, <2>1, <2>2 DEF BacklogFollows
<1>6. ListedAsAsked'
    <2>1. \A e \in Found(ids) : e.task.status = "backlog"
        BY <1>3
    <2>2. QED
        BY <1>2, <2>1 DEF ListedAsAsked
<1>7. ListedTasksExist' /\ AnswersAreFinite'
    BY <1>1, <1>2, <1>3, FS_EmptySet DEF ListedTasksExist, AnswersAreFinite
<1>8. QED
    BY <1>2, <1>4, <1>5, <1>6, <1>7 DEF ListingIInv

\* The tasks the second query finds.
OnBoard ==
    IF listing.boardId = Null THEN {}
    ELSE {t \in Stored : view[t].boardId = listing.boardId /\ view[t].status # "backlog"}

\* The second query finds the board's other tasks,
LEMMA SecondQueryFinds ==
    ASSUME FindByBoardIdAndStatusNot
    PROVE  /\ listing.step = "half" /\ UNCHANGED <<vars, touched>>
           /\ listing' = [listing EXCEPT !.step = "done", !.tasks = Found(OnBoard)]
<1>1. Found({}) = {}
    BY DEF Found
<1>2. CASE listing.boardId = Null
    BY <1>1, <1>2 DEF FindByBoardIdAndStatusNot, OnBoard
<1>3. CASE listing.boardId # Null
    BY <1>3 DEF FindByBoardIdAndStatusNot, OnBoard
<1>4. QED
    BY <1>2, <1>3

\* as they are, on top of what the first one found.
LEMMA SecondQuery ==
    ASSUME ListingIInv, FindByBoardIdAndStatusNot
    PROVE  ListingIInv'
<1>1. /\ QueryIInv /\ IsFiniteSet({t \in Tasks : log[t] # <<>>})
      /\ listing \in Listing /\ touched \subseteq Tasks
    BY DEF ListingIInv, AnswersAreFinite, ListingTypeOK
<1>2. /\ QueryIInv'
      /\ log' = log /\ view' = view /\ touched' = touched
      /\ listing' = [listing EXCEPT !.step = "done", !.tasks = Found(OnBoard)]
    BY <1>1, SameVars, SecondQueryFinds DEF vars
<1>3. /\ Found(OnBoard) \in SUBSET Entry /\ IsFiniteSet(Found(OnBoard))
      /\ \A e \in Found(OnBoard) : e.id \in OnBoard /\ e.task = view[e.id] /\ log[e.id] # <<>>
    <2>1. OnBoard \subseteq Stored
        BY DEF OnBoard
    <2>2. QED
        BY <1>1, <2>1, FoundEntries
<1>4. /\ listing'.step = "done" /\ listing'.boardId = listing.boardId
      /\ listing'.backlog = listing.backlog /\ listing'.tasks = Found(OnBoard)
      /\ listing' \in Listing
    BY <1>1, <1>2, <1>3 DEF Listing
<1>5. ListingTypeOK'
    BY <1>1, <1>2, <1>4 DEF QueryIInv, ListingTypeOK
<1>6. BacklogFollows'
    BY <1>4 DEF BacklogFollows
<1>7. ListedAsAsked'
    <2>1. \A e \in Found(OnBoard) : /\ e.task.status # "backlog" /\ listing.boardId # Null
                                    /\ e.task.boardId = listing.boardId
        BY <1>3 DEF OnBoard
    <2>2. QED
        BY <1>4, <2>1 DEF ListingIInv, ListedAsAsked
<1>8. ListedTasksExist' /\ AnswersAreFinite'
    BY <1>1, <1>2, <1>3, <1>4 DEF ListingIInv, ListedTasksExist, AnswersAreFinite
<1>9. QED
    BY <1>2, <1>5, <1>6, <1>7, <1>8 DEF ListingIInv

\* Nothing is listed at first.
LEMMA InitListing == ListingInit => ListingIInv
<1> SUFFICES ASSUME ListingInit PROVE ListingIInv
    OBVIOUS
<1>1. QueryIInv
    BY InitQueryIInv DEF ListingInit
<1>2. ListingTypeOK
    BY <1>1 DEF QueryIInv, ListingInit, ListingTypeOK, Listing, NoListing, BoardRefs
<1>3. BacklogFollows /\ ListedAsAsked /\ ListedTasksExist
    BY DEF ListingInit, NoListing, BacklogFollows, ListedAsAsked, ListedTasksExist
<1>4. AnswersAreFinite
    <2>1. {t \in Tasks : log[t] # <<>>} = {}
        BY DEF ListingInit, Init
    <2>2. QED
        BY <2>1, FS_EmptySet DEF ListingInit, NoListing, AnswersAreFinite
<1>5. QED
    BY <1>1, <1>2, <1>3, <1>4 DEF ListingIInv

(* ListingIInv holds throughout: of the tasks left alone since the first   *)
(* query, the listing has what the view has.                               *)
THEOREM ListingInvariance == ListingSpec => []ListingIInv
<1>1. ListingInit => ListingIInv
    BY InitListing
<1>2. ListingIInv /\ [ListingNext]_listingVars => ListingIInv'
    <2> SUFFICES ASSUME ListingIInv, [ListingNext]_listingVars PROVE ListingIInv'
        OBVIOUS
    <2>1. ASSUME NEW b \in BoardRefs, FindByStatusBacklog(b) PROVE ListingIInv'
        BY <2>1, FirstQuery
    <2>2. CASE FindByBoardIdAndStatusNot
        BY <2>2, SecondQuery
    <2>3. CASE ViewChanges
        BY <2>3, ViewChangesListing DEF ViewChanges
    <2>4. CASE RestartListing
        <3>1. QueryIInv'
            BY <2>4, RestartIInv DEF RestartListing, ListingIInv
        <3>2. \A u : OnlyGrows(u)
            BY <2>4 DEF RestartListing, Restart, OnlyGrows
        <3>3. QED
            BY <2>4, <3>1, <3>2, ListingEnds DEF RestartListing
    <2>5. CASE UNCHANGED listingVars
        <3>1. UNCHANGED vars /\ listing' = listing /\ touched' = touched /\ view' = view
            BY <2>5 DEF listingVars, vars
        <3>2. QueryIInv' /\ \A u : OnlyGrows(u)
            BY <3>1, SameVars DEF ListingIInv
        <3>3. QED
            BY <3>1, <3>2, ListingGoesOn DEF ListingIInv, ListingTypeOK
    <2>6. QED
        BY <2>1, <2>2, <2>3, <2>4, <2>5 DEF ListingNext
<1>3. QED
    BY <1>1, <1>2, PTL DEF ListingSpec

(* A listing has whole documents, whatever changes between its queries.    *)
THEOREM ListingTypeCorrectness == ListingSpec => []ListingTypeOK
<1>1. ListingIInv => ListingTypeOK
    BY DEF ListingIInv
<1>2. QED
    BY <1>1, ListingInvariance, PTL

(* A task that does not change between the two queries is listed once, as  *)
(* it is, or not at all if it is neither in the backlog nor on the board.  *)
THEOREM ListedOnce == ListingSpec => UnchangedTasksListedOnce
<1> DEFINE Step ==
        listing.step = "half" /\ listing'.step = "done" =>
            \A t \in Tasks \ touched :
                LET entry == [id |-> t, task |-> view[t]]
                    inBacklog == {e \in listing'.backlog : e.id = t}
                    inTasks == {e \in listing'.tasks : e.id = t}
                IN  /\ inBacklog \cup inTasks
                          = IF Visible(view[t], listing.boardId) THEN {entry} ELSE {}
                    /\ inBacklog \cap inTasks = {}
<1>1. ListingIInv /\ [ListingNext]_listingVars => [Step]_listingVars
    <2> SUFFICES ASSUME ListingIInv, ListingNext,
                        listing.step = "half", listing'.step = "done",
                        NEW t \in Tasks, t \notin touched
                 PROVE  LET entry == [id |-> t, task |-> view[t]]
                            inBacklog == {e \in listing'.backlog : e.id = t}
                            inTasks == {e \in listing'.tasks : e.id = t}
                        IN  /\ inBacklog \cup inTasks
                                  = IF Visible(view[t], listing.boardId) THEN {entry} ELSE {}
                            /\ inBacklog \cap inTasks = {}
        OBVIOUS
    <2> DEFINE entry == [id |-> t, task |-> view[t]]
    <2>1. FindByBoardIdAndStatusNot
        BY DEF ListingNext, FindByStatusBacklog, ViewChanges, Touch, RestartListing, NoListing
    <2>2. listing \in Listing
        BY DEF ListingIInv, ListingTypeOK
    <2>3. listing'.backlog = listing.backlog /\ listing'.tasks = Found(OnBoard)
        BY <2>1, <2>2, SecondQueryFinds DEF Listing
    <2>4. /\ \A e \in listing.backlog : e \in Entry /\ e.task.status = "backlog"
          /\ \A e \in listing.backlog : e.id = t => e = entry
        BY <2>2 DEF ListingIInv, BacklogFollows, ListedAsAsked, Listing, Entry
    <2>5. view[t] # Null /\ view[t].status = "backlog" <=> entry \in listing.backlog
        <3>1. view[t] # Null /\ view[t].status = "backlog" => entry \in listing.backlog
            BY DEF ListingIInv, BacklogFollows, Stored
        <3>2. entry \in listing.backlog => view[t] \in Task /\ view[t].status = "backlog"
            BY <2>4 DEF Entry
        <3>3. QED
            BY <3>1, <3>2, DocumentAssumption
    <2>6. \A e \in Found(OnBoard) : e.id = t => e = entry /\ t \in OnBoard
        BY DEF Found
    <2>7. t \in OnBoard => entry \in Found(OnBoard)
        BY DEF Found
    <2>8. t \in OnBoard <=> /\ view[t] # Null /\ view[t].status # "backlog"
                            /\ listing.boardId # Null /\ view[t].boardId = listing.boardId
        BY DEF OnBoard, Stored
    <2>9. entry.id = t
        OBVIOUS
    <2> HIDE DEF entry
    <2>10. \A e \in listing'.backlog : e.id = t <=> e = entry
        BY <2>3, <2>4, <2>9
    <2>11. \A e \in listing'.tasks : e.id = t <=> e = entry
        BY <2>3, <2>6, <2>9
    <2>12. entry \in listing'.backlog <=> view[t] # Null /\ view[t].status = "backlog"
        BY <2>3, <2>5
    <2>13. entry \in listing'.tasks <=> t \in OnBoard
        BY <2>3, <2>6, <2>7, <2>9
    <2>14. QED
        BY <2>8, <2>10, <2>11, <2>12, <2>13 DEF Visible, entry
<1>2. QED
    BY <1>1, ListingInvariance, PTL DEF ListingSpec, UnchangedTasksListedOnce
=============================================================================
