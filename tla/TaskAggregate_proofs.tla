------------------------ MODULE TaskAggregate_proofs ------------------------
(***************************************************************************)
(* Lemmas about the operators of TaskAggregate: what process and apply     *)
(* return, and how replaying a history unfolds.  They hold for histories   *)
(* of every length; the induction is over the least natural number at      *)
(* which a claim could fail.                                               *)
(***************************************************************************)
EXTENDS TaskAggregate, SequenceLemmas

-----------------------------------------------------------------------------
(* The defining equation of States, up to version k of a history.          *)
IsStates(f, history, k) ==
    f = [n \in 0..k |-> IF n = 0 THEN Null ELSE apply(f[n - 1], history[n])]

(* Every version of a history has its states: States is well defined.      *)
LEMMA StatesExist ==
    ASSUME NEW history, NEW k \in Nat
    PROVE  \E f : IsStates(f, history, k)
<1> DEFINE Bad == {n \in Nat : ~ \E f : IsStates(f, history, n)}
<1> SUFFICES ASSUME Bad # {} PROVE FALSE
    OBVIOUS
<1>1. PICK m \in Bad : \A n \in Bad : m <= n
    BY LeastNatural
<1>2. CASE m = 0
    <2>1. IsStates([n \in 0..0 |-> Null], history, 0)
        BY DEF IsStates
    <2>2. QED
        BY <1>2, <2>1
<1>3. CASE m # 0
    <2>1. m - 1 \in Nat /\ m - 1 \notin Bad
        BY <1>1, <1>3
    <2>2. PICK f : IsStates(f, history, m - 1)
        BY <2>1
    <2> DEFINE g == [n \in 0..m |-> IF n < m THEN f[n] ELSE apply(f[m - 1], history[m])]
    <2>3. \A n \in 0..m : g[n] = IF n = 0 THEN Null ELSE apply(g[n - 1], history[n])
        <3> SUFFICES ASSUME NEW n \in 0..m
                     PROVE  g[n] = IF n = 0 THEN Null ELSE apply(g[n - 1], history[n])
            OBVIOUS
        <3>1. CASE n = m
            BY <1>3, <3>1
        <3>2. CASE n < m
            BY <2>2, <3>2 DEF IsStates
        <3>3. QED
            BY <3>1, <3>2
    <2>4. IsStates(g, history, m)
        BY <2>3 DEF IsStates
    <2>5. QED
        BY <2>4
<1>4. QED
    BY <1>2, <1>3

(* Two histories with a common prefix have the same states along it.       *)
LEMMA StatesAgree ==
    ASSUME NEW f, NEW g, NEW h1, NEW h2, NEW k1 \in Nat, NEW k2 \in Nat,
           IsStates(f, h1, k1), IsStates(g, h2, k2), k1 <= k2,
           \A i \in 1..k1 : h1[i] = h2[i]
    PROVE  \A n \in 0..k1 : f[n] = g[n]
<1> DEFINE Bad == {n \in 0..k1 : f[n] # g[n]}
<1> SUFFICES ASSUME Bad # {} PROVE FALSE
    OBVIOUS
<1>1. PICK m \in Bad : \A n \in Bad : m <= n
    BY LeastNatural, Bad \in SUBSET Nat
<1>2. CASE m = 0
    BY <1>2 DEF IsStates
<1>3. CASE m # 0
    <2>1. m - 1 \in 0..k1 /\ m - 1 \notin Bad /\ m \in 1..k1 /\ m \in 0..k2
        BY <1>1, <1>3
    <2>2. f[m] = apply(f[m - 1], h1[m]) /\ g[m] = apply(g[m - 1], h2[m])
        BY <2>1 DEF IsStates
    <2>3. QED
        BY <1>1, <2>1, <2>2
<1>4. QED
    BY <1>2, <1>3

(* States satisfies its recursion equation.                                *)
LEMMA StatesEquation ==
    ASSUME NEW history \in Seq(TaskEvent)
    PROVE  IsStates(States(history), history, Len(history))
<1> Len(history) \in Nat
    OBVIOUS
<1>1. PICK f : IsStates(f, history, Len(history))
    BY StatesExist
<1>2. QED
    BY <1>1, Zenon DEF States, IsStates

(* Each event makes a version of the one before.                           *)
LEMMA StatesStep ==
    ASSUME NEW history \in Seq(TaskEvent), NEW n \in 1..Len(history)
    PROVE  States(history)[n] = apply(States(history)[n - 1], history[n])
<1>1. Len(history) \in Nat
    OBVIOUS
<1>2. n \in 0..Len(history) /\ n # 0
    BY <1>1
<1>3. IsStates(States(history), history, Len(history))
    BY StatesEquation
<1>4. QED
    BY <1>2, <1>3 DEF IsStates

(* Before its first event a task does not exist.                           *)
LEMMA StatesEmpty ==
    ASSUME NEW history \in Seq(TaskEvent)
    PROVE  /\ States(history)[0] = Null
           /\ history = <<>> => Replay(history) = Null
<1> Len(history) \in Nat /\ (history = <<>> => Len(history) = 0)
    OBVIOUS
<1>1. IsStates(States(history), history, Len(history))
    BY StatesEquation
<1>2. States(history)[0] = Null
    BY <1>1 DEF IsStates
<1>3. QED
    BY <1>2 DEF Replay

(* Storing an event keeps the states of the earlier versions and adds the  *)
(* result of applying the event to the latest (TaskAggregate.apply).       *)
THEOREM StatesAppend ==
    ASSUME NEW history \in Seq(TaskEvent), NEW event \in TaskEvent
    PROVE  /\ \A n \in 0..Len(history) :
                 States(Append(history, event))[n] = States(history)[n]
           /\ States(Append(history, event))[Len(history) + 1]
                 = apply(Replay(history), event)
           /\ Replay(Append(history, event)) = apply(Replay(history), event)
<1> DEFINE longer == Append(history, event)
<1>1. /\ longer \in Seq(TaskEvent)
      /\ Len(longer) = Len(history) + 1
      /\ Len(history) \in Nat
      /\ \A i \in 1..Len(history) : history[i] = longer[i]
      /\ longer[Len(history) + 1] = event
    OBVIOUS
<1>2. IsStates(States(history), history, Len(history))
    BY StatesEquation
<1>3. IsStates(States(longer), longer, Len(history) + 1)
    BY StatesEquation, <1>1
<1> HIDE DEF longer
<1>4. \A n \in 0..Len(history) : States(longer)[n] = States(history)[n]
    BY <1>1, <1>2, <1>3, StatesAgree
<1>5. States(longer)[Len(history) + 1] = apply(States(longer)[Len(history)], event)
    BY <1>1, <1>3 DEF IsStates
<1>6. QED
    BY <1>1, <1>4, <1>5 DEF longer, Replay

-----------------------------------------------------------------------------
(* A command's event is an event of the vocabulary, also once applied, and *)
(* applying keeps its kind and author.                                     *)
LEMMA ProcessType ==
    ASSUME NEW cmd \in TaskCommand
    PROVE  /\ process(cmd) \in TaskEvent
           /\ process(cmd).type = "TaskCreatedEvent" <=> cmd.type = "create"
           /\ cmd.type = "create" => process(cmd).taskInfo = cmd.taskInfo
           /\ cmd.type # "create" => process(cmd).update = cmd.update
<1>1. CASE cmd.type = "create"
    BY <1>1 DEF TaskCommand, TaskEvent, process, EventType, Moves, MoveEvents
<1>2. CASE cmd.type = "update"
    BY <1>2 DEF TaskCommand, TaskEvent, process, EventType, Moves, MoveEvents
<1>3. CASE cmd.type \in {"delete", "backlog"}
    BY <1>3 DEF TaskCommand, TaskEvent, process, EventType, Moves, MoveEvents
<1>4. CASE cmd.type \in Moves
    BY <1>4 DEF TaskCommand, TaskEvent, process, EventType, Moves, MoveEvents
<1>5. QED
    BY <1>1, <1>2, <1>3, <1>4 DEF TaskCommand

\* An event that was applied is an event of its type and author.
LEMMA AfterApplyType ==
    ASSUME NEW event \in TaskEvent
    PROVE  /\ AfterApply(event) \in TaskEvent
           /\ AfterApply(event).type = event.type
           /\ Author(AfterApply(event)) = Author(event)
           /\ Author(event) \in Requests
<1>1. CASE event.type = "TaskCreatedEvent"
    BY <1>1 DEF TaskEvent, AfterApply, Author, MoveEvents, TaskInfo, TaskStatus
<1>2. CASE event.type # "TaskCreatedEvent"
    BY <1>2 DEF TaskEvent, AfterApply, Author, MoveEvents
<1>3. QED
    BY <1>1, <1>2

(* Applying the stored form of an event or the event itself is the same:   *)
(* a replay rebuilds what the command that wrote the event saw.            *)
LEMMA ApplyAfterApply ==
    ASSUME NEW task, NEW event \in TaskEvent
    PROVE  apply(task, AfterApply(event)) = apply(task, event)
<1>1. CASE event.type = "TaskCreatedEvent"
    BY <1>1 DEF TaskEvent, AfterApply, apply, MoveEvents, TaskInfo
<1>2. CASE event.type # "TaskCreatedEvent"
    BY <1>2 DEF AfterApply
<1>3. QED
    BY <1>1, <1>2

(* A created task is in its initial column and not deleted unless its      *)
(* creator said so; any other event maps a task to a task and never clears *)
(* the deleted flag (TaskAggregate.apply).                                 *)
LEMMA ApplyType ==
    ASSUME NEW event \in TaskEvent, NEW task,
           event.type # "TaskCreatedEvent" => task \in TaskInfo
    PROVE  /\ apply(task, event) \in TaskInfo
           /\ event.type # "TaskCreatedEvent" /\ task.deleted
                 => apply(task, event).deleted
<1>1. CASE event.type = "TaskCreatedEvent"
    BY <1>1 DEF TaskEvent, apply, MoveEvents, TaskInfo, TaskStatus
<1>2. CASE event.type = "TaskDeletedEvent"
    BY <1>2 DEF TaskEvent, apply, MoveEvents, TaskInfo, TaskStatus
<1>3. CASE event.type = "TaskUpdatedEvent"
    BY <1>3 DEF TaskEvent, apply, MoveEvents, TaskInfo, TaskStatus
<1>4. CASE event.type = "TaskBacklogEvent"
    BY <1>4 DEF TaskEvent, apply, MoveEvents, TaskInfo, TaskStatus
<1>5. CASE event.type \in MoveEvents
    <2>1. StatusOf[event.type] \in TaskStatus
        BY <1>5 DEF StatusOf, TaskStatus, MoveEvents
    <2>2. event.boardId \in BoardRefs /\ event.update \in Requests /\ task \in TaskInfo
        BY <1>5 DEF TaskEvent, MoveEvents
    <2>3. apply(task, event)
             = [task EXCEPT !.status = StatusOf[event.type],
                            !.boardId = event.boardId, !.update = event.update]
        BY <1>5 DEF apply, MoveEvents
    <2>4. QED
        BY <1>5, <2>1, <2>2, <2>3 DEF TaskInfo, MoveEvents
<1>6. QED
    BY <1>1, <1>2, <1>3, <1>4, <1>5 DEF TaskEvent
=============================================================================
