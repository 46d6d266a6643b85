----------------------- MODULE TaskCommandSide_proofs -----------------------
(***************************************************************************)
(* Safety of the task command side for any number of tasks, requests,      *)
(* boards and attempts: the inductive invariant IInv, the permanence of    *)
(* deletion, the refinement of AtomicTasks, and the histories the query    *)
(* side is given.                                                          *)
(***************************************************************************)
EXTENDS TaskCommandSide, TaskAggregate_proofs

\* No history and no request holds IInv.
LEMMA InitIInv == Init => IInv
<1> SUFFICES ASSUME Init PROVE IInv
    OBVIOUS
<1> USE DEF Init
<1>1. TypeOK
    BY AttemptsAssumption DEF TypeOK, RequestStates, Idle
<1>2. \A t \in Tasks : 1..Len(log[t]) = {}
    OBVIOUS
<1>3. HistoryStartsWithCreation /\ EventsHaveAuthors /\ VersionsAreTasks
    BY <1>2 DEF HistoryStartsWithCreation, EventsHaveAuthors, VersionsAreTasks
<1>4. /\ CommandsAreOwn
      /\ AttemptsLeft
      /\ ReadsMatchHistory
      /\ StoredHaveTarget
      /\ ResponsesMatchHistory
    BY AttemptsAssumption DEF CommandsAreOwn, AttemptsLeft, ReadsMatchHistory, StoredHaveTarget,
           ResponsesMatchHistory, Idle, Loaded, Stored, Answered
<1>5. QED
    BY <1>1, <1>3, <1>4 DEF IInv

-----------------------------------------------------------------------------
(* A step that stores no event and changes the requests' own state only    *)
(* keeps what the invariant says of the history.                           *)
LEMMA SubmitIInv ==
    ASSUME IInv, NEW r \in Requests, Submit(r)
    PROVE  IInv'
<1> USE DEF RequestStates, InFlight, Idle, Submitted, Loaded, Stored, Answered, Rejected, Lost
<1>1. PICK c \in TaskCommand :
          /\ command' = [command EXCEPT ![r] = c]
          /\ Author(process(c)) = r
          /\ c \in CreateCommands(r) \cup UpdateCommands(r, BoardRefs)
          /\ target' = target \/ \E t \in Tasks : target' = [target EXCEPT ![r] = t]
          /\ c.type # "create" => \E t \in Tasks : target' = [target EXCEPT ![r] = t]
    <2>1. CASE SubmitCreate(r)
        <3>1. PICK c \in CreateCommands(r) : command' = [command EXCEPT ![r] = c]
            BY <2>1 DEF SubmitCreate
        <3>2. PICK b \in BoardRefs, d \in Details :
                 c = [type |-> "create",
                      taskInfo |-> [boardId |-> b, taskDetails |-> d, creation |-> r,
                                    update |-> r, status |-> Null, deleted |-> FALSE]]
            BY <3>1 DEF CreateCommands
        <3>3. c.taskInfo \in TaskInfo
            BY <3>2 DEF TaskInfo
        <3>4. c \in TaskCommand /\ c.type = "create" /\ c.taskInfo.update = r
            BY <3>2, <3>3 DEF TaskCommand
        <3>5. Author(process(c)) = r
            BY <3>4, ProcessType DEF Author
        <3>6. QED
            BY <2>1, <3>1, <3>4, <3>5 DEF SubmitCreate
    <2>2. ASSUME NEW t \in Tasks, SubmitUpdate(r, t)
          PROVE  \E c \in TaskCommand :
                    /\ command' = [command EXCEPT ![r] = c]
                    /\ Author(process(c)) = r
                    /\ c \in UpdateCommands(r, BoardRefs)
                    /\ \E u \in Tasks : target' = [target EXCEPT ![r] = u]
        <3>1. PICK c \in UpdateCommands(r, BoardRefs) : command' = [command EXCEPT ![r] = c]
            BY <2>2 DEF SubmitUpdate
        <3>2. c \in TaskCommand /\ c.type # "create" /\ c.update = r
            BY <3>1 DEF UpdateCommands, TaskCommand, Moves
        <3>3. Author(process(c)) = r
            BY <3>2, ProcessType DEF Author
        <3>4. QED
            BY <2>2, <3>1, <3>2, <3>3 DEF SubmitUpdate
    <2>3. QED
        BY <2>1, <2>2 DEF Submit
<1>2. /\ pc[r] = Idle
      /\ pc' = [pc EXCEPT ![r] = Submitted]
      /\ UNCHANGED <<log, version, aggregate, attempts>>
    BY DEF Submit, SubmitCreate, SubmitUpdate
<1>3. TypeOK'
    BY <1>1, <1>2 DEF IInv, TypeOK
<1>4. \A q \in Requests \ {r} :
          pc'[q] = pc[q] /\ command'[q] = command[q] /\ target'[q] = target[q]
    BY <1>1, <1>2 DEF IInv, TypeOK
<1>5. pc'[r] = Submitted /\ command'[r] \in TaskCommand /\ Author(process(command'[r])) = r
      /\ command'[r] \in CreateCommands(r) \cup UpdateCommands(r, BoardRefs)
      /\ (command'[r].type # "create" => target'[r] \in Tasks)
    BY <1>1, <1>2 DEF IInv, TypeOK
<1>6. CommandsAreOwn' /\ AttemptsLeft'
    BY <1>2, <1>4, <1>5 DEF IInv, CommandsAreOwn, AttemptsLeft
<1>7. HistoryStartsWithCreation' /\ VersionsAreTasks'
    BY <1>2 DEF IInv, HistoryStartsWithCreation, VersionsAreTasks
<1>8. ReadsMatchHistory' /\ StoredHaveTarget' /\ ResponsesMatchHistory'
    BY <1>2, <1>4, <1>5
    DEF IInv, ReadsMatchHistory, StoredHaveTarget, ResponsesMatchHistory
<1>9. EventsHaveAuthors'
    BY <1>2, <1>4 DEF IInv, EventsHaveAuthors
<1>10. QED
    BY <1>3, <1>6, <1>7, <1>8, <1>9 DEF IInv

(* Reading a task, failing to find it, losing the race for it, answering   *)
(* and crashing leave the events alone.                                    *)
LEMMA LoadIInv ==
    ASSUME IInv, NEW r \in Requests, Load(r)
    PROVE  IInv'
<1> USE DEF RequestStates, InFlight, Idle, Submitted, Loaded, Stored, Answered, Rejected, Lost
<1> DEFINE t == target[r]
<1>1. /\ t \in Tasks /\ log[t] \in Seq(TaskEvent) /\ log[t] # <<>>
      /\ Len(log[t]) \in Nat \ {0}
    BY DEF IInv, TypeOK, CommandsAreOwn, Load
<1>2. Replay(log[t]) = States(log[t])[Len(log[t])] /\ Replay(log[t]) \in TaskInfo
    BY <1>1 DEF Replay, IInv, VersionsAreTasks
<1>3. TypeOK'
    BY <1>1, <1>2 DEF Load, IInv, TypeOK
<1>4. /\ pc[r] = Submitted /\ pc'[r] = Loaded
      /\ version'[r] = Len(log[t]) /\ aggregate'[r] = Replay(log[t])
      /\ command[r].type # "create"
      /\ \A q \in Requests \ {r} :
            pc'[q] = pc[q] /\ version'[q] = version[q] /\ aggregate'[q] = aggregate[q]
      /\ UNCHANGED <<log, command, target, attempts>>
    BY DEF Load, IInv, TypeOK
<1>5. CommandsAreOwn' /\ AttemptsLeft' /\ StoredHaveTarget'
    BY <1>4 DEF IInv, CommandsAreOwn, AttemptsLeft, StoredHaveTarget
<1>6. HistoryStartsWithCreation' /\ VersionsAreTasks'
    BY <1>4 DEF IInv, HistoryStartsWithCreation, VersionsAreTasks
<1>7. ReadsMatchHistory'
    BY <1>1, <1>2, <1>4 DEF IInv, ReadsMatchHistory
<1>8. ResponsesMatchHistory'
    BY <1>4 DEF IInv, ResponsesMatchHistory
<1>9. EventsHaveAuthors'
    BY <1>4 DEF IInv, EventsHaveAuthors
<1>10. QED
    BY <1>3, <1>5, <1>6, <1>7, <1>8, <1>9 DEF IInv

\* Requests that end, fail or start over write nothing.
LEMMA EndIInv ==
    ASSUME IInv,
           Crash \/ \E r \in Requests : NotFound(r) \/ Conflict(r) \/ Respond(r)
    PROVE  IInv'
<1> USE DEF RequestStates, InFlight, Idle, Submitted, Loaded, Stored, Answered, Rejected, Lost
<1>1. UNCHANGED <<log, command, target, version, aggregate>>
    BY DEF Crash, NotFound, Conflict, Respond
<1>2. pc' \in [Requests -> RequestStates]
    BY DEF IInv, TypeOK, Crash, NotFound, Conflict, Respond
<1>3. \A q \in Requests :
          /\ pc'[q] \in {Idle, Loaded, Stored} => pc[q] = pc'[q]
          /\ pc[q] = Idle => pc'[q] = Idle
          /\ pc'[q] = Submitted => pc[q] \in {Submitted, Loaded}
          /\ pc'[q] = Answered => pc[q] \in {Stored, Answered}
          /\ pc[q] \in {Stored, Answered, Lost} => pc'[q] \in {Stored, Answered, Lost}
    BY <1>2 DEF IInv, TypeOK, Crash, NotFound, Conflict, Respond
<1>4. /\ attempts' \in [Requests -> 0..MaxAttempts]
      /\ \A q \in Requests : pc'[q] \in {Idle, Submitted, Loaded} => attempts'[q] < MaxAttempts
    <2>1. CASE UNCHANGED attempts
        BY <1>3, <2>1 DEF IInv, TypeOK, AttemptsLeft
    <2>2. ASSUME NEW r \in Requests, Conflict(r)
          PROVE  /\ attempts' \in [Requests -> 0..MaxAttempts]
                 /\ \A q \in Requests :
                        pc'[q] \in {Idle, Submitted, Loaded} => attempts'[q] < MaxAttempts
        <3>1. attempts[r] \in 0..(MaxAttempts - 1) /\ attempts'[r] = attempts[r] + 1
            BY <2>2, AttemptsAssumption DEF Conflict, IInv, TypeOK, AttemptsLeft
        <3>2. \A q \in Requests \ {r} : attempts'[q] = attempts[q] /\ pc'[q] = pc[q]
            BY <2>2 DEF Conflict, IInv, TypeOK
        <3>3. pc'[r] = IF attempts'[r] < MaxAttempts THEN Submitted ELSE Rejected
            BY <2>2 DEF Conflict, IInv, TypeOK
        <3>4. attempts' \in [Requests -> 0..MaxAttempts]
            BY <2>2, <3>1, AttemptsAssumption DEF Conflict, IInv, TypeOK
        <3>5. QED
            BY <3>1, <3>2, <3>3, <3>4 DEF IInv, AttemptsLeft
    <2>3. QED
        BY <2>1, <2>2 DEF Crash, NotFound, Respond
<1>5. TypeOK' /\ AttemptsLeft'
    BY <1>1, <1>2, <1>4 DEF IInv, TypeOK, AttemptsLeft
<1>6. HistoryStartsWithCreation' /\ VersionsAreTasks'
    BY <1>1 DEF IInv, HistoryStartsWithCreation, VersionsAreTasks
<1>7. CommandsAreOwn' /\ StoredHaveTarget'
    BY <1>1, <1>3 DEF IInv, CommandsAreOwn, StoredHaveTarget
<1>8. ReadsMatchHistory'
    BY <1>1, <1>3 DEF IInv, ReadsMatchHistory
<1>9. ResponsesMatchHistory'
    BY <1>1, <1>3 DEF IInv, ResponsesMatchHistory
<1>10. EventsHaveAuthors'
    BY <1>1, <1>3 DEF IInv, EventsHaveAuthors
<1>11. QED
    BY <1>5, <1>6, <1>7, <1>8, <1>9, <1>10 DEF IInv

-----------------------------------------------------------------------------
(* Storing an event after the ones its author knew.                        *)
LEMMA StoreIInv ==
    ASSUME IInv, NEW r \in Requests, NEW t \in Tasks,
           pc[r] \in {Submitted, Loaded},
           Store(r, t, Replay(log[t])),
           command[r].type = "create" <=> log[t] = <<>>,
           target' = [target EXCEPT ![r] = t],
           UNCHANGED <<command, attempts>>
    PROVE  IInv'
<1> USE DEF RequestStates, InFlight, Idle, Submitted, Loaded, Stored, Answered, Rejected, Lost
<1> DEFINE event == process(command[r])
           stored == AfterApply(event)
           n == Len(log[t])
           state == Replay(log[t])
<1>1. /\ log[t] \in Seq(TaskEvent) /\ n \in Nat
      /\ log[t] = <<>> <=> n = 0
      /\ command[r] \in TaskCommand /\ Author(event) = r
    BY DEF IInv, TypeOK, CommandsAreOwn
<1>2. /\ event \in TaskEvent
      /\ stored \in TaskEvent
      /\ Author(stored) = r
      /\ stored.type = "TaskCreatedEvent" <=> n = 0
    BY <1>1, ProcessType, AfterApplyType
<1>3. apply(state, event) = apply(Replay(log[t]), stored)
    BY <1>2, ApplyAfterApply
<1>4. apply(state, event) \in TaskInfo
    <2>1. n # 0 => Replay(log[t]) \in TaskInfo
        BY <1>1 DEF Replay, IInv, VersionsAreTasks
    <2>2. QED
        BY <1>1, <1>2, <1>3, <2>1, ApplyType
<1> HIDE DEF event, stored
<1>5. /\ log' = [log EXCEPT ![t] = Append(@, stored)]
      /\ aggregate' = [aggregate EXCEPT ![r] = apply(state, event)]
      /\ version' = [version EXCEPT ![r] = n + 1]
      /\ pc' = [pc EXCEPT ![r] = Stored]
    BY DEF Store, event, stored
<1>6. TypeOK'
    BY <1>1, <1>2, <1>4, <1>5 DEF IInv, TypeOK
<1>7. /\ pc'[r] = Stored /\ target'[r] = t /\ version'[r] = n + 1
      /\ aggregate'[r] = apply(state, event)
      /\ \A q \in Requests \ {r} :
            /\ pc'[q] = pc[q] /\ target'[q] = target[q]
            /\ version'[q] = version[q] /\ aggregate'[q] = aggregate[q]
      /\ command' = command /\ attempts' = attempts
    BY <1>5 DEF IInv, TypeOK
<1>8. /\ Len(log'[t]) = n + 1
      /\ log'[t][n + 1] = stored
      /\ \A i \in 1..n : log'[t][i] = log[t][i]
      /\ \A u \in Tasks \ {t} : log'[u] = log[u]
    BY <1>1, <1>2, <1>5 DEF IInv, TypeOK
<1>9. /\ \A i \in 0..n : States(log'[t])[i] = States(log[t])[i]
      /\ States(log'[t])[n + 1] = apply(state, event)
    BY <1>1, <1>2, <1>3, <1>5, StatesAppend DEF IInv, TypeOK
<1>10. \A u \in Tasks : \A i \in 1..Len(log[u]) :
          /\ i \in 1..Len(log'[u])
          /\ log'[u][i] = log[u][i]
          /\ States(log'[u])[i] = States(log[u])[i]
    BY <1>1, <1>8, <1>9
<1>11. \A u \in Tasks : \A i \in 1..Len(log'[u]) :
          i \in 1..Len(log[u]) \/ (u = t /\ i = n + 1)
    BY <1>1, <1>8
<1>12. CommandsAreOwn' /\ AttemptsLeft' /\ StoredHaveTarget'
    BY <1>7 DEF IInv, CommandsAreOwn, AttemptsLeft, StoredHaveTarget
<1>13. HistoryStartsWithCreation'
    <2> SUFFICES ASSUME NEW u \in Tasks, NEW i \in 1..Len(log'[u])
                 PROVE  log'[u][i].type = "TaskCreatedEvent" <=> i = 1
        BY DEF HistoryStartsWithCreation
    <2>1. CASE i \in 1..Len(log[u])
        BY <1>10, <2>1 DEF IInv, HistoryStartsWithCreation
    <2>2. CASE u = t /\ i = n + 1
        BY <1>1, <1>2, <1>8, <2>2
    <2>3. QED
        BY <1>11, <2>1, <2>2
<1>14. VersionsAreTasks'
    BY <1>4, <1>9, <1>10, <1>11 DEF IInv, VersionsAreTasks
<1>15. ReadsMatchHistory'
    BY <1>7, <1>10 DEF IInv, ReadsMatchHistory, CommandsAreOwn
<1>16. ResponsesMatchHistory'
    <2> SUFFICES ASSUME NEW q \in Requests, pc'[q] \in {Stored, Answered}
                 PROVE  /\ version'[q] \in 1..Len(log'[target'[q]])
                        /\ Author(log'[target'[q]][version'[q]]) = q
                        /\ aggregate'[q] = States(log'[target'[q]])[version'[q]]
        BY DEF ResponsesMatchHistory
    <2>1. CASE q = r
        BY <1>1, <1>2, <1>7, <1>8, <1>9, <2>1
    <2>2. CASE q # r
        BY <1>7, <1>10, <2>2 DEF IInv, ResponsesMatchHistory, StoredHaveTarget
    <2>3. QED
        BY <2>1, <2>2
<1>17. EventsHaveAuthors'
    <2> SUFFICES ASSUME NEW u \in Tasks, NEW i \in 1..Len(log'[u])
                 PROVE  LET q == Author(log'[u][i])
                        IN  /\ q \in Requests
                            /\ pc'[q] \in {Stored, Answered, Lost}
                            /\ target'[q] = u
                            /\ version'[q] = i
        BY DEF EventsHaveAuthors
    <2>1. CASE i \in 1..Len(log[u])
        BY <1>7, <1>10, <2>1 DEF IInv, EventsHaveAuthors
    <2>2. CASE u = t /\ i = n + 1
        BY <1>2, <1>7, <1>8, <2>2
    <2>3. QED
        BY <1>11, <2>1, <2>2
<1>18. QED
    BY <1>6, <1>12, <1>13, <1>14, <1>15, <1>16, <1>17 DEF IInv

(* Save and Update are such writes: a new id has no events, and the check  *)
(* of the expected version makes a read the latest.                        *)
LEMMA WriteIsStore ==
    ASSUME IInv, NEW r \in Requests,
           Update(r) \/ \E t \in Tasks : Save(r, t)
    PROVE  \E t \in Tasks :
              /\ pc[r] \in {Submitted, Loaded}
              /\ Store(r, t, Replay(log[t]))
              /\ command[r].type = "create" <=> log[t] = <<>>
              /\ command[r].type # "create" => t = target[r]
              /\ target' = [target EXCEPT ![r] = t]
              /\ UNCHANGED <<command, attempts>>
<1> USE DEF Idle, Submitted, Loaded
<1>1. CASE Update(r)
    <2>1. /\ target[r] \in Tasks /\ command[r].type # "create"
          /\ log[target[r]] \in Seq(TaskEvent)
          /\ version[r] \in 1..Len(log[target[r]]) /\ version[r] = Len(log[target[r]])
          /\ aggregate[r] = States(log[target[r]])[version[r]]
        BY <1>1 DEF Update, Current, IInv, TypeOK, CommandsAreOwn, ReadsMatchHistory
    <2>2. aggregate[r] = Replay(log[target[r]]) /\ log[target[r]] # <<>>
        BY <2>1 DEF Replay
    <2>3. target' = [target EXCEPT ![r] = target[r]]
        BY <1>1 DEF Update, IInv, TypeOK
    <2>4. Store(r, target[r], Replay(log[target[r]]))
        BY <1>1, <2>2 DEF Update, Store
    <2>5. QED
        BY <1>1, <2>1, <2>2, <2>3, <2>4 DEF Update
<1>2. ASSUME NEW t \in Tasks, Save(r, t)
      PROVE  /\ pc[r] \in {Submitted, Loaded}
             /\ Store(r, t, Replay(log[t]))
             /\ command[r].type = "create" /\ log[t] = <<>>
             /\ target' = [target EXCEPT ![r] = t]
             /\ UNCHANGED <<command, attempts>>
    <2>1. log[t] = <<>> /\ log[t] \in Seq(TaskEvent)
        BY <1>2 DEF Save, Fresh, IInv, TypeOK
    <2>2. Null = Replay(log[t])
        BY <2>1, StatesEmpty
    <2>3. Store(r, t, Replay(log[t]))
        BY <1>2, <2>2 DEF Save, Store
    <2>4. QED
        BY <1>2, <2>1, <2>3 DEF Save, Creating
<1>3. QED
    BY <1>1, <1>2

\* Every step keeps it.
LEMMA NextIInv == IInv /\ [Next]_vars => IInv'
<1> SUFFICES ASSUME IInv, [Next]_vars PROVE IInv'
    OBVIOUS
<1>1. ASSUME NEW r \in Requests, Submit(r) PROVE IInv'
    BY <1>1, SubmitIInv
<1>2. ASSUME NEW r \in Requests, Load(r) PROVE IInv'
    BY <1>2, LoadIInv
<1>3. ASSUME NEW r \in Requests, NotFound(r) \/ Conflict(r) \/ Respond(r) PROVE IInv'
    BY <1>3, EndIInv
<1>4. ASSUME NEW r \in Requests, Update(r) \/ \E t \in Tasks : Save(r, t) PROVE IInv'
    BY <1>4, WriteIsStore, StoreIInv
<1>5. CASE Crash
    BY <1>5, EndIInv
<1>6. CASE UNCHANGED vars
    BY <1>6
    DEF vars, IInv, TypeOK, HistoryStartsWithCreation, CommandsAreOwn, AttemptsLeft,
        ReadsMatchHistory, StoredHaveTarget, ResponsesMatchHistory, EventsHaveAuthors,
        VersionsAreTasks
<1>7. QED
    BY <1>1, <1>2, <1>3, <1>4, <1>5, <1>6 DEF Next, Handle

-----------------------------------------------------------------------------
(* The inductive invariant, and the safety properties it implies.          *)
THEOREM Invariance == Spec => []IInv
<1>1. Init => IInv
    BY InitIInv
<1>2. IInv /\ [Next]_vars => IInv'
    BY NextIInv
<1>3. QED
    BY <1>1, <1>2, PTL DEF Spec

(* Type correctness of the command side's state.                           *)
THEOREM TypeCorrectness == Spec => []TypeOK
<1>1. IInv => TypeOK
    BY DEF IInv
<1>2. QED
    BY <1>1, Invariance, PTL

(* Every history is a creation followed by no other (TaskAggregate.apply   *)
(* never meets a task that was not created).                               *)
THEOREM CreationFirst == Spec => []HistoryStartsWithCreation
<1>1. IInv => HistoryStartsWithCreation
    BY DEF IInv
<1>2. QED
    BY <1>1, Invariance, PTL

(* No answered update is ever lost or altered by another request, for any  *)
(* number of concurrent users (optimistic locking in TaskService.update).  *)
THEOREM ResponsesAreDurable == Spec => []ResponsesMatchHistory
<1>1. IInv => ResponsesMatchHistory
    BY DEF IInv
<1>2. QED
    BY <1>1, Invariance, PTL

(* Retries never apply a command twice, and a refused command leaves no    *)
(* event, whatever the number of attempts.                                 *)
THEOREM CommandsApplyAtMostOnce == Spec => []AtMostOnce
<1>1. IInv => AtMostOnce
    BY DEF IInv, EventsHaveAuthors, AtMostOnce
<1>2. QED
    BY <1>1, Invariance, PTL

-----------------------------------------------------------------------------
(* A step either leaves all histories alone or adds one event to one of    *)
(* them, a creation only to an empty one.                                  *)
LEMMA HistoryStep ==
    ASSUME IInv, [Next]_vars
    PROVE  \/ log' = log
           \/ \E t \in Tasks, event \in TaskEvent :
                /\ event.type = "TaskCreatedEvent" <=> log[t] = <<>>
                /\ log' = [log EXCEPT ![t] = Append(@, event)]
<1>1. ASSUME NEW r \in Requests, Update(r) \/ \E t \in Tasks : Save(r, t)
      PROVE  \E t \in Tasks, event \in TaskEvent :
                /\ event.type = "TaskCreatedEvent" <=> log[t] = <<>>
                /\ log' = [log EXCEPT ![t] = Append(@, event)]
    <2>1. PICK t \in Tasks :
              /\ pc[r] \in {Submitted, Loaded}
              /\ Store(r, t, Replay(log[t]))
              /\ command[r].type = "create" <=> log[t] = <<>>
        BY <1>1, WriteIsStore
    <2>2. command[r] \in TaskCommand
        BY <2>1 DEF IInv, CommandsAreOwn, Submitted, Loaded, Idle
    <2>3. /\ AfterApply(process(command[r])) \in TaskEvent
          /\ AfterApply(process(command[r])).type = "TaskCreatedEvent" <=> log[t] = <<>>
        BY <2>1, <2>2, ProcessType, AfterApplyType
    <2>4. QED
        BY <2>1, <2>3 DEF Store
<1>2. QED
    BY <1>1
    DEF Next, vars, Submit, SubmitCreate, SubmitUpdate, Handle, Load, NotFound,
        Conflict, Respond, Crash

(* Deletion is permanent: no sequence of later commands, which the         *)
(* aggregate accepts, brings a task back.                                  *)
THEOREM DeletionHolds == Spec => DeletionIsPermanent
<1>1. IInv /\ [Next]_vars => [\A t \in Tasks : Deleted(t) => Deleted(t)']_vars
    <2> SUFFICES ASSUME IInv, [Next]_vars, NEW t \in Tasks, Deleted(t)
                 PROVE  Deleted(t)'
        OBVIOUS
    <2>1. CASE log'[t] = log[t]
        BY <2>1 DEF Deleted
    <2>2. ASSUME NEW event \in TaskEvent,
                 event.type = "TaskCreatedEvent" <=> log[t] = <<>>,
                 log'[t] = Append(log[t], event)
          PROVE  Deleted(t)'
        <3>1. /\ log[t] \in Seq(TaskEvent) /\ log[t] # <<>> /\ Replay(log[t]).deleted
              /\ Len(log[t]) \in 1..Len(log[t])
            BY DEF Deleted, IInv, TypeOK
        <3>2. Replay(log[t]) \in TaskInfo
            BY <3>1 DEF Replay, IInv, VersionsAreTasks
        <3>3. Replay(log'[t]) = apply(Replay(log[t]), event)
            BY <2>2, <3>1, StatesAppend
        <3>4. apply(Replay(log[t]), event).deleted
            BY <2>2, <3>1, <3>2, ApplyType
        <3>5. log'[t] # <<>>
            BY <2>2, <3>1
        <3>6. QED
            BY <3>3, <3>4, <3>5 DEF Deleted
    <2>3. QED
        BY <2>1, <2>2, HistoryStep DEF IInv, TypeOK
<1>2. QED
    BY <1>1, Invariance, PTL DEF Spec, DeletionIsPermanent

-----------------------------------------------------------------------------
(* The task command side implements AtomicTasks: every step of it is a     *)
(* step of the abstract specification, under the mapping of the instance   *)
(* Abstract, or leaves the abstract state as it is.                        *)

(* The abstract specification speaks of the same commands and events.      *)
LEMMA SameCommands == Abstract!TaskCommand = TaskCommand
BY DEF Abstract!TaskCommand, TaskCommand, Abstract!TaskInfo, TaskInfo, Abstract!Moves, Moves,
       Abstract!BoardRefs, BoardRefs, Abstract!TaskStatus, TaskStatus

\* Both specifications make the same event of a command
LEMMA SameProcess == \A cmd : Abstract!process(cmd) = process(cmd)
BY DEF Abstract!process, process, Abstract!EventType, EventType

\* and the same aggregate of an event.
LEMMA SameApply == \A task, event : Abstract!apply(task, event) = apply(task, event)
BY DEF Abstract!apply, apply, Abstract!StatusOf, StatusOf, Abstract!MoveEvents, MoveEvents

\* The initial states of the one are those of the other.
LEMMA InitRefines == Init => Abstract!Init
<1> SUFFICES ASSUME Init PROVE Abstract!Init
    OBVIOUS
<1>1. \A t \in Tasks : Replay(log[t]) = Null
    <2>1. \A t \in Tasks : log[t] = <<>> /\ log[t] \in Seq(TaskEvent)
        BY DEF Init
    <2>2. QED
        BY <2>1, StatesEmpty
<1>2. \A r \in Requests : Outcome(r) = "idle" /\ Result(r) = Null
    BY DEF Init, Outcome, Result, Idle, Submitted, Loaded, Rejected, Lost, Stored, Answered
<1>3. QED
    BY <1>1, <1>2 DEF Init, Abstract!Init

(* Sending a request.                                                      *)
LEMMA SubmitRefines ==
    ASSUME IInv, NEW r \in Requests, Submit(r)
    PROVE  Abstract!Send(r)
<1> USE DEF RequestStates, InFlight, Idle, Submitted, Loaded, Stored, Answered, Rejected, Lost
<1>1. /\ pc[r] = Idle
      /\ pc' = [pc EXCEPT ![r] = Submitted]
      /\ UNCHANGED <<log, aggregate>>
    BY DEF Submit, SubmitCreate, SubmitUpdate
<1>2. \A q \in Requests :
          /\ Outcome(q)' = IF q = r THEN "pending" ELSE Outcome(q)
          /\ Result(q)' = Result(q)
    BY <1>1 DEF Outcome, Result, IInv, TypeOK
<1>3. Outcome(r) = "idle"
    BY <1>1 DEF Outcome
<1>4. \E c \in TaskCommand : command' = [command EXCEPT ![r] = c]
    <2>1. PICK c : command' = [command EXCEPT ![r] = c]
        BY DEF Submit, SubmitCreate, SubmitUpdate
    <2>2. command'[r] = c /\ pc'[r] # Idle
        BY <1>1, <2>1 DEF IInv, TypeOK
    <2>3. IInv'
        BY SubmitIInv
    <2>4. QED
        BY <2>1, <2>2, <2>3 DEF IInv, CommandsAreOwn
<1>5. \E t \in Tasks \cup {Null} : target' = [target EXCEPT ![r] = t]
    <2>1. CASE target' = target
        <3>1. target[r] \in Tasks \cup {Null} /\ target' = [target EXCEPT ![r] = target[r]]
            BY <2>1 DEF IInv, TypeOK
        <3>2. QED
            BY <3>1
    <2>2. CASE \E t \in Tasks : target' = [target EXCEPT ![r] = t]
        BY <2>2
    <2>3. QED
        BY <2>1, <2>2 DEF Submit, SubmitCreate, SubmitUpdate
<1>6. UNCHANGED [t \in Tasks |-> Replay(log[t])]
    BY <1>1
<1>7. QED
    BY <1>2, <1>3, <1>4, <1>5, <1>6, SameCommands DEF Abstract!Send

(* Storing an event is the moment a command takes effect.                  *)
LEMMA WriteRefines ==
    ASSUME IInv, NEW r \in Requests, Update(r) \/ \E t \in Tasks : Save(r, t)
    PROVE  \E t \in Tasks : Abstract!Execute(r, t)
<1> USE DEF RequestStates, InFlight, Idle, Submitted, Loaded, Stored, Answered, Rejected, Lost
<1>1. PICK t \in Tasks :
          /\ pc[r] \in {Submitted, Loaded}
          /\ Store(r, t, Replay(log[t]))
          /\ command[r].type = "create" <=> log[t] = <<>>
          /\ command[r].type # "create" => t = target[r]
          /\ target' = [target EXCEPT ![r] = t]
          /\ UNCHANGED <<command, attempts>>
    BY WriteIsStore
<1> DEFINE event == process(command[r])
<1>2. /\ log[t] \in Seq(TaskEvent)
      /\ event \in TaskEvent
      /\ AfterApply(event) \in TaskEvent
    BY <1>1, ProcessType, AfterApplyType DEF IInv, TypeOK, CommandsAreOwn
<1>3. /\ log' = [log EXCEPT ![t] = Append(@, AfterApply(event))]
      /\ aggregate' = [aggregate EXCEPT ![r] = apply(Replay(log[t]), event)]
      /\ pc' = [pc EXCEPT ![r] = Stored]
    BY <1>1 DEF Store
<1> HIDE DEF event
<1>4. Replay(log'[t]) = apply(Replay(log[t]), event)
    BY <1>2, <1>3, StatesAppend, ApplyAfterApply DEF IInv, TypeOK
<1>5. \A u \in Tasks : Replay(log'[u])
          = IF u = t THEN apply(Replay(log[t]), event) ELSE Replay(log[u])
    BY <1>3, <1>4 DEF IInv, TypeOK
<1>6. \A q \in Requests :
          /\ Outcome(q)' = IF q = r THEN "stored" ELSE Outcome(q)
          /\ Result(q)' = IF q = r THEN apply(Replay(log[t]), event) ELSE Result(q)
    BY <1>3 DEF Outcome, Result, IInv, TypeOK
<1>7. Outcome(r) = "pending"
    BY <1>1 DEF Outcome
<1>8. Replay(log[t]) = Null <=> log[t] = <<>>
    <2>1. log[t] = <<>> => Replay(log[t]) = Null
        BY <1>2, StatesEmpty
    <2>2. log[t] # <<>> => Len(log[t]) \in 1..Len(log[t])
        BY <1>2
    <2>3. log[t] # <<>> => Replay(log[t]) \in TaskInfo
        BY <2>2 DEF Replay, IInv, VersionsAreTasks
    <2>4. QED
        BY <2>1, <2>3, NullAssumption
<1>9. Abstract!apply(Replay(log[t]), Abstract!process(command[r]))
          = apply(Replay(log[t]), event)
    BY SameProcess, SameApply DEF event
<1> DEFINE tasks == [u \in Tasks |-> Replay(log[u])]
<1>10. tasks' = [tasks EXCEPT ![t] = apply(Replay(log[t]), event)]
    BY <1>5
<1>11. [q \in Requests |-> Outcome(q)]'
          = [[q \in Requests |-> Outcome(q)] EXCEPT ![r] = "stored"]
    BY <1>6
<1>12. [q \in Requests |-> Result(q)]'
          = [[q \in Requests |-> Result(q)] EXCEPT ![r] = tasks'[t]]
    BY <1>6, <1>10
<1>13. QED
    BY <1>1, <1>7, <1>8, <1>9, <1>10, <1>11, <1>12 DEF Abstract!Execute

(* An answer, and the ends without one.                                    *)
LEMMA EndRefines ==
    ASSUME IInv,
           Crash \/ \E r \in Requests : Load(r) \/ NotFound(r) \/ Conflict(r) \/ Respond(r)
    PROVE  [Abstract!Next]_Abstract!vars
<1> USE DEF RequestStates, InFlight, Idle, Submitted, Loaded, Stored, Answered, Rejected, Lost
<1>1. ASSUME NEW r \in Requests, Respond(r)
      PROVE  Abstract!Answer(r)
    <2>1. \A q \in Requests :
              /\ Outcome(q)' = IF q = r THEN "answered" ELSE Outcome(q)
              /\ Result(q)' = Result(q)
        BY <1>1 DEF Respond, Outcome, Result, IInv, TypeOK
    <2>2. Outcome(r) = "stored"
        BY <1>1 DEF Respond, Outcome
    <2>3. QED
        BY <1>1, <2>1, <2>2 DEF Respond, Abstract!Answer
<1>2. ASSUME NEW r \in Requests, Load(r)
      PROVE  UNCHANGED Abstract!vars
    <2>1. \A q \in Requests : Outcome(q)' = Outcome(q) /\ Result(q)' = Result(q)
        BY <1>2 DEF Load, Outcome, Result, IInv, TypeOK
    <2>2. QED
        BY <1>2, <2>1 DEF Load, Abstract!vars
<1>3. ASSUME \/ Crash
             \/ \E r \in Requests : NotFound(r) \/ Conflict(r)
      PROVE  \E S \in SUBSET Requests : Abstract!Fail(S)
    <2> DEFINE S == {q \in Requests : pc[q] \in InFlight /\ pc'[q] \in {Lost, Rejected}}
    <2>1. /\ pc' \in [Requests -> RequestStates]
          /\ \A q \in Requests \ S :
                pc'[q] = pc[q] \/ (pc[q] = Loaded /\ pc'[q] = Submitted)
          /\ UNCHANGED <<log, command, target, aggregate>>
        BY <1>3 DEF Crash, NotFound, Conflict, IInv, TypeOK
    <2>2. \A q \in Requests :
              /\ Outcome(q)' = IF q \in S THEN "failed" ELSE Outcome(q)
              /\ Result(q)' = IF q \in S THEN Null ELSE Result(q)
        BY <2>1 DEF Outcome, Result, IInv, TypeOK
    <2>3. \A q \in S : Outcome(q) \in {"pending", "stored"}
        BY DEF Outcome
    <2> HIDE DEF S
    <2>4. S \in SUBSET Requests
        BY DEF S
    <2>5. Abstract!Fail(S)
        <3>1. [q \in Requests |-> Outcome(q)]'
                 = [q \in Requests |-> IF q \in S THEN "failed"
                                       ELSE [p \in Requests |-> Outcome(p)][q]]
            BY <2>2
        <3>2. [q \in Requests |-> Result(q)]'
                 = [q \in Requests |-> IF q \in S THEN Null
                                       ELSE [p \in Requests |-> Result(p)][q]]
            BY <2>2
        <3>3. UNCHANGED [t \in Tasks |-> Replay(log[t])]
            BY <2>1
        <3>4. QED
            BY <2>1, <2>3, <2>4, <3>1, <3>2, <3>3 DEF Abstract!Fail
    <2>6. QED
        BY <2>4, <2>5
<1>4. QED
    BY <1>1, <1>2, <1>3 DEF Abstract!Next

(* Concurrent requests, retries and crashes included, are equivalent to    *)
(* commands executed one at a time (TaskService over the event store).     *)
THEOREM Refinement == Spec => ImplementsAtomicTasks
<1>1. Init => Abstract!Init
    BY InitRefines
<1>2. IInv /\ [Next]_vars => [Abstract!Next]_Abstract!vars
    <2> SUFFICES ASSUME IInv, [Next]_vars PROVE [Abstract!Next]_Abstract!vars
        OBVIOUS
    <2>1. ASSUME NEW r \in Requests, Submit(r) PROVE Abstract!Next
        BY <2>1, SubmitRefines DEF Abstract!Next
    <2>2. ASSUME NEW r \in Requests, Update(r) \/ \E t \in Tasks : Save(r, t)
          PROVE  Abstract!Next
        BY <2>2, WriteRefines DEF Abstract!Next
    <2>3. CASE Crash \/ \E r \in Requests : Load(r) \/ NotFound(r) \/ Conflict(r) \/ Respond(r)
        BY <2>3, EndRefines
    <2>4. CASE UNCHANGED vars
        BY <2>4 DEF vars, Abstract!vars, Outcome, Result
    <2>5. QED
        BY <2>1, <2>2, <2>3, <2>4 DEF Next, Handle
<1>3. QED
    BY <1>1, <1>2, Invariance, PTL DEF Spec, ImplementsAtomicTasks, Abstract!Spec

-----------------------------------------------------------------------------
(* The histories are what the query side takes them to be.                 *)

(* The instance Publishing speaks of the same commands and events.         *)
LEMMA SamePublishing ==
    /\ \A r : Publishing!CreateCommands(r) = CreateCommands(r)
    /\ \A r : Publishing!UpdateCommands(r, BoardRefs) = UpdateCommands(r, BoardRefs)
    /\ \A cmd : Publishing!AfterApply(Publishing!process(cmd)) = AfterApply(process(cmd))
    /\ \A event : Publishing!Author(event) = Author(event)
<1>1. Publishing!BoardRefs = BoardRefs /\ Publishing!Moves = Moves
    BY DEF Publishing!BoardRefs, BoardRefs, Publishing!Moves, Moves
<1>2. \A r : Publishing!CreateCommands(r) = CreateCommands(r)
    BY <1>1 DEF Publishing!CreateCommands, CreateCommands
<1>3. \A r : Publishing!UpdateCommands(r, BoardRefs) = UpdateCommands(r, BoardRefs)
    BY <1>1 DEF Publishing!UpdateCommands, UpdateCommands
<1>4. \A cmd : Publishing!AfterApply(Publishing!process(cmd)) = AfterApply(process(cmd))
    BY DEF Publishing!AfterApply, AfterApply, Publishing!process, process,
           Publishing!EventType, EventType
<1>5. \A event : Publishing!Author(event) = Author(event)
    BY DEF Publishing!Author, Author
<1>6. QED
    BY <1>2, <1>3, <1>4, <1>5

(* A request that writes has no event yet, and its command is its own.     *)
LEMMA WritePublishes ==
    ASSUME IInv, NEW r \in Requests, Update(r) \/ \E t \in Tasks : Save(r, t)
    PROVE  \E t \in Tasks : Publishing!Publish(t)
<1>1. PICK t \in Tasks :
          /\ pc[r] \in {Submitted, Loaded}
          /\ Store(r, t, Replay(log[t]))
          /\ command[r].type = "create" <=> log[t] = <<>>
    BY WriteIsStore
<1> DEFINE c == command[r]
<1>2. log' = [log EXCEPT ![t] = Append(@, AfterApply(process(c)))]
    BY <1>1 DEF Store
<1>3. Publishing!Unused(r)
    <2>1. \A u \in Tasks : \A i \in 1..Len(log[u]) :
             pc[Author(log[u][i])] \in {Stored, Answered, Lost}
        BY DEF IInv, EventsHaveAuthors
    <2>2. {Submitted, Loaded} \cap {Stored, Answered, Lost} = {}
        BY DEF Submitted, Loaded, Stored, Answered, Lost
    <2>3. \A u \in Tasks : \A i \in 1..Len(log[u]) : Author(log[u][i]) # r
        BY <1>1, <2>1, <2>2
    <2>4. QED
        BY <2>3, SamePublishing DEF Publishing!Unused
<1>4. c \in IF log[t] = <<>> THEN CreateCommands(r) ELSE UpdateCommands(r, BoardRefs)
    <2>1. c \in CreateCommands(r) \cup UpdateCommands(r, BoardRefs)
        BY <1>1 DEF IInv, CommandsAreOwn, Idle, Submitted, Loaded
    <2>2. c \in CreateCommands(r) => c.type = "create"
        BY DEF CreateCommands
    <2>3. c \in UpdateCommands(r, BoardRefs) => c.type # "create"
        BY DEF UpdateCommands, Moves
    <2>4. QED
        BY <1>1, <2>1, <2>2, <2>3
<1> HIDE DEF c
<1>5. QED
    BY <1>2, <1>3, <1>4, SamePublishing DEF Publishing!Publish

(* The command side writes histories as TaskQuerySide!Publish does: what   *)
(* is proved of the query side holds of the events of this one.            *)
THEOREM Publication == Spec => PublishesHistories
<1>1. Init => Publishing!Init
    BY DEF Init, Publishing!Init
<1>2. IInv /\ [Next]_vars => [\E t \in Tasks : Publishing!Publish(t)]_Publishing!vars
    <2> SUFFICES ASSUME IInv, [Next]_vars
                 PROVE  [\E t \in Tasks : Publishing!Publish(t)]_Publishing!vars
        OBVIOUS
    <2>1. ASSUME NEW r \in Requests, Update(r) \/ \E t \in Tasks : Save(r, t)
          PROVE  \E t \in Tasks : Publishing!Publish(t)
        BY <2>1, WritePublishes
    <2>2. ASSUME log' = log PROVE UNCHANGED Publishing!vars
        BY <2>2 DEF Publishing!vars
    <2>3. ASSUME NEW r \in Requests, Submit(r) \/ Load(r) \/ NotFound(r) \/ Conflict(r) \/ Respond(r)
          PROVE  log' = log
        BY <2>3 DEF Submit, SubmitCreate, SubmitUpdate, Load, NotFound, Conflict, Respond
    <2>4. Crash \/ UNCHANGED vars => log' = log
        BY DEF Crash, vars
    <2>5. QED
        BY <2>1, <2>2, <2>3, <2>4 DEF Next, Handle
<1>3. QED
    BY <1>1, <1>2, Invariance, PTL DEF Spec, PublishesHistories
=============================================================================
