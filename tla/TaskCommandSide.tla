-------------------------- MODULE TaskCommandSide --------------------------
(***************************************************************************)
(* The task command side: HTTP requests handled concurrently by            *)
(* TaskCommandController and TaskService over the event store.             *)
(*                                                                         *)
(* A request is a thread of its own.  Creating a task stores its first     *)
(* event under a fresh id; any other command is a read of the task's       *)
(* events, a replay, and a write that the store accepts only if no event   *)
(* was added since the read (Eventuate's optimistic locking, external to   *)
(* the repository), retried a bounded number of times.                     *)
(***************************************************************************)
EXTENDS TaskAggregate, FiniteSets

CONSTANTS
    Tasks,       \* task ids
    MaxAttempts  \* how often an update is tried before the store gives up

ASSUME TasksAssumption == Null \notin Tasks \cup TaskCommand
ASSUME AttemptsAssumption == MaxAttempts \in Nat \ {0}

VARIABLES
    log,        \* log[t]: the events stored for t, in version order
    pc,         \* pc[r]: how far the request got
    command,    \* command[r]: the command it carries
    target,     \* target[r]: the task it is for (of a creation: its new task)
    version,    \* version[r]: length of the history read, later of the one written
    aggregate,  \* aggregate[r]: the TaskAggregate in memory, later the response
    attempts    \* attempts[r]: failed attempts to write

vars == <<log, pc, command, target, version, aggregate, attempts>>

Idle == "idle"            \* not sent yet
Submitted == "submitted"  \* in a handler, before a read or a creation
Loaded == "loaded"        \* history read and replayed
Stored == "stored"        \* event written, response not sent
Answered == "answered"    \* TaskResponse sent
Rejected == "rejected"    \* error response sent
Lost == "lost"            \* the service died first, no response

InFlight == {Submitted, Loaded, Stored}
RequestStates == InFlight \cup {Idle, Answered, Rejected, Lost}

TypeOK ==
    /\ log \in [Tasks -> Seq(TaskEvent)]
    /\ pc \in [Requests -> RequestStates]
    /\ command \in [Requests -> TaskCommand \cup {Null}]
    /\ target \in [Requests -> Tasks \cup {Null}]
    /\ version \in [Requests -> Nat]
    /\ aggregate \in [Requests -> TaskInfo \cup {Null}]
    /\ attempts \in [Requests -> 0..MaxAttempts]

Init ==
    /\ log = [t \in Tasks |-> <<>>]
    /\ pc = [r \in Requests |-> Idle]
    /\ command = [r \in Requests |-> Null]
    /\ target = [r \in Requests |-> Null]
    /\ version = [r \in Requests |-> 0]
    /\ aggregate = [r \in Requests |-> Null]
    /\ attempts = [r \in Requests |-> 0]

-----------------------------------------------------------------------------
(* HTTP requests arriving at TaskCommandController.                        *)

\* A mutant: ids are not checked for use.
AnyId == Tasks

\* Ids without events.
Fresh == {t \in Tasks : log[t] = <<>>}

Creating(r) == pc[r] = Submitted /\ command[r].type = "create"

\* POST /tasks.  The guard bounds the model: an id is left for each creation.
SubmitCreate(r) ==
    /\ pc[r] = Idle
    /\ Cardinality({q \in Requests : Creating(q)}) < Cardinality(Fresh)
    /\ command' \in {[command EXCEPT ![r] = c] : c \in CreateCommands(r)}
    /\ pc' = [pc EXCEPT ![r] = Submitted]
    /\ UNCHANGED <<log, target, version, aggregate, attempts>>

\* PUT /tasks/{id}[/start, /schedule, /complete, /backlog], DELETE /tasks/{id};
\* the id need not be one of a task.
SubmitUpdate(r, t) ==
    /\ pc[r] = Idle
    /\ command' \in {[command EXCEPT ![r] = c] : c \in UpdateCommands(r, BoardRefs)}
    /\ target' = [target EXCEPT ![r] = t]
    /\ pc' = [pc EXCEPT ![r] = Submitted]
    /\ UNCHANGED <<log, version, aggregate, attempts>>

-----------------------------------------------------------------------------
(* TaskService.save and the aggregateRepository.update of the others.      *)

\* A mutant: the request remembers the version it read as the one it wrote.
StoreAtVersionRead(r, t, state) ==
    LET event == process(command[r])
    IN  /\ log' = [log EXCEPT ![t] = Append(@, AfterApply(event))]
        /\ aggregate' = [aggregate EXCEPT ![r] = apply(state, event)]
        /\ pc' = [pc EXCEPT ![r] = Stored]
        /\ UNCHANGED version

\* The event of r's command is applied to the state and then stored for t,
\* after the events the request knows.
Store(r, t, state) ==
    LET event == process(command[r])
    IN  /\ log' = [log EXCEPT ![t] = Append(@, AfterApply(event))]
        /\ aggregate' = [aggregate EXCEPT ![r] = apply(state, event)]
        /\ version' = [version EXCEPT ![r] = Len(log[t]) + 1]
        /\ pc' = [pc EXCEPT ![r] = Stored]

Save(r, t) ==
    /\ Creating(r)
    /\ t \in Fresh
    /\ Store(r, t, Null)
    /\ target' = [target EXCEPT ![r] = t]
    /\ UNCHANGED <<command, attempts>>

Load(r) ==
    /\ pc[r] = Submitted
    /\ command[r].type # "create"
    /\ log[target[r]] # <<>>
    /\ pc' = [pc EXCEPT ![r] = Loaded]
    /\ version' = [version EXCEPT ![r] = Len(log[target[r]])]
    /\ aggregate' = [aggregate EXCEPT ![r] = Replay(log[target[r]])]
    /\ UNCHANGED <<log, command, target, attempts>>

\* A mutant: a task that is not there is looked for again and again.
NotFoundRetried(r) ==
    /\ pc[r] = Submitted
    /\ command[r].type # "create"
    /\ log[target[r]] = <<>>
    /\ UNCHANGED vars

\* No task has this id.
NotFound(r) ==
    /\ pc[r] = Submitted
    /\ command[r].type # "create"
    /\ log[target[r]] = <<>>
    /\ pc' = [pc EXCEPT ![r] = Rejected]
    /\ UNCHANGED <<log, command, target, version, aggregate, attempts>>

\* A mutant: the store does not check the version.
AlwaysCurrent(r) == TRUE

\* The store's check of the expected version.
Current(r) == version[r] = Len(log[target[r]])

Update(r) ==
    /\ pc[r] = Loaded
    /\ Current(r)
    /\ Store(r, target[r], aggregate[r])
    /\ UNCHANGED <<command, target, attempts>>

\* A mutant: the event is stored before the conflict is noticed.
ConflictAfterWrite(r) ==
    /\ pc[r] = Loaded
    /\ ~Current(r)
    /\ log' = [log EXCEPT ![target[r]] = Append(@, process(command[r]))]
    /\ attempts' = [attempts EXCEPT ![r] = @ + 1]
    /\ pc' = [pc EXCEPT ![r] = IF attempts'[r] < MaxAttempts THEN Submitted ELSE Rejected]
    /\ UNCHANGED <<command, target, version, aggregate>>

\* OptimisticLockingException: read again, or give up.
Conflict(r) ==
    /\ pc[r] = Loaded
    /\ ~Current(r)
    /\ attempts' = [attempts EXCEPT ![r] = @ + 1]
    /\ pc' = [pc EXCEPT ![r] = IF attempts'[r] < MaxAttempts THEN Submitted ELSE Rejected]
    /\ UNCHANGED <<log, command, target, version, aggregate>>

\* A mutant: the response shows the task as it is when it is sent.
RespondWithLatest(r) ==
    /\ pc[r] = Stored
    /\ pc' = [pc EXCEPT ![r] = Answered]
    /\ aggregate' = [aggregate EXCEPT ![r] = Replay(log[target[r]])]
    /\ UNCHANGED <<log, command, target, version, attempts>>

\* makeTaskResponse: the response is the aggregate, field by field.
Respond(r) ==
    /\ pc[r] = Stored
    /\ pc' = [pc EXCEPT ![r] = Answered]
    /\ UNCHANGED <<log, command, target, version, aggregate, attempts>>

\* The service stops and is started again: the events survive, requests do not.
Crash ==
    /\ \E r \in Requests : pc[r] \in InFlight
    /\ pc' = [r \in Requests |-> IF pc[r] \in InFlight THEN Lost ELSE pc[r]]
    /\ UNCHANGED <<log, command, target, version, aggregate, attempts>>

Submit(r) == SubmitCreate(r) \/ \E t \in Tasks : SubmitUpdate(r, t)

Handle(r) ==
    \/ \E t \in Tasks : Save(r, t)
    \/ Load(r)
    \/ NotFound(r)
    \/ Update(r)
    \/ Conflict(r)
    \/ Respond(r)

Next == Crash \/ \E r \in Requests : Submit(r) \/ Handle(r)

\* The service keeps working on the requests it has; users owe nothing.
Fairness == \A r \in Requests : WF_vars(Handle(r))

Spec == Init /\ [][Next]_vars /\ Fairness

-----------------------------------------------------------------------------
(* A history starts with the task's creation and has no other; so a replay *)
(* always has a task to apply an event to (TaskAggregate.apply).           *)
HistoryStartsWithCreation ==
    \A t \in Tasks : \A i \in 1..Len(log[t]) :
        (log[t][i].type = "TaskCreatedEvent") <=> (i = 1)

(* Every TaskResponse is true and stays true: its event is in the history  *)
(* at the version written, and the response is what replaying the history  *)
(* up to that version gives, however many requests ran concurrently        *)
(* (TaskService.update on one task).  A write over a stale read breaks it. *)
ResponsesMatchHistory ==
    \A r \in Requests : pc[r] \in {Stored, Answered} =>
        /\ version[r] \in 1..Len(log[target[r]])
        /\ Author(log[target[r]][version[r]]) = r
        /\ aggregate[r] = States(log[target[r]])[version[r]]

(* A command takes effect at most once, retries included, and never if it  *)
(* was answered with an error (aggregateRepository.update's retries).      *)
AtMostOnce ==
    \A t, u \in Tasks : \A i \in 1..Len(log[t]), j \in 1..Len(log[u]) :
        LET r == Author(log[t][i])
        IN  /\ pc[r] \in {Stored, Answered, Lost}
            /\ Author(log[u][j]) = r => t = u /\ i = j

Deleted(t) == log[t] # <<>> /\ Replay(log[t]).deleted

(* A deleted task stays deleted whatever is done to it afterwards: its     *)
(* commands are still accepted (TaskAggregate.process has no guard) but    *)
(* none restores it, and no step rewrites or forgets a stored event.       *)
DeletionIsPermanent ==
    [][\A t \in Tasks : Deleted(t) => Deleted(t)']_vars

(* Every request ends, by a response, an error or a crash, although other  *)
(* requests may keep winning the race for its task.                        *)
RequestsEnd ==
    \A r \in Requests : pc[r] \in InFlight ~> pc[r] \notin InFlight

(* Requests on one task behave as if each had run alone, at one moment     *)
(* between being sent and being answered (see AtomicTasks).                *)
Outcome(r) ==
    IF pc[r] \in {Submitted, Loaded} THEN "pending"
    ELSE IF pc[r] \in {Rejected, Lost} THEN "failed" ELSE pc[r]

Result(r) == IF pc[r] \in {Stored, Answered} THEN aggregate[r] ELSE Null

Abstract == INSTANCE AtomicTasks WITH
    tasks   <- [t \in Tasks |-> Replay(log[t])],
    outcome <- [r \in Requests |-> Outcome(r)],
    result  <- [r \in Requests |-> Result(r)]

ImplementsAtomicTasks == Abstract!Spec

(* Whatever requests race, fail or are cut off, every step of the command  *)
(* side publishes one event, of a creation first and of a request that has *)
(* none yet, or none: what TaskQuerySide takes the histories to be.        *)
Publishing == INSTANCE TaskQuerySide WITH
    MoveBoards  <- BoardRefs,
    MaxRestarts <- 0,
    delivered   <- [t \in Tasks |-> 0],
    acked       <- [t \in Tasks |-> 0],
    failed      <- [t \in Tasks |-> FALSE],
    view        <- [t \in Tasks |-> Null],
    restarts    <- 0

PublishesHistories ==
    Publishing!Init /\ [][\E t \in Tasks : Publishing!Publish(t)]_Publishing!vars

-----------------------------------------------------------------------------
(* The inductive invariant the safety properties follow from.              *)

\* A request carries a command of its own, for a task of Tasks unless it is
\* a creation, and has an attempt left until it has written.
CommandsAreOwn ==
    \A r \in Requests : pc[r] # Idle =>
        /\ command[r] \in TaskCommand
        /\ Author(process(command[r])) = r
        /\ command[r] \in CreateCommands(r) \cup UpdateCommands(r, BoardRefs)
        /\ command[r].type # "create" => target[r] \in Tasks

AttemptsLeft ==
    \A r \in Requests : pc[r] \in {Idle, Submitted, Loaded} => attempts[r] < MaxAttempts

\* What a request has read is a version of its task, perhaps not the latest.
ReadsMatchHistory ==
    \A r \in Requests : pc[r] = Loaded =>
        /\ command[r].type # "create"
        /\ version[r] \in 1..Len(log[target[r]])
        /\ aggregate[r] = States(log[target[r]])[version[r]]

\* A request that has written knows its task.
StoredHaveTarget ==
    \A r \in Requests : pc[r] \in {Stored, Answered} => target[r] \in Tasks

\* An event's author wrote it as the version it holds, and is done writing.
EventsHaveAuthors ==
    \A t \in Tasks : \A i \in 1..Len(log[t]) :
        LET r == Author(log[t][i])
        IN  /\ r \in Requests
            /\ pc[r] \in {Stored, Answered, Lost}
            /\ target[r] = t
            /\ version[r] = i

\* Every version of a task is a whole TaskInfo.
VersionsAreTasks ==
    \A t \in Tasks : \A n \in 1..Len(log[t]) : States(log[t])[n] \in TaskInfo

IInv ==
    /\ TypeOK
    /\ HistoryStartsWithCreation
    /\ CommandsAreOwn
    /\ AttemptsLeft
    /\ ReadsMatchHistory
    /\ StoredHaveTarget
    /\ ResponsesMatchHistory
    /\ EventsHaveAuthors
    /\ VersionsAreTasks
=============================================================================
