---------------------------- MODULE AtomicTasks ----------------------------
(***************************************************************************)
(* What the task command side promises its clients: a task is one shared   *)
(* object, and a command is carried out on it at a single moment between   *)
(* the request and the response, which shows the state it produced.  A     *)
(* request that fails may have been carried out (its response was lost)    *)
(* but only if it had got that far; one that was refused was not.          *)
(***************************************************************************)
EXTENDS TaskAggregate

CONSTANTS Tasks

VARIABLES
    tasks,    \* tasks[t]: the state of t, Null before it is created
    command,  \* command[r]: what r asks for
    target,   \* target[r]: of which task
    outcome,  \* outcome[r]: "idle", "pending", "stored", "answered" or "failed"
    result    \* result[r]: the state r's command produced

vars == <<tasks, command, target, outcome, result>>

Init ==
    /\ tasks = [t \in Tasks |-> Null]
    /\ command = [r \in Requests |-> Null]
    /\ target = [r \in Requests |-> Null]
    /\ outcome = [r \in Requests |-> "idle"]
    /\ result = [r \in Requests |-> Null]

Send(r) ==
    /\ outcome[r] = "idle"
    /\ outcome' = [outcome EXCEPT ![r] = "pending"]
    /\ \E c \in TaskCommand : command' = [command EXCEPT ![r] = c]
    /\ \E t \in Tasks \cup {Null} : target' = [target EXCEPT ![r] = t]
    /\ UNCHANGED <<tasks, result>>

\* A creation makes a task of an unused id, another command changes a task.
Execute(r, t) ==
    /\ outcome[r] = "pending"
    /\ IF command[r].type = "create" THEN tasks[t] = Null
                                     ELSE tasks[t] # Null /\ t = target[r]
    /\ target' = [target EXCEPT ![r] = t]
    /\ tasks' = [tasks EXCEPT ![t] = apply(@, process(command[r]))]
    /\ result' = [result EXCEPT ![r] = tasks'[t]]
    /\ outcome' = [outcome EXCEPT ![r] = "stored"]
    /\ UNCHANGED command

Answer(r) ==
    /\ outcome[r] = "stored"
    /\ outcome' = [outcome EXCEPT ![r] = "answered"]
    /\ UNCHANGED <<tasks, command, target, result>>

Fail(S) ==
    /\ \A r \in S : outcome[r] \in {"pending", "stored"}
    /\ outcome' = [r \in Requests |-> IF r \in S THEN "failed" ELSE outcome[r]]
    /\ result' = [r \in Requests |-> IF r \in S THEN Null ELSE result[r]]
    /\ UNCHANGED <<tasks, command, target>>

Next ==
    \/ \E r \in Requests : Send(r) \/ Answer(r) \/ \E t \in Tasks : Execute(r, t)
    \/ \E S \in SUBSET Requests : Fail(S)

Spec == Init /\ [][Next]_vars
=============================================================================
